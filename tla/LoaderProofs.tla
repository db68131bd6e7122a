---------------------------- MODULE LoaderProofs ----------------------------
(***************************************************************************)
(* On a line that loses nothing host and board stay in step, for every     *)
(* S-record file, however many characters could arrive while the board     *)
(* sends one, and for any number of uploads.                               *)
(***************************************************************************)
EXTENDS Loader, SequenceTheorems, TLAPS

-----------------------------------------------------------------------------
(* The inductive invariant *)

Reported == {"idle", "done", "failed"}

\* The points of bootloader.c.
Points ==
  {"greet", "wait", "expired", "monitor", "jumped", "command", "type", "count",
   "address", "byte", "eol", "skipcount", "entry", "starteol"}

Boot == [at : Points, width : Nat, left : Nat, val : Nat, addr : Nat, bytes : Nat]

Host == [at : Reported \cup {"contact", "answer", "final"}, line : Nat, jump : BOOLEAN]

Register == [full : BOOLEAN, char : Nat]

\* The variables have the types that their comments say.
TypeOK ==
  /\ file \in Files
  /\ up \in Host /\ up.line <= Len(file)
  /\ runs \in Nat /\ (up.at # "idle" => runs > 0)
  /\ wire \in Seq(Nat) /\ answers \in Nat /\ lost \in Nat
  /\ rx \in Register /\ overrun \in BOOLEAN
  /\ out \in Seq(Nat)
  /\ boot \in Boot
  /\ boot.at = "byte" => boot.bytes > 0
  /\ start \in Nat

\* Nothing is on the wire or in the receive register.
Taken == wire = <<>> /\ ~rx.full

\* The rest of a line from its character p is on its way, or its first character
\* is in the register.
Unread(register, way, line, p) ==
  LET q == IF register.full THEN p ELSE p - 1
  IN /\ p \in 1 .. Len(line)
     /\ register.full => register.char = line[p]
     /\ Len(way) = Len(line) - q
     /\ \A i \in 1 .. Len(way) : way[i] = line[q + i]

\* "?\n" is sent, or has been read but for upload's reading of it.
Answering ==
  /\ boot.at = "command" /\ Taken
  /\ \/ out \in {<<Quest, Nl>>, <<Nl>>} /\ answers = 0
     \/ out = <<>> /\ answers = 1

\* The memory and the start address after n lines.
Stored(n) == mem = Contents(Places(n, 0)) /\ start = Entry(n)

\* The number of which the lower digits are still to be read.
Upper(v, left) == IF left >= 4 THEN 0 ELSE v \div Weight[left + 1]

Count(r) == (AddrDigits(r.type) \div 2) + Len(r.data) + 1

\* The bootloader is about to read character p of line n, and has stored and
\* kept what came before.
ReadsCount(n, p) ==
  LET r == file[n]
  IN /\ \/ boot.at = "count" /\ IsData(r)
        \/ boot.at = "skipcount" /\ IsStart(r)
     /\ boot.left \in 1 .. 2 /\ p = 5 - boot.left
     /\ boot.width = AddrDigits(r.type) /\ boot.val = Upper(Count(r), boot.left)
     /\ mem = Contents(Places(n - 1, 0))

ReadsAddress(n, p) ==
  LET r == file[n]
  IN /\ \/ boot.at = "address" /\ IsData(r) /\ boot.bytes = Len(r.data)
        \/ boot.at = "entry" /\ IsStart(r)
     /\ boot.left \in 1 .. AddrDigits(r.type) /\ p = 5 + AddrDigits(r.type) - boot.left
     /\ boot.val = Upper(r.addr, boot.left)
     /\ mem = Contents(Places(n - 1, 0))

ReadsByte(n, p) ==
  LET r    == file[n]
      done == Len(r.data) - boot.bytes
  IN /\ boot.at = "byte" /\ IsData(r)
     /\ boot.bytes \in 1 .. Len(r.data) /\ boot.left \in 1 .. 2
     /\ p = 7 + AddrDigits(r.type) + 2 * done - boot.left
     /\ boot.val = Upper(r.data[done + 1], boot.left)
     /\ boot.addr = r.addr + done
     /\ mem = Contents(Places(n - 1, done))

ReadsRest(n) ==
  /\ \/ boot.at = "eol" /\ ~IsStart(file[n])
     \/ boot.at = "starteol" /\ IsStart(file[n]) /\ boot.val = file[n].addr
  /\ mem = Contents(Places(n, 0))

\* The point that belongs to character p of line n.
IsAt(n, p) ==
  \/ boot.at = "command" /\ p = 1 /\ mem = Contents(Places(n - 1, 0))
  \/ boot.at = "type" /\ p = 2 /\ mem = Contents(Places(n - 1, 0))
  \/ ReadsCount(n, p) \/ ReadsAddress(n, p) \/ ReadsByte(n, p) \/ ReadsRest(n)

Parsing(n) ==
  /\ out = <<>> /\ answers = 0 /\ start = Entry(n - 1)
  /\ \E p \in 1 .. Len(Line(file[n])) : Unread(rx, wire, Line(file[n]), p) /\ IsAt(n, p)

\* upload has not been started.
Idle ==
  /\ boot.at \in {"greet", "wait"} /\ Taken /\ answers = 0 /\ Stored(0)
  /\ boot.at = "greet" => out # <<>>
  /\ boot.at = "wait" => out \in {<<>>, <<Text>>}

\* It has written '!'.  In the monitor of the board that is a character like any
\* other.
Contacting ==
  /\ up.line = 0
  /\ \/ /\ boot.at = "wait" /\ answers = 0 /\ Unread(rx, wire, <<Bang>>, 1) /\ Stored(0)
        /\ out \in {<<>>, <<Text>>}
     \/ Answering /\ Stored(0)
     \/ /\ boot.at = "monitor" /\ answers = 0
        /\ \/ out = <<>> /\ Unread(rx, wire, <<Bang>>, 1)
           \/ out \in {<<>>, <<Bang>>} /\ Taken

Transferring ==
  /\ up.line \in 1 .. Len(file)
  /\ Parsing(up.line) \/ (Answering /\ Stored(up.line))

Ended == boot.at = "monitor" /\ Taken

Finishing ==
  /\ Stored(Len(file))
  /\ \/ /\ boot.at = "command" /\ out = <<>> /\ answers = 0
        /\ Unread(rx, wire, <<IF up.jump THEN LetterJ ELSE Hash>>, 1)
     \/ Ended

\* What upload and the bootloader know of each other.
Serving ==
  /\ up.at = "idle" => Idle
  /\ up.at = "contact" => Contacting
  /\ up.at = "answer" => Transferring
  /\ up.at = "final" => Finishing
  /\ up.at = "done" => Ended /\ Stored(Len(file))
  /\ up.at = "failed" => Ended

\* What the application was started with.  It and upload know nothing of each other.
Departed == Stored(IF boot.at = "jumped" THEN Len(file) ELSE 0)

InStep ==
  lost = 0 =>
    /\ ~overrun
    /\ IF Running THEN Departed ELSE Serving
-----------------------------------------------------------------------------
(* Numbers are read digit by digit *)

\* Dividing twice by sixteen.
LEMMA Nested ==
  ASSUME NEW v \in Nat
  PROVE  /\ (v \div 16) \div 16 = v \div 256
         /\ (v \div 256) \div 16 = v \div 4096
         /\ v \div 1 = v
  BY SMT

\* The upper digits and the last digit make the number.
LEMMA LastDigit ==
  ASSUME NEW v \in Nat, v < 65536
  PROVE  v % 16 \in 0 .. 15 /\ (16 * (v \div 16) + (v % 16)) % 65536 = v
  BY SMT

\* gethex: with one more digit the value read has one more digit of the number.
LEMMA DigitRead ==
  ASSUME NEW v \in Nat, v < 65536, NEW left \in 1 .. 8
  PROVE  /\ (v \div Weight[left]) % 16 \in 0 .. 15
         /\ (16 * Upper(v, left) + ((v \div Weight[left]) % 16)) % 65536 = Upper(v, left - 1)
  <1>1. CASE left = 1
    <2>1. Upper(v, left) = v \div 16 /\ Upper(v, left - 1) = v /\ v \div Weight[left] = v
      BY SMT, <1>1, Nested DEF Upper, Weight
    <2> QED  BY SMT, <2>1, LastDigit
  <1>2. CASE left = 2
    <2>1. /\ Upper(v, left) = v \div 256 /\ Upper(v, left - 1) = v \div 16
          /\ v \div Weight[left] = v \div 16
      BY SMT, <1>2 DEF Upper, Weight
    <2>2. v \div 256 = (v \div 16) \div 16
      BY SMT, Nested
    <2>3. v \div 16 \in Nat /\ v \div 16 < 65536
      BY SMT
    <2> QED  BY SMT, <2>1, <2>2, <2>3, LastDigit
  <1>3. CASE left = 3
    <2>1. /\ Upper(v, left) = v \div 4096 /\ Upper(v, left - 1) = v \div 256
          /\ v \div Weight[left] = v \div 256
      BY SMT, <1>3 DEF Upper, Weight
    <2>2. v \div 4096 = (v \div 256) \div 16
      BY SMT, Nested
    <2>3. v \div 256 \in Nat /\ v \div 256 < 65536
      BY SMT
    <2> QED  BY SMT, <2>1, <2>2, <2>3, LastDigit
  <1>4. CASE left = 4
    <2>1. /\ Upper(v, left) = 0 /\ Upper(v, left - 1) = v \div 4096
          /\ v \div Weight[left] = v \div 4096
      BY SMT, <1>4 DEF Upper, Weight
    <2>2. v \div 4096 \in 0 .. 15
      BY SMT
    <2> QED  BY SMT, <2>1, <2>2
  <1>5. CASE left \in 5 .. 8
    <2>1. Upper(v, left) = 0 /\ Upper(v, left - 1) = 0
      BY SMT, <1>5 DEF Upper
    <2>2. v \div Weight[left] = 0
      BY SMT, <1>5 DEF Weight
    <2> QED  BY SMT, <2>1, <2>2
  <1> QED  BY SMT, <1>1, <1>2, <1>3, <1>4, <1>5

-----------------------------------------------------------------------------
(* What a line looks like *)

\* u is s followed by t.
Join(u, s, t) ==
  /\ u \in Seq(Nat) /\ Len(u) = Len(s) + Len(t)
  /\ \A i \in 1 .. Len(s) : u[i] = s[i]
  /\ \A i \in 1 .. Len(t) : u[Len(s) + i] = t[i]

\* What \o does.
LEMMA Joined ==
  ASSUME NEW s \in Seq(Nat), NEW t \in Seq(Nat)
  PROVE  Join(s \o t, s, t)
  BY DEF Join

\* A field has its digits, the highest first.
LEMMA HexShape ==
  ASSUME NEW v \in Nat, NEW n \in 0 .. 8
  PROVE  /\ Hex(v, n) \in Seq(Nat) /\ Len(Hex(v, n)) = n
         /\ \A i \in 1 .. n : /\ Hex(v, n)[i] = (v \div Weight[n - i + 1]) % 16
                              /\ Hex(v, n)[i] \in 0 .. 15
  <1>1. \A k \in 1 .. 8 : Weight[k] \in Nat \ {0}
    BY SMT DEF Weight
  <1>2. \A k \in 1 .. 8 : v \div Weight[k] \in Nat
    BY SMT, <1>1
  <1>3. \A k \in 1 .. 8 : (v \div Weight[k]) % 16 \in 0 .. 15
    BY SMT, <1>2
  <1>4. \A i \in 1 .. n : n - i + 1 \in 1 .. 8
    BY SMT
  <1>5. \A i \in 1 .. n : (v \div Weight[n - i + 1]) % 16 \in 0 .. 15
    BY <1>3, <1>4
  <1>6. \A i \in 1 .. n : Hex(v, n)[i] = (v \div Weight[n - i + 1]) % 16
    BY DEF Hex
  <1>7. Hex(v, n) \in [1 .. n -> Nat]
    BY <1>5, SMT DEF Hex
  <1>8. Hex(v, n) \in Seq(Nat) /\ Len(Hex(v, n)) = n
    BY <1>7, SMT
  <1> QED  BY <1>5, <1>6, <1>8

\* Two digits for a byte.
LEMMA HexBytesShape ==
  ASSUME NEW bytes \in Seq(Nat), \A j \in 1 .. Len(bytes) : bytes[j] < 256
  PROVE  /\ HexBytes(bytes) \in Seq(Nat) /\ Len(HexBytes(bytes)) = 2 * Len(bytes)
         /\ \A i \in 1 .. 2 * Len(bytes) : HexBytes(bytes)[i] \in 0 .. 15
         /\ \A j \in 1 .. Len(bytes) :
              /\ HexBytes(bytes)[2 * j - 1] = bytes[j] \div 16
              /\ HexBytes(bytes)[2 * j] = bytes[j] % 16
  <1>1. \A j \in 1 .. Len(bytes) : bytes[j] \in Nat
    BY ElementOfSeq
  <1>2. \A b \in Nat : b < 256 => b \div 16 \in 0 .. 15 /\ b % 16 \in 0 .. 15
    BY SMT
  <1>3. ASSUME NEW i \in 1 .. 2 * Len(bytes)
        PROVE  /\ i % 2 = 1 => (i + 1) \div 2 \in 1 .. Len(bytes)
               /\ i % 2 # 1 => i \div 2 \in 1 .. Len(bytes)
    BY SMT, Len(bytes) \in Nat
  <1>4. \A i \in 1 .. 2 * Len(bytes) :
          /\ HexBytes(bytes)[i] = IF i % 2 = 1 THEN bytes[(i + 1) \div 2] \div 16
                                               ELSE bytes[i \div 2] % 16
    BY DEF HexBytes
  <1>5. \A i \in 1 .. 2 * Len(bytes) : HexBytes(bytes)[i] \in 0 .. 15
    BY <1>1, <1>2, <1>3, <1>4
  <1>6. HexBytes(bytes) \in [1 .. 2 * Len(bytes) -> 0 .. 15]
    BY <1>5, Zenon DEF HexBytes
  <1>7. HexBytes(bytes) \in Seq(Nat) /\ Len(HexBytes(bytes)) = 2 * Len(bytes)
    <2> DEFINE k == 2 * Len(bytes)
    <2>1. k \in Nat
      BY SMT, Len(bytes) \in Nat
    <2>2. HexBytes(bytes) \in [1 .. k -> 0 .. 15]
      BY <1>6
    <2> HIDE DEF k
    <2>3. ASSUME NEW f \in [1 .. k -> Nat]
          PROVE  f \in Seq(Nat) /\ Len(f) = k
      BY SMT, <2>1
    <2>4. HexBytes(bytes) \in [1 .. k -> Nat]
      <3>1. 0 .. 15 \subseteq Nat
        BY SMT
      <3> QED  BY <2>2, <3>1, Zenon
    <2> QED  BY <2>3, <2>4, Zenon DEF k
  <1>8. ASSUME NEW j \in 1 .. Len(bytes)
        PROVE  /\ HexBytes(bytes)[2 * j - 1] = bytes[j] \div 16
               /\ HexBytes(bytes)[2 * j] = bytes[j] % 16
    <2>1. /\ 2 * j - 1 \in 1 .. 2 * Len(bytes) /\ (2 * j - 1) % 2 = 1 /\ (2 * j - 1 + 1) \div 2 = j
          /\ 2 * j \in 1 .. 2 * Len(bytes) /\ (2 * j) % 2 = 0 /\ (2 * j) \div 2 = j
      BY SMT, Len(bytes) \in Nat
    <2> QED  BY <2>1, <1>4
  <1> QED  BY <1>5, <1>7, <1>8

\* The fields of a line, at the places where the bootloader looks for them; only
\* the last character is a newline.
LEMMA LineShape ==
  ASSUME NEW r \in Record, Fits(r)
  PROVE  LET L == Line(r)
             w == AddrDigits(r.type)
         IN /\ L \in Seq(Nat) /\ Len(L) = 7 + w + 2 * Len(r.data)
            /\ L[1] = LetterS /\ L[2] = r.type
            /\ \A k \in 1 .. 2 : L[5 - k] = (Count(r) \div Weight[k]) % 16
            /\ \A k \in 1 .. w : L[5 + w - k] = (r.addr \div Weight[k]) % 16
            /\ \A j \in 1 .. Len(r.data) : /\ L[3 + w + 2 * j] = r.data[j] \div 16
                                           /\ L[4 + w + 2 * j] = r.data[j] % 16
            /\ \A i \in 1 .. Len(L) - 1 : L[i] # Nl
            /\ L[Len(L)] = Nl
  <1> DEFINE w    == AddrDigits(r.type)
             size == Len(r.data)
             head == <<LetterS, r.type>>
             cnt  == Hex(Count(r), 2)
             adr  == Hex(r.addr, w)
             dat  == HexBytes(r.data)
             end  == <<15, 10, Nl>>
             L2   == head \o cnt
             L3   == L2 \o adr
             L4   == L3 \o dat
             L    == Line(r)
  <1>1. /\ r.type \in 0 .. 9 /\ r.addr \in Nat /\ r.data \in Seq(Nat) /\ size \in Nat
        /\ w \in {4, 6, 8} /\ \A j \in 1 .. size : r.data[j] < 256
    <2>1. r.type \in 0 .. 9 /\ r.addr \in Nat /\ r.data \in Seq(Nat)
      BY SMT DEF Record
    <2>2. \A j \in 1 .. size : r.data[j] < 256
      BY DEF Fits
    <2>3. size \in Nat
      BY SMT, <2>1
    <2>4. w \in {4, 6, 8}
      BY SMT DEF AddrDigits
    <2> QED  BY <2>1, <2>2, <2>3, <2>4
  <1>2. Count(r) \in Nat
    <2>1. w \div 2 \in Nat
      BY SMT, <1>1
    <2> QED  BY SMT, <2>1, <1>1 DEF Count
  <1>3. L = L4 \o end
    BY DEF Line, Count
  <1>4. head \in Seq(Nat) /\ Len(head) = 2 /\ head[1] = LetterS /\ head[2] = r.type
    BY <1>1 DEF LetterS
  <1>5. /\ cnt \in Seq(Nat) /\ Len(cnt) = 2
        /\ \A i \in 1 .. 2 : /\ cnt[i] = (Count(r) \div Weight[2 - i + 1]) % 16
                             /\ cnt[i] \in 0 .. 15
    <2>1. 2 \in 0 .. 8
      OBVIOUS
    <2> QED  BY Zenon, <2>1, <1>2, HexShape
  <1>6. /\ adr \in Seq(Nat) /\ Len(adr) = w
        /\ \A i \in 1 .. w : /\ adr[i] = (r.addr \div Weight[w - i + 1]) % 16
                             /\ adr[i] \in 0 .. 15
    <2>1. w \in 0 .. 8
      BY <1>1
    <2> QED  BY Zenon, <2>1, <1>1, HexShape
  <1>7. /\ dat \in Seq(Nat) /\ Len(dat) = 2 * size
        /\ \A i \in 1 .. 2 * size : dat[i] \in 0 .. 15
        /\ \A j \in 1 .. size : /\ dat[2 * j - 1] = r.data[j] \div 16
                                /\ dat[2 * j] = r.data[j] % 16
    BY <1>1, HexBytesShape
  <1>8. end \in Seq(Nat) /\ Len(end) = 3 /\ end[1] = 15 /\ end[2] = 10 /\ end[3] = Nl
    BY DEF Nl
  <1> HIDE DEF w, size, head, cnt, adr, dat, end, L2, L3, L4, L
  <1>9. /\ L2 \in Seq(Nat) /\ Len(L2) = 4
        /\ \A i \in 1 .. 2 : L2[i] = head[i]
        /\ \A i \in 1 .. 2 : L2[2 + i] = cnt[i]
    <2>1. head \in Seq(Nat) /\ cnt \in Seq(Nat)
      BY <1>4, <1>5
    <2>2. Join(head \o cnt, head, cnt)
      BY <2>1, Joined
    <2>3. Len(head) = 2 /\ Len(cnt) = 2
      BY <1>4, <1>5
    <2> QED  BY SMT, <2>2, <2>3 DEF L2, Join
  <1>10. /\ L3 \in Seq(Nat) /\ Len(L3) = 4 + w
         /\ \A i \in 1 .. 4 : L3[i] = L2[i]
         /\ \A i \in 1 .. w : L3[4 + i] = adr[i]
    <2>1. L2 \in Seq(Nat) /\ adr \in Seq(Nat)
      BY <1>9, <1>6
    <2>2. Join(L2 \o adr, L2, adr)
      BY <2>1, Joined
    <2>3. Len(L2) = 4 /\ Len(adr) = w
      BY <1>9, <1>6
    <2> QED  BY <2>2, <2>3, Zenon DEF L3, Join
  <1>11. /\ L4 \in Seq(Nat) /\ Len(L4) = 4 + w + 2 * size
         /\ \A i \in 1 .. 4 + w : L4[i] = L3[i]
         /\ \A i \in 1 .. 2 * size : L4[4 + w + i] = dat[i]
    <2>1. L3 \in Seq(Nat) /\ dat \in Seq(Nat)
      BY <1>10, <1>7
    <2>2. Join(L3 \o dat, L3, dat)
      BY <2>1, Joined
    <2>3. Len(L3) = 4 + w /\ Len(dat) = 2 * size
      BY <1>10, <1>7
    <2> QED  BY <2>2, <2>3, Zenon DEF L4, Join
  <1>12. /\ L \in Seq(Nat) /\ Len(L) = 4 + w + 2 * size + 3
         /\ \A i \in 1 .. 4 + w + 2 * size : L[i] = L4[i]
         /\ \A i \in 1 .. 3 : L[4 + w + 2 * size + i] = end[i]
    <2>1. L4 \in Seq(Nat) /\ end \in Seq(Nat)
      BY <1>11, <1>8
    <2>2. Join(L4 \o end, L4, end)
      BY <2>1, Joined
    <2>3. Len(L4) = 4 + w + 2 * size /\ Len(end) = 3
      BY <1>11, <1>8
    <2> QED  BY <2>2, <2>3, <1>3, Zenon DEF Join
  <1>13. /\ \A i \in 1 .. 2 : L[i] = head[i]
         /\ \A i \in 1 .. 2 : L[2 + i] = cnt[i]
         /\ \A i \in 1 .. w : L[4 + i] = adr[i]
         /\ \A i \in 1 .. 2 * size : L[4 + w + i] = dat[i]
    <2>1. ASSUME NEW i \in 1 .. 4
          PROVE  L[i] = L2[i]
      <3>1. i \in 1 .. 4 + w /\ i \in 1 .. 4 + w + 2 * size
        BY SMT, <1>1
      <3> QED  BY <3>1, <1>10, <1>11, <1>12
    <2>2. ASSUME NEW i \in 1 .. 2
          PROVE  L[i] = head[i] /\ L[2 + i] = cnt[i]
      <3>1. i \in 1 .. 4 /\ 2 + i \in 1 .. 4
        BY SMT
      <3> QED  BY <3>1, <2>1, <1>9
    <2>3. ASSUME NEW i \in 1 .. w
          PROVE  L[4 + i] = adr[i]
      <3>1. 4 + i \in 1 .. 4 + w /\ 4 + i \in 1 .. 4 + w + 2 * size
        BY SMT, <1>1
      <3> QED  BY <3>1, <1>10, <1>11, <1>12
    <2>4. ASSUME NEW i \in 1 .. 2 * size
          PROVE  L[4 + w + i] = dat[i]
      <3>1. 4 + w + i \in 1 .. 4 + w + 2 * size
        BY SMT, <1>1
      <3> QED  BY <3>1, <1>11, <1>12
    <2> QED  BY <2>2, <2>3, <2>4
  <1>14. L[1] = LetterS /\ L[2] = r.type
    BY <1>13, <1>4
  <1>15. \A k \in 1 .. 2 : L[5 - k] = (Count(r) \div Weight[k]) % 16
    <2> TAKE k \in 1 .. 2
    <2>1. 3 - k \in 1 .. 2 /\ 2 + (3 - k) = 5 - k /\ 2 - (3 - k) + 1 = k
      OBVIOUS
    <2> QED  BY <2>1, <1>13, <1>5
  <1>16. \A k \in 1 .. w : L[5 + w - k] = (r.addr \div Weight[k]) % 16
    <2> TAKE k \in 1 .. w
    <2> DEFINE i == w - k + 1
    <2>1. i \in 1 .. w /\ 4 + i = 5 + w - k /\ w - i + 1 = k
      BY SMT, <1>1
    <2> HIDE DEF i
    <2>2. L[4 + i] = (r.addr \div Weight[w - i + 1]) % 16
      BY <2>1, <1>13, <1>6, Zenon
    <2> QED  BY <2>1, <2>2, Zenon
  <1>17. \A j \in 1 .. size : /\ L[3 + w + 2 * j] = r.data[j] \div 16
                              /\ L[4 + w + 2 * j] = r.data[j] % 16
    <2> TAKE j \in 1 .. size
    <2>1. /\ 2 * j - 1 \in 1 .. 2 * size /\ 4 + w + (2 * j - 1) = 3 + w + 2 * j
          /\ 2 * j \in 1 .. 2 * size
      BY SMT, <1>1
    <2> QED  BY <2>1, <1>13, <1>7
  <1>18. L[Len(L)] = Nl
    BY <1>12, <1>8, <1>1
  <1>19. \A i \in 1 .. Len(L) - 1 : L[i] # Nl
    <2> TAKE i \in 1 .. Len(L) - 1
    <2>0. \A x \in 0 .. 15 : x # Nl
      BY SMT DEF Nl
    <2>1. CASE i \in 1 .. 2
      BY <2>1, <1>1, <1>14 DEF LetterS, Nl
    <2>2. CASE i \in 3 .. 4
      <3>1. i - 2 \in 1 .. 2 /\ 2 + (i - 2) = i
        BY <2>2
      <3>2. L[2 + (i - 2)] = cnt[i - 2]
        BY <3>1, <1>13, Zenon
      <3>3. cnt[i - 2] \in 0 .. 15
        BY <3>1, <1>5, Zenon
      <3>4. L[i] \in 0 .. 15
        BY <3>1, <3>2, <3>3, Zenon
      <3> QED  BY <2>0, <3>4, Zenon
    <2>3. CASE i \in 5 .. 4 + w
      <3>1. i - 4 \in 1 .. w /\ 4 + (i - 4) = i
        BY SMT, <2>3, <1>1
      <3>2. L[4 + (i - 4)] = adr[i - 4]
        BY <3>1, <1>13, Zenon
      <3>3. adr[i - 4] \in 0 .. 15
        BY <3>1, <1>6, Zenon
      <3>4. L[i] \in 0 .. 15
        BY <3>1, <3>2, <3>3, Zenon
      <3> QED  BY <2>0, <3>4, Zenon
    <2>4. CASE i \in 5 + w .. 4 + w + 2 * size
      <3>1. i - (4 + w) \in 1 .. 2 * size /\ 4 + w + (i - (4 + w)) = i
        BY SMT, <2>4, <1>1
      <3>2. L[4 + w + (i - (4 + w))] = dat[i - (4 + w)]
        BY <3>1, <1>13, Zenon
      <3>3. dat[i - (4 + w)] \in 0 .. 15
        BY <3>1, <1>7, Zenon
      <3>4. L[i] \in 0 .. 15
        BY <3>1, <3>2, <3>3, Zenon
      <3> QED  BY <2>0, <3>4, Zenon
    <2>5. CASE i \in 5 + w + 2 * size .. 6 + w + 2 * size
      <3>1. i - (4 + w + 2 * size) \in 1 .. 2 /\ 4 + w + 2 * size + (i - (4 + w + 2 * size)) = i
        BY SMT, <2>5, <1>1
      <3> DEFINE j == i - (4 + w + 2 * size)
      <3>2. L[i] = end[j]
        <4>1. \A x \in 1 .. 2 : x \in 1 .. 3
          BY SMT
        <4>2. \A x \in 1 .. 3 : L[4 + w + 2 * size + x] = end[x]
          BY <1>12, Zenon
        <4>3. j \in 1 .. 2 /\ 4 + w + 2 * size + j = i
          BY <3>1, Zenon
        <4> HIDE DEF j
        <4>4. L[4 + w + 2 * size + j] = end[j]
          BY <4>1, <4>2, <4>3, Zenon
        <4> QED  BY <4>3, <4>4, Zenon
      <3>3. j = 1 \/ j = 2
        <4>1. \A x \in 1 .. 2 : x = 1 \/ x = 2
          BY SMT
        <4> QED  BY <3>1, <4>1, Zenon
      <3> HIDE DEF j
      <3>4. end[j] = 15 \/ end[j] = 10
        BY <3>3, <1>8, Zenon
      <3>5. L[i] \in 0 .. 15
        BY <3>2, <3>4
      <3> QED  BY <2>0, <3>5, Zenon
    <2> QED  BY SMT, <1>1, <1>12, <2>1, <2>2, <2>3, <2>4, <2>5
  <1>20. Len(L) = 7 + w + 2 * size
    BY SMT, <1>12, <1>1
  <1> QED  BY <1>12, <1>14, <1>15, <1>16, <1>17, <1>18, <1>19, <1>20 DEF L, w, size

-----------------------------------------------------------------------------
(* Characters arrive and are taken *)

\* Arrive: the next character is in the register.
LEMMA UnreadArrives ==
  ASSUME NEW reg \in Register, NEW way \in Seq(Nat), NEW line \in Seq(Nat), NEW p \in Nat,
         Unread(reg, way, line, p), way # <<>>, ~reg.full
  PROVE  Unread([full |-> TRUE, char |-> Head(way)], Tail(way), line, p)
  <1> DEFINE next == [full |-> TRUE, char |-> Head(way)]
  <1>1. /\ p \in 1 .. Len(line) /\ Len(way) = Len(line) - (p - 1)
        /\ \A i \in 1 .. Len(way) : way[i] = line[p - 1 + i]
    BY DEF Unread
  <1>2. Head(way) = way[1] /\ 1 \in 1 .. Len(way) /\ Len(Tail(way)) = Len(way) - 1
        /\ \A i \in 1 .. Len(way) - 1 : Tail(way)[i] = way[i + 1]
    OBVIOUS
  <1>3. Head(way) = line[p]
    <2>1. p - 1 + 1 = p
      OBVIOUS
    <2> QED  BY <1>1, <1>2, <2>1
  <1>4. \A i \in 1 .. Len(way) - 1 : Tail(way)[i] = line[p + i]
    <2> TAKE i \in 1 .. Len(way) - 1
    <2>1. i + 1 \in 1 .. Len(way) /\ p - 1 + (i + 1) = p + i
      BY SMT
    <2> QED  BY <1>1, <1>2, <2>1
  <1>5. Len(Tail(way)) = Len(line) - p
    BY <1>1, <1>2
  <1>6. next.full /\ next.char = Head(way)
    OBVIOUS
  <1> HIDE DEF next
  <1>7. Unread(next, Tail(way), line, p)
    BY <1>1, <1>2, <1>3, <1>4, <1>5, <1>6 DEF Unread
  <1> QED  BY <1>7 DEF next

\* usart_getc: the register has the next character; after it, the one behind it
\* is next.
LEMMA UnreadTaken ==
  ASSUME NEW reg \in Register, NEW way \in Seq(Nat), NEW line \in Seq(Nat), NEW p \in Nat,
         Unread(reg, way, line, p), reg.full, NEW next, next = [reg EXCEPT !.full = FALSE]
  PROVE  /\ reg.char = line[p]
         /\ p < Len(line) => Unread(next, way, line, p + 1)
         /\ p = Len(line) => way = <<>>
  <1>1. /\ p \in 1 .. Len(line) /\ Len(way) = Len(line) - p
        /\ \A i \in 1 .. Len(way) : way[i] = line[p + i]
        /\ reg.char = line[p]
    BY DEF Unread
  <1>2. ~next.full
    BY DEF Register
  <1>3. (p + 1) - 1 = p
    OBVIOUS
  <1>4. ASSUME p < Len(line)
        PROVE  Unread(next, way, line, p + 1)
    <2>1. p + 1 \in 1 .. Len(line)
      <3> DEFINE k == Len(line)
      <3>1. k \in Nat /\ p < k
        BY <1>4
      <3> HIDE DEF k
      <3>2. p + 1 \in 1 .. k
        BY SMT, <3>1
      <3> QED  BY <3>2 DEF k
    <2>2. Len(way) = Len(line) - ((p + 1) - 1) /\ \A i \in 1 .. Len(way) : way[i] = line[(p + 1) - 1 + i]
      BY <1>1, <1>3
    <2>3. \A x : ~x.full => Unread(x, way, line, p + 1)
      BY <2>1, <2>2, Zenon DEF Unread
    <2> QED  BY <2>3, <1>2, Zenon
  <1>5. ASSUME p = Len(line)
        PROVE  way = <<>>
    <2>1. Len(way) = 0
      BY <1>5, <1>1
    <2> QED  BY <2>1
  <1> QED  BY <1>1, <1>4, <1>5

\* What has just been written is unread.
LEMMA UnreadWritten ==
  ASSUME NEW reg, ~reg.full, NEW line \in Seq(Nat), line # <<>>
  PROVE  Unread(reg, line, line, 1)
  <1>1. 1 \in 1 .. Len(line) /\ Len(line) = Len(line) - (1 - 1)
    OBVIOUS
  <1>2. \A i \in 1 .. Len(line) : line[i] = line[1 - 1 + i]
    OBVIOUS
  <1> QED  BY <1>1, <1>2 DEF Unread

\* What is unread is on the wire or in the register.
LEMMA UnreadIsThere ==
  ASSUME NEW reg, NEW way \in Seq(Nat), NEW line \in Seq(Nat), NEW p \in Nat,
         Unread(reg, way, line, p)
  PROVE  reg.full \/ way # <<>>
  BY DEF Unread

-----------------------------------------------------------------------------
(* The memory and the start address grow with the lines *)

\* In the beginning nothing is stored.
LEMMA NothingStored == Contents(Places(0, 0)) = <<>> /\ Entry(0) = 0
  <1>1. Places(0, 0) = {}
    BY DEF Places
  <1>2. {AddrOf(p) : p \in {}} = {}
    OBVIOUS
  <1>3. Contents({}) = <<>>
    BY <1>2 DEF Contents
  <1>4. Entry(0) = 0
    BY DEF Entry
  <1> QED  BY <1>1, <1>3, <1>4

\* When all bytes of a data line are stored the line is; another line has none.
LEMMA LineStored ==
  ASSUME NEW n \in 1 .. Len(file), file \in Seq(Record), Fits(file[n])
  PROVE  /\ IsData(file[n]) => Places(n - 1, Len(file[n].data)) = Places(n, 0)
         /\ ~IsData(file[n]) => \A m \in Nat : Places(n - 1, m) = Places(n, 0)
  <1>1. ASSUME NEW m \in Nat, IsData(file[n]) => m = Len(file[n].data),
               NEW p \in (1 .. Len(file)) \X (1 .. 16), IsData(file[p[1]]),
               p[2] <= Len(file[p[1]].data)
        PROVE  (p[1] <= n - 1 \/ (p[1] = n - 1 + 1 /\ p[2] <= m))
                 <=> (p[1] <= n \/ (p[1] = n + 1 /\ p[2] <= 0))
    <2>1. p[1] \in 1 .. Len(file) /\ p[2] \in 1 .. 16
      OBVIOUS
    <2>2. CASE p[1] = n
      BY <1>1, <2>1, <2>2
    <2>3. CASE p[1] # n
      <3>1. \A x \in Nat : \A y \in 1 .. 16 : x # n =>
              ((x <= n - 1 \/ (x = n - 1 + 1 /\ y <= m)) <=> (x <= n \/ (x = n + 1 /\ y <= 0)))
        BY SMT
      <3>2. p[1] \in Nat
        BY <2>1
      <3> QED  BY <2>1, <2>3, <3>1, <3>2, Zenon
    <2> QED  BY <2>2, <2>3
  <1>2. ASSUME NEW m \in Nat, IsData(file[n]) => m = Len(file[n].data)
        PROVE  Places(n - 1, m) = Places(n, 0)
    BY Zenon, <1>1, <1>2 DEF Places
  <1>3. Len(file[n].data) \in Nat
    BY DEF Record
  <1> QED  BY <1>2, <1>3

\* EndByte: the next byte of a line replaces what was stored at its address.
LEMMA ByteStored ==
  ASSUME NEW n \in 1 .. Len(file), file \in Seq(Record), Fits(file[n]), IsData(file[n]),
         NEW m \in Nat, m < Len(file[n].data)
  PROVE  LET old == Contents(Places(n - 1, m))
             new == file[n].addr + m
         IN Contents(Places(n - 1, m + 1)) =
              [a \in DOMAIN old \cup {new} |->
                 IF a = new THEN file[n].data[m + 1] ELSE old[a]]
  <1> DEFINE U    == Places(n - 1, m)
             V    == Places(n - 1, m + 1)
             b    == <<n, m + 1>>
             new  == file[n].addr + m
             old  == Contents(U)
             Last(S, a, p) == AddrOf(p) = a /\ \A q \in S : AddrOf(q) = a => ~Later(q, p)
  <1>1. m + 1 \in 1 .. 16 /\ m + 1 <= Len(file[n].data)
    <2>0. file[n] \in Record
      BY ElementOfSeq
    <2> DEFINE r == file[n]
    <2>1. Len(file[n].data) <= 16 /\ file[n].data \in Seq(Nat)
      <3>1. r \in Record /\ Fits(r)
        BY <2>0
      <3> HIDE DEF r
      <3>2. Len(r.data) <= 16
        BY SMT, <3>1 DEF Fits
      <3>3. r.data \in Seq(Nat)
        BY <3>1 DEF Record
      <3> QED  BY <3>2, <3>3 DEF r
    <2> DEFINE k == Len(file[n].data)
    <2>2. k \in Nat /\ k <= 16 /\ m < k
      BY <2>1
    <2> HIDE DEF k
    <2>3. m + 1 \in 1 .. 16 /\ m + 1 <= k
      BY SMT, <2>2
    <2> QED  BY <2>3 DEF k
  <1>2. b[1] = n /\ b[2] = m + 1 /\ b \in (1 .. Len(file)) \X (1 .. 16)
    BY <1>1
  <1>3. \A p : p \in V <=> p \in U \/ p = b
    <2>1. ASSUME NEW p \in (1 .. Len(file)) \X (1 .. 16)
          PROVE  (p[1] <= n - 1 \/ (p[1] = n - 1 + 1 /\ p[2] <= m + 1))
                   <=> (p[1] <= n - 1 \/ (p[1] = n - 1 + 1 /\ p[2] <= m)) \/ p = b
      <3>1. p[1] \in 1 .. Len(file) /\ p[2] \in 1 .. 16 /\ p = <<p[1], p[2]>>
        OBVIOUS
      <3>2. p = b <=> p[1] = n /\ p[2] = m + 1
        BY <3>1
      <3>3. ASSUME NEW x \in Int, NEW y \in Int
            PROVE  (x <= n - 1 \/ (x = n - 1 + 1 /\ y <= m + 1))
                     <=> (x <= n - 1 \/ (x = n - 1 + 1 /\ y <= m)) \/ (x = n /\ y = m + 1)
        BY SMT
      <3>4. p[1] \in Int /\ p[2] \in Int
        BY <3>1
      <3> HIDE DEF b
      <3> QED  BY <3>2, <3>3, <3>4, Zenon
    <2>2. IsData(file[b[1]]) /\ b[2] <= Len(file[b[1]].data)
      BY <1>1, <1>2
    <2> HIDE DEF b
    <2> QED  BY <1>2, <2>1, <2>2, Zenon DEF Places
  <1>4. ~Later(b, b)
    <2>1. ~(n > n) /\ ~(m + 1 > m + 1)
      BY SMT
    <2> HIDE DEF b
    <2> QED  BY <2>1, <1>2, Zenon DEF Later
  <1>5. b \notin U /\ \A q \in U : Later(b, q) /\ ~Later(q, b)
    <2>1. ASSUME NEW q \in U
          PROVE  /\ q[1] \in 1 .. Len(file) /\ q[2] \in 1 .. 16
                 /\ q[1] <= n - 1 \/ (q[1] = n - 1 + 1 /\ q[2] <= m)
      BY DEF Places
    <2> HIDE DEF b, U
    <2>2. ASSUME NEW q \in U
          PROVE  Later(b, q) /\ ~Later(q, b)
      <3>1. ASSUME NEW x \in Int, NEW y \in Int, x <= n - 1 \/ (x = n - 1 + 1 /\ y <= m)
            PROVE  /\ n > x \/ (n = x /\ m + 1 > y)
                   /\ ~(x > n \/ (x = n /\ y > m + 1))
        BY SMT, <3>1
      <3>2. q[1] \in Int /\ q[2] \in Int
        <4>1. \A i \in 1 .. Len(file) : i \in Int
          BY SMT
        <4>2. \A j \in 1 .. 16 : j \in Int
          BY SMT
        <4> QED  BY <2>1, <4>1, <4>2, Zenon
      <3> QED  BY <3>1, <3>2, <2>1, <1>2, Zenon DEF Later
    <2> QED  BY <1>4, <2>2
  <1>6. AddrOf(b) = new /\ ByteOf(b) = file[n].data[m + 1]
    <2>1. file[n].addr \in Nat
      <3>1. file[n] \in Record
        OBVIOUS
      <3> QED  BY <3>1 DEF Record
    <2> QED  BY SMT, <2>1 DEF AddrOf, ByteOf
  <1>7. old = [a \in {AddrOf(p) : p \in U} |-> ByteOf(CHOOSE p \in U : Last(U, a, p))]
    BY DEF Contents
  <1>8. Contents(V) = [a \in {AddrOf(p) : p \in V} |-> ByteOf(CHOOSE p \in V : Last(V, a, p))]
    BY DEF Contents
  <1> HIDE DEF U, V, b, new, old
  <1>9. {AddrOf(p) : p \in V} = DOMAIN old \cup {new}
    BY <1>3, <1>6, <1>7
  <1>10. (CHOOSE p \in V : Last(V, new, p)) = b
    <2>1. b \in V /\ Last(V, new, b)
      BY <1>3, <1>4, <1>5, <1>6, Zenon
    <2>2. \A p \in V : Last(V, new, p) => p = b
      BY <1>3, <1>5, <1>6, Zenon
    <2> HIDE DEF Last
    <2> QED  BY <2>1, <2>2
  <1>11. ASSUME NEW a \in DOMAIN old, a # new
         PROVE  (CHOOSE p \in V : Last(V, a, p)) = (CHOOSE p \in U : Last(U, a, p))
    <2>1. \A p : (p \in V /\ Last(V, a, p)) <=> (p \in U /\ Last(U, a, p))
      BY <1>3, <1>6, <1>11, Zenon
    <2> HIDE DEF Last
    <2> QED  BY <2>1, Zenon
  <1>12. ASSUME NEW a \in DOMAIN old \cup {new}
         PROVE  Contents(V)[a] = IF a = new THEN file[n].data[m + 1] ELSE old[a]
    <2>1. Contents(V)[a] = ByteOf(CHOOSE p \in V : Last(V, a, p))
      BY <1>8, <1>9, Zenon
    <2>2. CASE a = new
      BY <2>1, <2>2, <1>10, <1>6, Zenon
    <2>3. CASE a # new
      <3>1. a \in DOMAIN old
        BY <2>3
      <3>2. old[a] = ByteOf(CHOOSE p \in U : Last(U, a, p))
        BY <3>1, <1>7, Zenon
      <3> QED  BY <2>1, <2>3, <3>1, <3>2, <1>11, Zenon
    <2> QED  BY <2>2, <2>3
  <1>13. DOMAIN Contents(V) = DOMAIN old \cup {new}
    BY <1>8, <1>9, Zenon
  <1>14. Contents(V) = [a \in DOMAIN old \cup {new} |->
                          IF a = new THEN file[n].data[m + 1] ELSE old[a]]
    <2>1. Contents(V) = [a \in DOMAIN Contents(V) |-> Contents(V)[a]]
      BY <1>8, Zenon
    <2> QED  BY <2>1, <1>12, <1>13, Zenon
  <1> QED  BY <1>14 DEF U, V, new, old

\* app_start: the start address of the last end record.
LEMMA EntryStored ==
  ASSUME NEW n \in 1 .. Len(file), file \in Seq(Record)
  PROVE  Entry(n) = IF IsStart(file[n]) THEN file[n].addr ELSE Entry(n - 1)
  <1>1. CASE IsStart(file[n])
    <2> DEFINE Last(l) == IsStart(file[l]) /\ \A k \in l + 1 .. n : ~IsStart(file[k])
    <2>1. n \in 1 .. n /\ Last(n)
      BY <1>1
    <2>2. \A l \in 1 .. n : Last(l) => l = n
      <3> SUFFICES ASSUME NEW l \in 1 .. n, l # n
                   PROVE  ~Last(l)
        OBVIOUS
      <3>1. n \in l + 1 .. n
        OBVIOUS
      <3> QED  BY <3>1, <1>1
    <2> HIDE DEF Last
    <2>3. (CHOOSE l \in 1 .. n : Last(l)) = n
      BY <2>1, <2>2
    <2>4. Entry(n) = file[CHOOSE l \in 1 .. n : Last(l)].addr
      BY <1>1, <2>1, Zenon DEF Entry, Last
    <2> QED  BY <1>1, <2>3, <2>4
  <1>2. CASE ~IsStart(file[n])
    <2> DEFINE Last(k, l) == IsStart(file[l]) /\ \A j \in l + 1 .. k : ~IsStart(file[j])
    <2>1. \A l : l \in 1 .. n /\ IsStart(file[l]) <=> l \in 1 .. n - 1 /\ IsStart(file[l])
      <3>1. \A l : l \in 1 .. n <=> l \in 1 .. n - 1 \/ l = n
        OBVIOUS
      <3> QED  BY <3>1, <1>2, Zenon
    <2>2. ASSUME NEW l \in 1 .. n - 1
          PROVE  Last(n, l) <=> Last(n - 1, l)
      <3>1. \A j : j \in l + 1 .. n <=> j \in l + 1 .. n - 1 \/ j = n
        OBVIOUS
      <3> QED  BY <3>1, <1>2, Zenon
    <2>3. \A l : l \in 1 .. n /\ Last(n, l) <=> l \in 1 .. n - 1 /\ Last(n - 1, l)
      BY <2>1, <2>2, Zenon
    <2>4. (\E l \in 1 .. n : IsStart(file[l])) <=> \E l \in 1 .. n - 1 : IsStart(file[l])
      BY <2>1, Zenon
    <2>5. /\ Entry(n) = IF \E l \in 1 .. n : IsStart(file[l])
                          THEN file[CHOOSE l \in 1 .. n : Last(n, l)].addr ELSE 0
          /\ Entry(n - 1) = IF \E l \in 1 .. n - 1 : IsStart(file[l])
                              THEN file[CHOOSE l \in 1 .. n - 1 : Last(n - 1, l)].addr ELSE 0
      BY Zenon DEF Entry
    <2> HIDE DEF Last
    <2>6. (CHOOSE l \in 1 .. n : Last(n, l)) = (CHOOSE l \in 1 .. n - 1 : Last(n - 1, l))
      BY <2>3, Zenon
    <2> QED  BY <1>2, <2>4, <2>5, <2>6, Zenon
  <1> QED  BY <1>1, <1>2

-----------------------------------------------------------------------------
(* The bootloader's record *)

\* b is a record of the bootloader with these fields.
Has(b, at, width, left, val, addr, bytes) ==
  /\ b \in Boot /\ b.at = at /\ b.width = width /\ b.left = left /\ b.val = val
  /\ b.addr = addr /\ b.bytes = bytes

\* One field is changed.
LEMMA BootSet ==
  ASSUME NEW b \in Boot, NEW at \in Points, NEW n \in Nat
  PROVE  /\ [b EXCEPT !.at = at] \in Boot
         /\ [b EXCEPT !.left = n] \in Boot
         /\ [b EXCEPT !.val = n] \in Boot
         /\ [b EXCEPT !.width = n] \in Boot
         /\ [b EXCEPT !.addr = n] \in Boot
         /\ [b EXCEPT !.bytes = n] \in Boot
  BY SMT DEF Boot

\* Going on.
LEMMA BootGo ==
  ASSUME boot \in Boot, NEW at \in Points
  PROVE  Has(Go(at), at, boot.width, boot.left, boot.val, boot.addr, boot.bytes)
  <1>1. Go(at) \in Boot
    BY 0 \in Nat, BootSet, Zenon DEF Go
  <1>2. Go(at).at = at /\ Go(at).width = boot.width /\ Go(at).left = boot.left
          /\ Go(at).val = boot.val /\ Go(at).addr = boot.addr /\ Go(at).bytes = boot.bytes
    BY SMT DEF Boot, Go
  <1> QED  BY <1>1, <1>2 DEF Has

\* A digit is read.
LEMMA BootDigit ==
  ASSUME boot \in Boot, NEW n \in Nat, NEW v \in Nat
  PROVE  Has([boot EXCEPT !.left = n, !.val = v],
             boot.at, boot.width, n, v, boot.addr, boot.bytes)
  <1> DEFINE b == [boot EXCEPT !.left = n, !.val = v]
  <1>0. boot.at \in Points
    BY SMT DEF Boot
  <1>1. b \in Boot
    BY <1>0, BootSet, Zenon
  <1>2. /\ b.at = boot.at /\ b.width = boot.width /\ b.left = n /\ b.val = v
        /\ b.addr = boot.addr /\ b.bytes = boot.bytes
    BY SMT DEF Boot
  <1> QED  BY <1>1, <1>2 DEF Has

\* A field begins.
LEMMA BootField ==
  ASSUME boot \in Boot, NEW at \in Points, NEW n \in Nat
  PROVE  Has(Field(at, n), at, boot.width, n, 0, boot.addr, boot.bytes)
  <1>1. Field(at, n) \in Boot
    BY 0 \in Nat, BootSet, Zenon DEF Field
  <1>2. /\ Field(at, n).at = at /\ Field(at, n).width = boot.width /\ Field(at, n).left = n
        /\ Field(at, n).val = 0 /\ Field(at, n).addr = boot.addr
        /\ Field(at, n).bytes = boot.bytes
    BY SMT DEF Boot, Field
  <1> QED  BY <1>1, <1>2 DEF Has

\* A field begins, and what has been read is kept.
LEMMA BootFieldWith ==
  ASSUME boot \in Boot, NEW at \in Points, NEW n \in Nat, NEW v \in Nat, NEW w \in Nat
  PROVE  /\ Has([Field(at, n) EXCEPT !.width = v], at, v, n, 0, boot.addr, boot.bytes)
         /\ Has([Field(at, n) EXCEPT !.bytes = v], at, boot.width, n, 0, boot.addr, v)
         /\ Has([Field(at, n) EXCEPT !.addr = v], at, boot.width, n, 0, v, boot.bytes)
         /\ Has([Field(at, n) EXCEPT !.val = v], at, boot.width, n, v, boot.addr, boot.bytes)
         /\ Has([Field(at, n) EXCEPT !.addr = v, !.bytes = w], at, boot.width, n, 0, v, w)
  <1>1. Field(at, n) \in Boot
    BY BootField DEF Has
  <1>2. /\ [Field(at, n) EXCEPT !.width = v] \in Boot
        /\ [Field(at, n) EXCEPT !.bytes = v] \in Boot
        /\ [Field(at, n) EXCEPT !.addr = v] \in Boot
        /\ [Field(at, n) EXCEPT !.val = v] \in Boot
        /\ [Field(at, n) EXCEPT !.addr = v, !.bytes = w] \in Boot
    BY <1>1, BootSet, Zenon
  <1> DEFINE Is(b, width, val, addr, bytes) ==
               /\ b.at = at /\ b.width = width /\ b.left = n /\ b.val = val
               /\ b.addr = addr /\ b.bytes = bytes
  <1>3. /\ Is([Field(at, n) EXCEPT !.width = v], v, 0, boot.addr, boot.bytes)
        /\ Is([Field(at, n) EXCEPT !.bytes = v], boot.width, 0, boot.addr, v)
        /\ Is([Field(at, n) EXCEPT !.addr = v], boot.width, 0, v, boot.bytes)
        /\ Is([Field(at, n) EXCEPT !.val = v], boot.width, v, boot.addr, boot.bytes)
        /\ Is([Field(at, n) EXCEPT !.addr = v, !.bytes = w], boot.width, 0, v, w)
    BY SMT DEF Boot, Field
  <1> QED  BY <1>2, <1>3, Zenon DEF Has

\* Every name is one of the points.
LEMMA PointNames ==
  /\ "greet" \in Points /\ "wait" \in Points /\ "expired" \in Points /\ "monitor" \in Points
  /\ "jumped" \in Points /\ "command" \in Points /\ "type" \in Points
  /\ "count" \in Points /\ "address" \in Points /\ "byte" \in Points /\ "eol" \in Points
  /\ "skipcount" \in Points /\ "entry" \in Points /\ "starteol" \in Points
  BY Zenon DEF Points

\* gethex: the value is a number.
LEMMA ValueType ==
  ASSUME TypeOK
  PROVE  Value \in Nat
  <1>1. boot.val \in Nat
    BY SMT DEF TypeOK, Boot
  <1>2. Digit(C) \in Nat
    BY DEF Digit
  <1>3. 16 * boot.val + Digit(C) \in Nat
    BY SMT, <1>1, <1>2
  <1> QED  BY SMT, <1>3 DEF Value, Low16

\* The record after a record type.
LEMMA RecordTypeDoes ==
  ASSUME TypeOK, RecordType
  PROVE  /\ C \in {1, 2, 3} =>
              Has(boot', "count", AddrDigits(C), 2, 0, boot.addr, boot.bytes)
         /\ C \in {7, 8, 9} =>
              Has(boot', "skipcount", AddrDigits(C), 2, 0, boot.addr, boot.bytes)
         /\ C \notin {1, 2, 3, 7, 8, 9} =>
              Has(boot', "eol", boot.width, boot.left, boot.val, boot.addr, boot.bytes)
         /\ AddrDigits(C) \in {4, 6, 8}
  <1>0. boot \in Boot /\ 2 \in Nat /\ 0 \in Nat
    BY DEF TypeOK
  <1>1. AddrDigits(C) \in {4, 6, 8} /\ AddrDigits(C) \in Nat
    BY DEF AddrDigits
  <1> HIDE DEF C
  <1>2. /\ C \in {1, 2, 3} => boot' = [Field("count", 2) EXCEPT !.width = AddrDigits(C)]
        /\ C \in {7, 8, 9} => boot' = [Field("skipcount", 2) EXCEPT !.width = AddrDigits(C)]
        /\ C \notin {1, 2, 3, 7, 8, 9} => boot' = Go("eol")
    <2>1. C \in {1, 2, 3} => C \notin {7, 8, 9}
      OBVIOUS
    <2> DEFINE c == C
    <2>2. boot' = CASE c \in {1, 2, 3} -> [Field("count", 2) EXCEPT !.width = AddrDigits(c)]
                    [] c \in {7, 8, 9} -> [Field("skipcount", 2) EXCEPT !.width = AddrDigits(c)]
                    [] OTHER           -> Go("eol")
      BY Zenon DEF RecordType
    <2>3. /\ c \in {1, 2, 3, 7, 8, 9} <=> c \in {1, 2, 3} \/ c \in {7, 8, 9}
          /\ c \in {1, 2, 3} => c \notin {7, 8, 9}
      OBVIOUS
    <2> HIDE DEF c
    <2>4. /\ c \in {1, 2, 3} => boot' = [Field("count", 2) EXCEPT !.width = AddrDigits(c)]
          /\ c \in {7, 8, 9} => boot' = [Field("skipcount", 2) EXCEPT !.width = AddrDigits(c)]
          /\ c \notin {1, 2, 3, 7, 8, 9} => boot' = Go("eol")
      BY <2>2, <2>3
    <2> QED  BY <2>4, Zenon DEF c
  <1>3. "count" \in Points /\ "skipcount" \in Points /\ "eol" \in Points
    BY PointNames
  <1> DEFINE w == AddrDigits(C)
  <1>4. w \in Nat
    BY <1>1
  <1> HIDE DEF w
  <1>5. /\ Has([Field("count", 2) EXCEPT !.width = w], "count", w, 2, 0, boot.addr, boot.bytes)
        /\ Has([Field("skipcount", 2) EXCEPT !.width = w],
               "skipcount", w, 2, 0, boot.addr, boot.bytes)
    BY <1>0, <1>3, <1>4, BootFieldWith
  <1>6. Has(Go("eol"), "eol", boot.width, boot.left, boot.val, boot.addr, boot.bytes)
    BY <1>0, <1>3, BootGo
  <1> QED  BY <1>1, <1>2, <1>5, <1>6, Zenon DEF w

\* The record after a byte, of which there is one.
LEMMA EndByteDoes ==
  ASSUME TypeOK, EndByte
  PROVE  /\ boot.bytes > 0 /\ boot.bytes \in Nat
         /\ Has(boot', IF boot.bytes = 1 THEN "eol" ELSE "byte", boot.width, 2, 0,
                Low16(boot.addr + 1), boot.bytes - 1)
  <1>0. boot \in Boot /\ 2 \in Nat /\ boot.at = "byte"
    BY Zenon DEF TypeOK, EndByte, Getc
  <1>1. boot.bytes > 0 /\ boot.bytes \in Nat /\ boot.addr \in Nat
    BY <1>0, SMT DEF TypeOK, Boot
  <1>2. boot.bytes - 1 \in Nat
    BY <1>1
  <1>3. Low16(boot.addr + 1) \in Nat
    BY SMT, <1>1 DEF Low16
  <1> DEFINE at == IF boot.bytes = 1 THEN "eol" ELSE "byte"
             f  == Field(at, 2)
  <1>4. at \in Points
    BY PointNames
  <1>5. f.addr = boot.addr /\ f.bytes = boot.bytes /\ f \in Boot
    <2>1. f \in Boot /\ Has(f, at, boot.width, 2, 0, boot.addr, boot.bytes)
      <3> HIDE DEF at
      <3>1. \A n \in Nat : Has(Field(at, n), at, boot.width, n, 0, boot.addr, boot.bytes)
        BY <1>0, <1>4, BootField
      <3> HIDE DEF f
      <3>2. Has(f, at, boot.width, 2, 0, boot.addr, boot.bytes)
        BY <3>1, <1>0, Zenon DEF f
      <3> QED  BY <3>2, Zenon DEF Has
    <2> HIDE DEF f, at
    <2> QED  BY <2>1, Zenon DEF Has
  <1>6. boot' = [f EXCEPT !.addr = Low16(@ + 1), !.bytes = @ - 1]
    BY Zenon DEF EndByte
  <1> HIDE DEF f, at
  <1>7. boot' = [f EXCEPT !.addr = Low16(boot.addr + 1), !.bytes = boot.bytes - 1]
    BY SMT, <1>5, <1>6 DEF Boot
  <1> DEFINE v == Low16(boot.addr + 1)
             w == boot.bytes - 1
  <1>8. v \in Nat /\ w \in Nat /\ boot' = [f EXCEPT !.addr = v, !.bytes = w]
    BY <1>2, <1>3, <1>7, Zenon
  <1> HIDE DEF v, w
  <1>9. Has([Field(at, 2) EXCEPT !.addr = v, !.bytes = w], at, boot.width, 2, 0, v, w)
    BY <1>0, <1>4, <1>8, BootFieldWith
  <1> QED  BY <1>1, <1>8, <1>9, Zenon DEF f, at, v, w

\* The record after a digit that is not the last one.
LEMMA ReadDigitDoes ==
  ASSUME TypeOK, ReadDigit
  PROVE  Has(boot', boot.at, boot.width, boot.left - 1, Value, boot.addr, boot.bytes)
  <1>1. boot \in Boot /\ Value \in Nat
    BY ValueType, Zenon DEF TypeOK
  <1>2. boot.left - 1 \in Nat
    <2>1. boot.left \in Nat /\ boot.left > 1
      BY <1>1, SMT DEF Boot, ReadDigit
    <2> QED  BY <2>1
  <1>3. boot' = [boot EXCEPT !.left = boot.left - 1, !.val = Value]
    BY Zenon DEF ReadDigit
  <1> QED  BY <1>1, <1>2, <1>3, BootDigit, Zenon

\* The record after the count.
LEMMA EndCountDoes ==
  ASSUME TypeOK, EndCount
  PROVE  Has(boot', "address", boot.width, boot.width, 0, boot.addr,
             DataBytes(boot.width, Value))
  <1> DEFINE v == DataBytes(boot.width, Value)
  <1>1. boot \in Boot /\ Value \in Nat /\ 0 \in Nat
    BY ValueType, Zenon DEF TypeOK
  <1>2. boot.width \in Nat
    BY <1>1, SMT DEF Boot
  <1>3. v \in Nat
    BY SMT, <1>1, <1>2 DEF DataBytes, Low16
  <1>4. boot' = [Field("address", boot.width) EXCEPT !.bytes = v]
    BY Zenon DEF EndCount
  <1>5. "address" \in Points
    BY PointNames
  <1> HIDE DEF v
  <1>6. Has([Field("address", boot.width) EXCEPT !.bytes = v],
            "address", boot.width, boot.width, 0, boot.addr, v)
    BY <1>1, <1>2, <1>3, <1>5, BootFieldWith
  <1> QED  BY <1>4, <1>6, Zenon DEF v

\* The record after the address.
LEMMA EndAddressDoes ==
  ASSUME TypeOK, EndAddress
  PROVE  Has(boot', IF boot.bytes = 0 THEN "eol" ELSE "byte", boot.width, 2, 0, Value,
             boot.bytes)
  <1> DEFINE at == IF boot.bytes = 0 THEN "eol" ELSE "byte"
             v  == Value
  <1>1. boot \in Boot /\ v \in Nat /\ 0 \in Nat /\ 2 \in Nat
    BY ValueType DEF TypeOK
  <1>2. at \in Points
    BY PointNames
  <1>3. boot' = [Field(at, 2) EXCEPT !.addr = v]
    BY Zenon DEF EndAddress
  <1> HIDE DEF at, v
  <1>4. Has([Field(at, 2) EXCEPT !.addr = v], at, boot.width, 2, 0, v, boot.bytes)
    BY <1>1, <1>2, BootFieldWith
  <1> QED  BY <1>3, <1>4, Zenon DEF at, v

\* The record after the start address of an end record.
LEMMA EndEntryDoes ==
  ASSUME TypeOK, EndEntry
  PROVE  Has(boot', "starteol", boot.width, 0, Value, boot.addr, boot.bytes)
  <1> DEFINE v  == Value
  <1>1. boot \in Boot /\ v \in Nat /\ 0 \in Nat
    BY ValueType DEF TypeOK
  <1>2. "starteol" \in Points
    BY PointNames
  <1>3. boot' = [Field("starteol", 0) EXCEPT !.val = v]
    BY Zenon DEF EndEntry
  <1> HIDE DEF v
  <1>4. Has([Field("starteol", 0) EXCEPT !.val = v],
            "starteol", boot.width, 0, v, boot.addr, boot.bytes)
    BY <1>1, <1>2, BootFieldWith
  <1> QED  BY <1>3, <1>4, Zenon DEF v

\* The record after the count of an end record.
LEMMA EndSkippedCountDoes ==
  ASSUME TypeOK, EndSkippedCount
  PROVE  Has(boot', "entry", boot.width, boot.width, 0, boot.addr, boot.bytes)
  <1>1. boot \in Boot
    BY Zenon DEF TypeOK
  <1>2. boot.width \in Nat
    BY <1>1, SMT DEF Boot
  <1> QED  BY <1>1, <1>2, PointNames, BootField DEF EndSkippedCount

-----------------------------------------------------------------------------
(* Every variable keeps its type *)

\* The lines of the file are records that fit.
LEMMA FileFacts ==
  ASSUME TypeOK
  PROVE  /\ file \in Seq(Record) /\ Len(file) \in Nat
         /\ \A n \in 1 .. Len(file) : /\ file[n] \in Record /\ Fits(file[n])
                                      /\ Line(file[n]) \in Seq(Nat)
  <1>1. file \in Seq(Record) /\ \A n \in 1 .. Len(file) : Fits(file[n])
    BY FileAssumption, Zenon DEF TypeOK
  <1>2. \A n \in 1 .. Len(file) : file[n] \in Record
    BY <1>1, ElementOfSeq
  <1>3. ASSUME NEW n \in 1 .. Len(file)
        PROVE  Line(file[n]) \in Seq(Nat)
    BY <1>1, <1>2, LineShape
  <1>4. Len(file) \in Nat
    BY <1>1
  <1> QED  BY <1>1, <1>2, <1>3, <1>4

\* The characters are numbers.
LEMMA Characters ==
  Bang \in Nat /\ Quest \in Nat /\ Nl \in Nat /\ LetterS \in Nat /\ LetterJ \in Nat
    /\ Hash \in Nat /\ Text \in Nat
  BY DEF Bang, Quest, Nl, LetterS, LetterJ, Hash, Text

LEMMA TypeInit == Init => TypeOK
  <1> SUFFICES ASSUME Init
               PROVE  TypeOK
    OBVIOUS
  <1>1. boot \in Boot /\ boot.at # "byte"
    BY DEF Init, Boot, Points
  <1>2. up \in Host /\ up.at = "idle" /\ up.line = 0
    BY DEF Init, Host, Reported
  <1>3. rx \in Register /\ out \in Seq(Nat) /\ wire \in Seq(Nat)
    BY DEF Init, Register, Greeting, Nl, Text
  <1>4. file \in Files /\ Len(file) \in Nat
    BY FileAssumption DEF Init
  <1>5. 0 <= Len(file)
    BY <1>4
  <1> QED  BY <1>1, <1>2, <1>3, <1>4, <1>5 DEF Init, TypeOK

\* A step of the bootloader that takes a character.
LEMMA TypeGetc ==
  ASSUME TypeOK, NEW at, Getc(at), boot' \in Boot, boot'.at = "byte" => boot'.bytes > 0,
         out' \in Seq(Nat), start' \in Nat
  PROVE  TypeOK'
  <1>1. rx \in Register /\ rx' = [rx EXCEPT !.full = FALSE]
    BY Zenon DEF TypeOK, Getc
  <1>2. [rx EXCEPT !.full = FALSE] \in Register
    BY <1>1 DEF Register
  <1>3. rx' \in Register
    BY <1>1, <1>2, Zenon
  <1> QED  BY <1>3, Zenon DEF Getc, TypeOK

\* Every step of the line, the board and the host keeps the types.
LEMMA TypeNext == TypeOK /\ [Next]_vars => TypeOK'
  <1> SUFFICES ASSUME TypeOK, [Next]_vars
               PROVE  TypeOK'
    OBVIOUS
  <1>a. /\ boot \in Boot /\ rx \in Register /\ wire \in Seq(Nat) /\ out \in Seq(Nat)
        /\ answers \in Nat /\ lost \in Nat /\ start \in Nat /\ runs \in Nat /\ up \in Host
        /\ boot.at = "byte" => boot.bytes > 0
    BY Zenon DEF TypeOK
  <1>b. Value \in Nat
    BY ValueType
  <1>c. C \in Nat /\ 0 \in Nat /\ 2 \in Nat
    BY <1>a DEF C, Register
  <1>d. boot.width \in Nat /\ boot.left \in Nat /\ boot.val \in Nat /\ boot.bytes \in Nat
    BY <1>a, SMT DEF Boot
  <1>1. CASE Arrive
    <2>1. wire' \in Seq(Nat) /\ rx' \in Register
      BY <1>1, <1>a DEF Arrive, Register
    <2>2. overrun' \in BOOLEAN
      BY <1>1, <1>a, Zenon DEF Arrive, TypeOK
    <2> QED  BY <1>1, <2>1, <2>2, Zenon DEF Arrive, TypeOK
  <1>2. CASE Lose
    <2>1. wire' \in Seq(Nat) /\ lost' \in Nat
      BY <1>2, <1>a DEF Lose
    <2> QED  BY <1>2, <2>1, Zenon DEF Lose, TypeOK
  <1>3. CASE SendChar
    <2>1. answers' \in Nat /\ out' \in Seq(Nat)
      BY <1>3, <1>a DEF SendChar
    <2>2. [boot EXCEPT !.at = "wait"] \in Boot /\ [boot EXCEPT !.at = "wait"].at = "wait"
      BY <1>a, PointNames, BootGo, Zenon DEF Go, Has
    <2>3. boot' \in Boot /\ (boot'.at = "byte" => boot'.bytes > 0)
      BY <1>3, <1>a, <2>2, Zenon DEF SendChar
    <2> QED  BY <1>3, <2>1, <2>3, Zenon DEF SendChar, TypeOK
  <1>4. CASE BootStar
    <2>1. out' \in Seq(Nat)
      BY <1>4, Characters DEF BootStar
    <2> QED  BY <1>4, <2>1, Zenon DEF BootStar, TypeOK
  <1>5. CASE BootExpires
    <2>1. boot' \in Boot /\ boot'.at # "byte"
      BY <1>5, <1>a, PointNames, BootGo DEF BootExpires, Has
    <2> QED  BY <1>5, <2>1, Zenon DEF BootExpires, TypeOK
  <1>7. Acknowledge \/ out' = Prompt \/ out' = <<>> \/ out' = out => out' \in Seq(Nat)
    <2>1. <<Quest, Nl>> \in Seq(Nat) /\ <<Nl, Text>> \in Seq(Nat) /\ <<>> \in Seq(Nat)
      BY Characters
    <2> QED  BY <1>a, <2>1, Zenon DEF Acknowledge, Prompt
  <1>8. CASE KeyHit
    <2>1. boot' \in Boot /\ boot'.at # "byte"
      BY <1>8, <1>a, PointNames, BootGo DEF KeyHit, Has
    <2> QED  BY <1>a, <1>7, <1>8, <2>1, TypeGetc, Zenon DEF KeyHit
  <1>9. CASE Command
    <2>1. boot.at = "command"
      BY <1>9 DEF Command, Getc
    <2>2. boot' \in Boot /\ boot'.at # "byte"
      BY <1>9, <1>a, <2>1, PointNames, BootGo DEF Command, Has
    <2> QED  BY <1>a, <1>7, <1>9, <2>2, TypeGetc, Zenon DEF Command
  <1>10. CASE RecordType
    <2>1. boot' \in Boot /\ boot'.at # "byte"
      BY <1>10, RecordTypeDoes DEF Has
    <2> QED  BY <1>a, <1>10, <2>1, TypeGetc, Zenon DEF RecordType
  <1>11. CASE ReadDigit
    <2>1. boot' \in Boot /\ boot'.at = boot.at /\ boot'.bytes = boot.bytes
      BY <1>11, ReadDigitDoes, Zenon DEF Has
    <2> QED  BY <1>a, <1>11, <2>1, TypeGetc, Zenon DEF ReadDigit
  <1>12. CASE EndCount
    <2>1. boot' \in Boot /\ boot'.at # "byte"
      BY <1>12, EndCountDoes DEF Has
    <2> QED  BY <1>a, <1>12, <2>1, TypeGetc, Zenon DEF EndCount
  <1>13. CASE EndAddress
    <2>1. Has(boot', IF boot.bytes = 0 THEN "eol" ELSE "byte", boot.width, 2, 0, Value,
              boot.bytes)
      BY <1>13, EndAddressDoes
    <2>2. boot' \in Boot /\ (boot'.at = "byte" => boot'.bytes > 0)
      BY <1>d, <2>1 DEF Has
    <2> QED  BY <1>a, <1>13, <2>2, TypeGetc, Zenon DEF EndAddress
  <1>14. CASE EndByte
    <2>1. Has(boot', IF boot.bytes = 1 THEN "eol" ELSE "byte", boot.width, 2, 0,
              Low16(boot.addr + 1), boot.bytes - 1)
      BY <1>14, EndByteDoes
    <2>2. boot' \in Boot /\ (boot'.at = "byte" => boot'.bytes > 0)
      BY <1>14, <2>1, EndByteDoes DEF Has
    <2> QED  BY <1>a, <1>14, <2>2, TypeGetc, Zenon DEF EndByte
  <1>15. CASE EndSkippedCount
    <2>1. boot' \in Boot /\ boot'.at # "byte"
      BY <1>15, EndSkippedCountDoes DEF Has
    <2> QED  BY <1>a, <1>15, <2>1, TypeGetc, Zenon DEF EndSkippedCount
  <1>16. CASE EndEntry
    <2>1. boot' \in Boot /\ boot'.at # "byte"
      BY <1>16, EndEntryDoes DEF Has
    <2> QED  BY <1>a, <1>16, <2>1, TypeGetc, Zenon DEF EndEntry
  <1>17. CASE RestOfLine
    <2>1. boot.at \in {"eol", "starteol"}
      BY <1>17, Zenon DEF RestOfLine, Getc
    <2>2. Go("command") \in Boot /\ Go("command").at = "command"
      BY <1>a, PointNames, BootGo, Zenon DEF Has
    <2>3. boot' \in Boot /\ boot'.at # "byte"
      BY <1>17, <1>a, <2>1, <2>2 DEF RestOfLine
    <2>4. start' \in Nat
      BY <1>17, <1>a, <1>d, Zenon DEF RestOfLine
    <2> QED  BY <1>a, <1>7, <1>17, <2>3, <2>4, TypeGetc, Zenon DEF RestOfLine
  <1>18. CASE Monitor
    <2>1. out' \in Seq(Nat)
      BY <1>18, <1>c, Characters DEF Monitor
    <2> QED  BY <1>a, <1>18, <2>1, TypeGetc, Zenon DEF Monitor
  <1>19. CASE ApplicationPrints
    <2>1. <<Text>> \in Seq(Nat) /\ <<Nl>> \in Seq(Nat)
      BY Characters
    <2>2. out' \in Seq(Nat)
      BY <1>19, <2>1, Zenon DEF ApplicationPrints
    <2> QED  BY <1>19, <2>2, Zenon DEF ApplicationPrints, TypeOK
  <1>20. CASE Start
    <2>1. wire' \in Seq(Nat) /\ runs' \in Nat /\ runs' > 0
      BY <1>20, <1>a, Characters DEF Start
    <2>2. up' \in Host /\ up'.line = 0
      BY <1>20 DEF Start, Host
    <2>3. 0 <= Len(file)
      BY FileFacts
    <2> QED  BY <1>20, <2>1, <2>2, <2>3, Zenon DEF Start, Target, TypeOK
  <1>21. CASE ReadNewline
    <2>0. /\ up.line \in Nat /\ up.line <= Len(file) /\ Len(file) \in Nat
          /\ up.at # "idle" /\ runs > 0
      BY <1>21, <1>a, FileFacts DEF ReadNewline, Listening, TypeOK, Host
    <2>1. answers' \in Nat
      BY <1>21, <1>a DEF ReadNewline
    <2>2. up' \in Host /\ up'.line <= Len(file) /\ wire' \in Seq(Nat)
      <3>1. CASE up.at # "final" /\ up.line < Len(file)
        <4>1. up.line + 1 \in 1 .. Len(file)
          BY <2>0, <3>1
        <4>2. wire' = wire \o Line(file[up.line + 1])
          BY <1>21, <3>1, <2>0 DEF ReadNewline
        <4>3. Line(file[up.line + 1]) \in Seq(Nat)
          BY <4>1, FileFacts
        <4>4. up' = [up EXCEPT !.at = "answer", !.line = @ + 1]
          BY <1>21, <3>1, <2>0 DEF ReadNewline
        <4>5. up' \in Host /\ up'.line = up.line + 1
          <5> DEFINE u == [up EXCEPT !.at = "answer"]
          <5>1. u \in Host /\ u.line = up.line
            BY <1>a DEF Host
          <5>2. up' = [u EXCEPT !.line = @ + 1]
            BY <4>4
          <5> HIDE DEF u
          <5> QED  BY <2>0, <5>1, <5>2 DEF Host
        <4> QED  BY <1>a, <2>0, <3>1, <4>2, <4>3, <4>5
      <3>2. CASE up.at # "final" /\ up.line = Len(file)
        <4>1. /\ up' = [up EXCEPT !.at = "final"]
              /\ wire' = Append(wire, IF up.jump THEN LetterJ ELSE Hash)
          BY <1>21, <3>2, <2>0 DEF ReadNewline
        <4>2. up' \in Host /\ up'.line = up.line
          BY <1>a, <4>1 DEF Host
        <4> QED  BY <1>a, <2>0, <4>1, <4>2, Characters
      <3>3. CASE up.at = "final"
        <4>1. up' = [up EXCEPT !.at = "done"] /\ wire' = wire
          BY <1>21, <3>3 DEF ReadNewline
        <4>2. up' \in Host /\ up'.line = up.line
          BY <1>a, <4>1 DEF Host, Reported
        <4> QED  BY <1>a, <2>0, <4>1, <4>2
      <3> QED  BY <2>0, <3>1, <3>2, <3>3
    <2> QED  BY <1>21, <2>0, <2>1, <2>2, Zenon DEF ReadNewline, Target, TypeOK
  <1>22. CASE Timeout
    <2>0. up' = [up EXCEPT !.at = "failed"]
      BY <1>22, Zenon DEF Timeout
    <2>1. up' \in Host /\ up'.line = up.line
      BY <1>a, <2>0 DEF Host, Reported
    <2>2. up.at # "idle"
      <3>1. Listening
        BY <1>22, Zenon DEF Timeout, MayTimeOut
      <3> QED  BY <3>1 DEF Listening
    <2> QED  BY <1>22, <2>1, <2>2, Zenon DEF Timeout, Target, TypeOK
  <1>23. CASE UNCHANGED vars
    BY <1>23, Zenon DEF vars, TypeOK
  <1> QED  BY <1>1, <1>2, <1>3, <1>4, <1>5, <1>8, <1>9, <1>10, <1>11, <1>12, <1>13, <1>14, <1>15,
             <1>16, <1>17, <1>18, <1>19, <1>20, <1>21, <1>22, <1>23 DEF Next, Bootloader, Upload

-----------------------------------------------------------------------------
(* The bootloader reads a line *)

\* What depends on the file alone stays as it is.
LEMMA FileSame ==
  ASSUME file' = file
  PROVE  /\ \A n, m : Contents(Places(n, m))' = Contents(Places(n, m))
         /\ \A n : Entry(n)' = Entry(n)
  <1>1. \A n, m : Contents(Places(n, m))' = Contents(Places(n, m))
    BY DEF Contents, Places, AddrOf, ByteOf, Later, IsData
  <1>2. \A n : Entry(n)' = Entry(n)
    BY DEF Entry, IsStart
  <1> QED  BY <1>1, <1>2

\* The fields of a line of the file.
LEMMA FileLine ==
  ASSUME TypeOK, NEW n \in 1 .. Len(file)
  PROVE  LET r == file[n]
             L == Line(r)
             w == AddrDigits(r.type)
         IN /\ r.type \in 0 .. 9 /\ r.addr \in Nat /\ r.data \in Seq(Nat) /\ Len(r.data) \in Nat
            /\ w \in {4, 6, 8} /\ Count(r) \in Nat /\ Fits(r)
            /\ L \in Seq(Nat) /\ Len(L) = 7 + w + 2 * Len(r.data)
            /\ L[1] = LetterS /\ L[2] = r.type
            /\ \A k \in 1 .. 2 : L[5 - k] = (Count(r) \div Weight[k]) % 16
            /\ \A k \in 1 .. w : L[5 + w - k] = (r.addr \div Weight[k]) % 16
            /\ \A j \in 1 .. Len(r.data) : /\ L[3 + w + 2 * j] = r.data[j] \div 16
                                           /\ L[4 + w + 2 * j] = r.data[j] % 16
            /\ \A i \in 1 .. Len(L) - 1 : L[i] # Nl
            /\ L[Len(L)] = Nl
  <1> DEFINE r == file[n]
  <1>1. r \in Record /\ Fits(r)
    BY FileFacts, Zenon
  <1> HIDE DEF r
  <1>2. r.type \in 0 .. 9 /\ r.addr \in Nat /\ r.data \in Seq(Nat) /\ Len(r.data) \in Nat
    BY SMT, <1>1 DEF Record
  <1>3. AddrDigits(r.type) \in {4, 6, 8}
    BY SMT DEF AddrDigits
  <1>4. Count(r) \in Nat
    <2>1. AddrDigits(r.type) \div 2 \in Nat
      BY SMT, <1>3
    <2> QED  BY SMT, <2>1, <1>2 DEF Count
  <1> QED  BY <1>1, <1>2, <1>3, <1>4, LineShape, Zenon DEF r

\* usart_getc takes character p of line n.
LEMMA TakeChar ==
  ASSUME TypeOK, NEW at, Getc(at), NEW n \in 1 .. Len(file),
         NEW p \in 1 .. Len(Line(file[n])), Unread(rx, wire, Line(file[n]), p)
  PROVE  /\ C = Line(file[n])[p] /\ file' = file
         /\ p < Len(Line(file[n])) => Unread(rx', wire', Line(file[n]), p + 1)
         /\ p = Len(Line(file[n])) => Taken'
  <1> DEFINE L == Line(file[n])
  <1>1. rx \in Register /\ wire \in Seq(Nat) /\ rx.full /\ rx' = [rx EXCEPT !.full = FALSE]
          /\ wire' = wire /\ file' = file
    BY Zenon DEF TypeOK, Getc
  <1>2. L \in Seq(Nat) /\ p \in Nat /\ Unread(rx, wire, L, p)
    BY FileLine
  <1> HIDE DEF L
  <1>3. /\ rx.char = L[p]
        /\ p < Len(L) => Unread(rx', wire, L, p + 1)
        /\ p = Len(L) => wire = <<>>
    BY <1>1, <1>2, UnreadTaken
  <1>4. ~rx'.full
    BY <1>1 DEF Register
  <1> QED  BY <1>1, <1>3, <1>4, Zenon DEF L, C, Taken

\* The bootloader is then at the next character.
LEMMA NextChar ==
  ASSUME TypeOK, NEW at, Getc(at), NEW n \in 1 .. Len(file), Parsing(n),
         NEW p \in 1 .. Len(Line(file[n])), Unread(rx, wire, Line(file[n]), p),
         p < Len(Line(file[n])), IsAt(n, p + 1)', UNCHANGED <<out, start>>
  PROVE  Parsing(n)'
  <1>1. out' = <<>> /\ answers' = 0 /\ start' = Entry(n - 1) /\ file' = file
    BY Zenon DEF Parsing, Getc
  <1>2. Entry(n - 1)' = Entry(n - 1)
    BY <1>1, FileSame
  <1>3. p + 1 \in 1 .. Len(Line(file[n]))
    BY FileLine
  <1>4. Unread(rx', wire', Line(file[n]), p + 1)
    BY TakeChar, Zenon
  <1> DEFINE q == p + 1
  <1>5. q \in 1 .. Len(Line(file[n])) /\ Unread(rx', wire', Line(file[n]), q) /\ IsAt(n, q)'
    BY <1>3, <1>4
  <1> HIDE DEF q
  <1>6. \E i \in 1 .. Len(Line(file'[n])) : Unread(rx', wire', Line(file'[n]), i) /\ IsAt(n, i)'
    BY <1>1, <1>5, Zenon
  <1> QED  BY <1>1, <1>2, <1>6, Zenon DEF Parsing

\* The numbers of 16 bits.
Word16 == {v \in Nat : v < 65536}

\* Before the first digit of a field nothing of its number is known, after the last
\* all of it.
LEMMA UpperEnds ==
  ASSUME NEW v \in Word16
  PROVE  /\ Upper(v, 0) = v
         /\ \A w \in {4, 6, 8} : Upper(v, w) = 0
         /\ v < 256 => Upper(v, 2) = 0
  <1>1. v \in Nat /\ v < 65536
    BY SMT DEF Word16
  <1>2. Upper(v, 0) = v
    BY SMT, <1>1 DEF Upper, Weight
  <1>3. \A w \in {4, 6, 8} : Upper(v, w) = 0
    BY SMT DEF Upper
  <1>4. v < 256 => Upper(v, 2) = 0
    BY SMT, <1>1 DEF Upper, Weight
  <1> QED  BY <1>2, <1>3, <1>4

\* The fields of a line hold numbers of 16 bits.
LEMMA FileNumbers ==
  ASSUME TypeOK, NEW n \in 1 .. Len(file)
  PROVE  LET r == file[n]
             L == Line(r)
             w == AddrDigits(r.type)
         IN /\ Count(r) \in Word16 /\ Count(r) < 256 /\ r.addr \in Word16
            /\ \A j \in 1 .. Len(r.data) :
                 /\ r.data[j] \in Word16 /\ r.data[j] < 256
                 /\ \A k \in 1 .. 2 :
                      L[5 + w + 2 * j - k] = (r.data[j] \div Weight[k]) % 16
  <1> DEFINE r == file[n]
             L == Line(r)
             w == AddrDigits(r.type)
  <1>1. /\ r.addr \in Nat /\ Len(r.data) \in Nat /\ w \in {4, 6, 8}
        /\ Count(r) \in Nat /\ r.data \in Seq(Nat)
        /\ \A j \in 1 .. Len(r.data) : /\ L[3 + w + 2 * j] = r.data[j] \div 16
                                       /\ L[4 + w + 2 * j] = r.data[j] % 16
    BY FileLine
  <1>2. Fits(r)
    BY FileLine
  <1> HIDE DEF r, L
  <1>3. r.addr < 65536 /\ Len(r.data) <= 16 /\ \A j \in 1 .. Len(r.data) : r.data[j] < 256
    BY SMT, <1>2 DEF Fits
  <1>4. Count(r) < 256
    <2>1. w \div 2 \in 0 .. 4
      BY SMT, <1>1
    <2> HIDE DEF w
    <2>2. Count(r) = (w \div 2) + Len(r.data) + 1
      BY DEF Count, w
    <2>3. Len(r.data) \in Nat /\ Len(r.data) <= 16
      BY SMT, <1>1, <1>3
    <2> QED  BY SMT, <2>1, <2>2, <2>3
  <1> HIDE DEF w
  <1>5. Count(r) \in Word16 /\ r.addr \in Word16
    BY SMT, <1>1, <1>3, <1>4 DEF Word16
  <1>6. ASSUME NEW j \in 1 .. Len(r.data)
        PROVE  /\ r.data[j] \in Word16 /\ r.data[j] < 256
               /\ \A k \in 1 .. 2 : L[5 + w + 2 * j - k] = (r.data[j] \div Weight[k]) % 16
    <2> DEFINE b == r.data[j]
    <2>1. b \in Nat /\ b < 256
      <3>1. b \in Nat
        BY <1>1, ElementOfSeq
      <3>2. b < 256
        BY SMT, <1>3
      <3> QED  BY <3>1, <3>2
    <2>2. L[3 + w + 2 * j] = b \div 16 /\ L[4 + w + 2 * j] = b % 16
      BY <1>1, Zenon
    <2> HIDE DEF b
    <2>3. b \in Word16
      BY SMT, <2>1 DEF Word16
    <2>4. (b \div Weight[2]) % 16 = b \div 16 /\ (b \div Weight[1]) % 16 = b % 16
      BY SMT, <2>1 DEF Weight
    <2>5. 5 + w + 2 * j - 2 = 3 + w + 2 * j /\ 5 + w + 2 * j - 1 = 4 + w + 2 * j
      BY SMT, <1>1
    <2>6. L[5 + w + 2 * j - 2] = (b \div Weight[2]) % 16
      BY <2>2, <2>4, <2>5, Zenon
    <2>7. L[5 + w + 2 * j - 1] = (b \div Weight[1]) % 16
      BY <2>2, <2>4, <2>5, Zenon
    <2>8. \A k \in 1 .. 2 : k = 1 \/ k = 2
      OBVIOUS
    <2>9. \A k \in 1 .. 2 : L[5 + w + 2 * j - k] = (b \div Weight[k]) % 16
      BY <2>6, <2>7, <2>8, Zenon
    <2> QED  BY <2>1, <2>3, <2>9, Zenon DEF b
  <1> QED  BY <1>4, <1>5, <1>6, Zenon DEF r, L, w

\* gethex reads the next digit of v.
LEMMA DigitValue ==
  ASSUME NEW v \in Word16, NEW k \in 1 .. 8, boot.val = Upper(v, k),
         C = (v \div Weight[k]) % 16
  PROVE  Value = Upper(v, k - 1)
  <1>1. v \in Nat /\ v < 65536
    BY SMT DEF Word16
  <1>2. /\ (v \div Weight[k]) % 16 \in 0 .. 15
        /\ (16 * Upper(v, k) + ((v \div Weight[k]) % 16)) % 65536 = Upper(v, k - 1)
    BY SMT, <1>1, DigitRead
  <1>3. Digit(C) = (v \div Weight[k]) % 16
    BY <1>2 DEF Digit
  <1>4. Value = Low16(16 * Upper(v, k) + ((v \div Weight[k]) % 16))
    BY <1>3, Zenon DEF Value
  <1> QED  BY SMT, <1>2, <1>4 DEF Low16

\* The field that is read, at each point.
LEMMA FieldAt ==
  ASSUME NEW n, NEW p, IsAt(n, p)
  PROVE  /\ boot.at \in {"count", "skipcount"} => ReadsCount(n, p)
         /\ boot.at \in {"address", "entry"} => ReadsAddress(n, p)
         /\ boot.at = "byte" => ReadsByte(n, p)
         /\ boot.at \in {"eol", "starteol"} => ReadsRest(n)
  BY DEF IsAt, ReadsCount, ReadsAddress, ReadsByte, ReadsRest

\* The record type decides which fields follow.
LEMMA ParseType ==
  ASSUME TypeOK, NEW n \in 1 .. Len(file), Parsing(n), RecordType
  PROVE  Parsing(n)'
  <1> DEFINE r == file[n]
             L == Line(r)
             old == Contents(Places(n - 1, 0))
  <1>1. Getc({"type"}) /\ boot.at = "type" /\ UNCHANGED <<out, mem, start>>
    BY Zenon DEF RecordType, Getc
  <1>2. PICK p \in 1 .. Len(L) : Unread(rx, wire, L, p) /\ IsAt(n, p)
    BY Zenon DEF Parsing
  <1>3. p = 2 /\ mem = old
    BY <1>1, <1>2 DEF IsAt, ReadsCount, ReadsAddress, ReadsByte, ReadsRest
  <1>4. C = L[p] /\ file' = file
    BY <1>1, <1>2, TakeChar, Zenon
  <1>5. /\ C = r.type /\ r.type \in 0 .. 9 /\ Len(L) > 3
    <2> DEFINE w    == AddrDigits(r.type)
               size == Len(r.data)
    <2>1. /\ r.type \in 0 .. 9 /\ size \in Nat /\ w \in {4, 6, 8}
          /\ Len(L) = 7 + w + 2 * size /\ L[2] = r.type
      BY FileLine
    <2> HIDE DEF L, w, size
    <2>2. Len(L) > 3
      BY SMT, <2>1
    <2> QED  BY <1>3, <1>4, <2>1, <2>2
  <1>6. Upper(Count(r), 2) = 0
    BY FileNumbers, UpperEnds
  <1>7. old' = old
    BY <1>4, FileSame
  <1>8. file'[n] = r
    BY <1>4
  <1>9. CASE r.type \in {1, 2, 3}
    <2>1. Has(boot', "count", AddrDigits(r.type), 2, 0, boot.addr, boot.bytes)
      BY <1>5, <1>9, RecordTypeDoes, Zenon
    <2>2. ReadsCount(n, 3)'
      BY <1>1, <1>3, <1>6, <1>7, <1>8, <1>9, <2>1 DEF ReadsCount, Has, IsData
    <2>3. IsAt(n, p + 1)'
      <3>1. p + 1 = 3
        BY <1>3
      <3> QED  BY <2>2, <3>1, Zenon DEF IsAt
    <2>4. p < Len(L)
      BY <1>3, <1>5
    <2> QED  BY <1>1, <1>2, <2>3, <2>4, NextChar, Zenon
  <1>10. CASE r.type \in {7, 8, 9}
    <2>1. Has(boot', "skipcount", AddrDigits(r.type), 2, 0, boot.addr, boot.bytes)
      BY <1>5, <1>10, RecordTypeDoes, Zenon
    <2>2. ReadsCount(n, 3)'
      BY <1>1, <1>3, <1>6, <1>7, <1>8, <1>10, <2>1 DEF ReadsCount, Has, IsStart
    <2>3. IsAt(n, p + 1)'
      <3>1. p + 1 = 3
        BY <1>3
      <3> QED  BY <2>2, <3>1, Zenon DEF IsAt
    <2>4. p < Len(L)
      BY <1>3, <1>5
    <2> QED  BY <1>1, <1>2, <2>3, <2>4, NextChar, Zenon
  <1>11. CASE r.type \notin {1, 2, 3, 7, 8, 9}
    <2>1. Has(boot', "eol", boot.width, boot.left, boot.val, boot.addr, boot.bytes)
      BY <1>5, <1>11, RecordTypeDoes, Zenon
    <2>2. old = Contents(Places(n, 0))
      <3>1. ~IsData(file[n])
        BY <1>11 DEF IsData
      <3> QED  BY <3>1, FileFacts, LineStored
    <2>3. Contents(Places(n, 0))' = Contents(Places(n, 0))
      BY <1>4, FileSame
    <2>4. ReadsRest(n)'
      BY <1>1, <1>3, <1>8, <1>11, <2>1, <2>2, <2>3 DEF ReadsRest, Has, IsStart
    <2> QED  BY <1>1, <1>2, <1>3, <1>5, <2>4, NextChar DEF IsAt
  <1> QED  BY <1>9, <1>10, <1>11

\* gethex, all but the last digit of a field.
LEMMA ParseDigit ==
  ASSUME TypeOK, NEW n \in 1 .. Len(file), Parsing(n), ReadDigit
  PROVE  Parsing(n)'
  <1> DEFINE r == file[n]
             L == Line(r)
             w == AddrDigits(r.type)
             size == Len(r.data)
             at == {"count", "skipcount", "address", "entry", "byte"}
  <1>1. Getc(at) /\ boot.at \in at /\ boot.left > 1 /\ UNCHANGED <<out, mem, start>>
    BY Zenon DEF ReadDigit, Getc
  <1>2. PICK p \in 1 .. Len(L) : Unread(rx, wire, L, p) /\ IsAt(n, p)
    BY Zenon DEF Parsing
  <1>3. C = L[p] /\ file' = file
    BY <1>1, <1>2, TakeChar, Zenon
  <1>4. Has(boot', boot.at, boot.width, boot.left - 1, Value, boot.addr, boot.bytes)
    BY ReadDigitDoes
  <1>5. /\ Contents(Places(n - 1, 0))' = Contents(Places(n - 1, 0))
        /\ \A m : Contents(Places(n - 1, m))' = Contents(Places(n - 1, m))
        /\ file'[n] = r
    BY <1>3, FileSame
  <1>5a. w \in {4, 6, 8} /\ size \in Nat /\ Len(L) = 7 + w + 2 * size
    BY FileLine
  <1>5b. p \in Nat /\ Len(L) \in Nat
    <2> HIDE DEF r, L, w, size
    <2> QED  BY SMT, <1>5a
  <1>6. /\ \A k \in 1 .. 2 : L[5 - k] = (Count(r) \div Weight[k]) % 16
        /\ \A k \in 1 .. w : L[5 + w - k] = (r.addr \div Weight[k]) % 16
    BY FileLine
  <1>7. /\ Count(r) \in Word16 /\ r.addr \in Word16
        /\ \A j \in 1 .. size :
             /\ r.data[j] \in Word16
             /\ \A k \in 1 .. 2 : L[5 + w + 2 * j - k] = (r.data[j] \div Weight[k]) % 16
    BY FileNumbers, Zenon
  <1> HIDE DEF at, w, r, L, size
  <1>8. CASE ReadsCount(n, p)
    <2>1. boot.left = 2 /\ p = 3 /\ boot.val = Upper(Count(r), 2)
      BY <1>1, <1>8 DEF ReadsCount, r
    <2>2. C = (Count(r) \div Weight[2]) % 16
      <3>1. 2 \in 1 .. 2 /\ 5 - 2 = 3
        OBVIOUS
      <3> QED  BY <1>3, <1>6, <2>1, <3>1, Zenon
    <2>3. Value = Upper(Count(r), 1)
      BY <1>7, <2>1, <2>2, DigitValue
    <2>4. ReadsCount(n, 4)'
      BY <1>1, <1>4, <1>5, <1>8, <2>1, <2>3 DEF ReadsCount, Has, r, IsData, IsStart
    <2>5. p < Len(L)
      BY SMT, <1>5a, <1>5b, <2>1
    <2> QED  BY <1>1, <1>2, <2>1, <2>4, <2>5, NextChar DEF IsAt, r, L
  <1>9. CASE ReadsAddress(n, p)
    <2> DEFINE k == boot.left
    <2>1. k \in 2 .. w /\ p = 5 + w - k /\ boot.val = Upper(r.addr, k)
      BY <1>1, <1>5a, <1>9 DEF ReadsAddress, r, w
    <2> HIDE DEF k
    <2>2. C = (r.addr \div Weight[k]) % 16
      <3>1. k \in 1 .. w
        BY SMT, <1>5a, <1>5b, <2>1
      <3> QED  BY <1>3, <1>6, <2>1, <3>1, Zenon
    <2>3. Value = Upper(r.addr, k - 1)
      <3>1. k \in 1 .. 8
        BY SMT, <1>5a, <1>5b, <2>1
      <3> QED  BY <1>7, <2>1, <2>2, <3>1, DigitValue
    <2>4. k - 1 \in 1 .. w /\ p + 1 = 5 + w - (k - 1) /\ p < Len(L)
      BY SMT, <1>5a, <1>5b, <2>1
    <2> DEFINE q == p + 1
    <2>5. ReadsAddress(n, q)'
      <3>1. q = 5 + w - (k - 1)
        BY <2>4
      <3> HIDE DEF q
      <3> QED  BY <1>1, <1>4, <1>5, <1>9, <2>3, <2>4, <3>1, Zenon
               DEF ReadsAddress, Has, r, w, k, IsData, IsStart
    <2> QED  BY <1>1, <1>2, <2>4, <2>5, NextChar DEF IsAt, r, L
  <1>10. CASE ReadsByte(n, p)
    <2> DEFINE b == boot.bytes
               j == size - b + 1
    <2>0. /\ boot.left \in 1 .. 2 /\ b \in 1 .. size /\ p = 7 + w + 2 * (size - b) - boot.left
      BY <1>10, Zenon DEF ReadsByte, r, w, size
    <2>0a. boot.val = Upper(r.data[j], boot.left)
      BY <1>10, Zenon DEF ReadsByte, r, w, size
    <2> HIDE DEF b
    <2>1. /\ boot.left = 2 /\ j \in 1 .. size /\ p = 5 + w + 2 * j - 2
          /\ p + 1 = 7 + w + 2 * (size - b) - 1
          /\ p < Len(L)
      <3>1. boot.left = 2
        BY SMT, <1>1, <2>0
      <3> QED  BY SMT, <1>5a, <1>5b, <2>0, <3>1
    <2>1a. boot.val = Upper(r.data[j], 2)
      BY <2>0a, <2>1, Zenon
    <2>2. C = (r.data[j] \div Weight[2]) % 16
      <3>1. 2 \in 1 .. 2
        OBVIOUS
      <3> HIDE DEF j
      <3> QED  BY <1>3, <1>7, <2>1, <3>1, Zenon
    <2>3. Value = Upper(r.data[j], 1)
      BY <1>7, <2>1, <2>1a, <2>2, DigitValue
    <2> DEFINE q == p + 1
    <2>5. ReadsByte(n, q)'
      <3>1. q = 7 + w + 2 * (size - b) - 1 /\ 1 \in 1 .. 2 /\ 2 - 1 = 1
        BY <2>1
      <3> HIDE DEF q
      <3> QED  BY <1>1, <1>4, <1>5, <1>10, <2>1, <2>3, <3>1, Zenon
               DEF ReadsByte, Has, r, w, size, b, IsData
    <2> QED  BY <1>1, <1>2, <2>1, <2>5, NextChar DEF IsAt, r, L
  <1> QED  BY <1>1, <1>2, <1>8, <1>9, <1>10, FieldAt DEF at

\* The count without the address and the checksum is that of the data bytes.
LEMMA DataCount ==
  ASSUME NEW w \in {4, 6, 8}, NEW size \in Nat, size <= 16, NEW n, n = (w \div 2) + size + 1
  PROVE  DataBytes(w, n) = size
  <1> DEFINE h == w \div 2
  <1>1. h \in 0 .. 4
    BY SMT
  <1>2. n = h + size + 1
    OBVIOUS
  <1>3. DataBytes(w, n) = (65536 + n - (h + 1)) % 65536
    BY DEF DataBytes, Low16
  <1> HIDE DEF h
  <1> QED  BY SMT, <1>1, <1>2, <1>3

\* The last digit of a count.
LEMMA CountRead ==
  ASSUME TypeOK, NEW at, Getc(at), NEW n \in 1 .. Len(file), boot.left = 1,
         NEW p \in 1 .. Len(Line(file[n])), Unread(rx, wire, Line(file[n]), p), ReadsCount(n, p)
  PROVE  /\ Value = Count(file[n]) /\ boot.width = AddrDigits(file[n].type)
         /\ p = 4 /\ p < Len(Line(file[n])) /\ file' = file
  <1> DEFINE r == file[n]
             L == Line(r)
             w == AddrDigits(r.type)
             size == Len(r.data)
  <1>1. p = 4 /\ boot.val = Upper(Count(r), 1) /\ boot.width = w
    <2>1. 5 - 1 = 4
      OBVIOUS
    <2> QED  BY <2>1, Zenon DEF ReadsCount
  <1>2. C = L[p] /\ file' = file
    BY TakeChar, Zenon
  <1>3. w \in {4, 6, 8} /\ size \in Nat /\ Len(L) = 7 + w + 2 * size
    BY FileLine
  <1>4. \A k \in 1 .. 2 : L[5 - k] = (Count(r) \div Weight[k]) % 16
    BY FileLine
  <1>5. Count(r) \in Word16
    BY FileNumbers
  <1> HIDE DEF r, L, w, size
  <1>6. 4 < Len(L)
    BY SMT, <1>3
  <1>7. C = (Count(r) \div Weight[1]) % 16
    <2>1. 1 \in 1 .. 2 /\ 5 - 1 = 4
      OBVIOUS
    <2> QED  BY <1>1, <1>2, <1>4, <2>1, Zenon
  <1>8. Value = Upper(Count(r), 1 - 1)
    <2>1. 1 \in 1 .. 8
      OBVIOUS
    <2> QED  BY <1>1, <1>5, <1>7, <2>1, DigitValue
  <1>9. Value = Count(r)
    BY <1>5, <1>8, UpperEnds, 1 - 1 = 0
  <1> QED  BY <1>1, <1>2, <1>6, <1>9 DEF r, L, w

\* The address follows the count; what remains of the count is the data.
LEMMA ParseCount ==
  ASSUME TypeOK, NEW n \in 1 .. Len(file), Parsing(n), EndCount \/ EndSkippedCount
  PROVE  Parsing(n)'
  <1> DEFINE r == file[n]
             L == Line(r)
             w == AddrDigits(r.type)
             size == Len(r.data)
             old == Contents(Places(n - 1, 0))
  <1>1. PICK at : /\ Getc(at) /\ boot.left = 1 /\ UNCHANGED <<out, mem, start>>
                  /\ boot.at \in {"count", "skipcount"}
                  /\ EndCount => boot.at = "count"
                  /\ EndSkippedCount => boot.at = "skipcount"
    <2>1. CASE EndCount
      <3>1. boot.at = "count" /\ ~EndSkippedCount
        BY <2>1 DEF EndCount, EndSkippedCount, Getc
      <3> QED  BY <2>1, <3>1, Zenon DEF EndCount
    <2>2. CASE EndSkippedCount
      <3>1. boot.at = "skipcount" /\ ~EndCount
        BY <2>2 DEF EndCount, EndSkippedCount, Getc
      <3> QED  BY <2>2, <3>1, Zenon DEF EndSkippedCount
    <2> QED  BY <2>1, <2>2
  <1>2. PICK p \in 1 .. Len(L) : Unread(rx, wire, L, p) /\ IsAt(n, p)
    BY Zenon DEF Parsing
  <1>3. ReadsCount(n, p)
    BY <1>1, <1>2, FieldAt, Zenon
  <1>4. Value = Count(r) /\ boot.width = w /\ p = 4 /\ p < Len(L) /\ file' = file
    BY <1>1, <1>2, <1>3, CountRead, Zenon
  <1>5. w \in {4, 6, 8} /\ size \in Nat /\ r.addr \in Word16 /\ size <= 16
    <2>1. Fits(r)
      BY FileLine
    <2>2. size <= 16
      <3> HIDE DEF r
      <3> QED  BY SMT, <2>1 DEF Fits
    <2> QED  BY <2>2, FileLine, FileNumbers
  <1>6. old' = old /\ file'[n] = r
    BY <1>4, FileSame
  <1>7. mem = old
    BY <1>3, Zenon DEF ReadsCount
  <1>8. Upper(r.addr, w) = 0
    BY <1>5, UpperEnds
  <1>9. w \in 1 .. w /\ 5 = 5 + w - w
    <2> HIDE DEF w
    <2> QED  BY SMT, <1>5
  <1>10. Has(boot', IF EndCount THEN "address" ELSE "entry", w, w, 0, boot.addr,
             IF EndCount THEN DataBytes(w, Count(r)) ELSE boot.bytes)
    BY <1>4, EndCountDoes, EndSkippedCountDoes, Zenon
  <1>11. DataBytes(w, Count(r)) = size
    <2>1. Count(r) = (w \div 2) + size + 1
      BY DEF Count
    <2> HIDE DEF w, size
    <2> QED  BY <1>5, <2>1, DataCount, Zenon
  <1>12. CASE EndCount
    <2>1. boot.at = "count" /\ IsData(r)
      BY <1>1, <1>3, <1>12 DEF ReadsCount
    <2>2. Has(boot', "address", w, w, 0, boot.addr, size)
      BY <1>10, <1>11, <1>12, Zenon
    <2>3. ReadsAddress(n, 5)'
      BY <1>1, <1>6, <1>7, <1>8, <1>9, <2>1, <2>2, Zenon DEF ReadsAddress, Has, IsData
    <2> QED  BY <1>1, <1>2, <1>4, <2>3, 4 + 1 = 5, NextChar DEF IsAt
  <1>13. CASE ~EndCount
    <2>1. boot.at = "skipcount" /\ IsStart(r)
      BY <1>1, <1>3, <1>13 DEF ReadsCount
    <2>2. Has(boot', "entry", w, w, 0, boot.addr, boot.bytes)
      BY <1>10, <1>13, Zenon
    <2>3. ReadsAddress(n, 5)'
      BY <1>1, <1>6, <1>7, <1>8, <1>9, <2>1, <2>2, Zenon DEF ReadsAddress, Has, IsStart
    <2> QED  BY <1>1, <1>2, <1>4, <2>3, 4 + 1 = 5, NextChar DEF IsAt
  <1> QED  BY <1>12, <1>13

\* The last digit of an address.
LEMMA AddressRead ==
  ASSUME TypeOK, NEW at, Getc(at), NEW n \in 1 .. Len(file), boot.left = 1,
         NEW p \in 1 .. Len(Line(file[n])), Unread(rx, wire, Line(file[n]), p),
         ReadsAddress(n, p)
  PROVE  /\ Value = file[n].addr /\ p = 4 + AddrDigits(file[n].type)
         /\ p < Len(Line(file[n])) /\ file' = file
  <1> DEFINE r == file[n]
             L == Line(r)
             w == AddrDigits(r.type)
             size == Len(r.data)
  <1>1. w \in {4, 6, 8} /\ size \in Nat /\ Len(L) = 7 + w + 2 * size
    BY FileLine
  <1>2. p = 5 + w - 1 /\ boot.val = Upper(r.addr, 1)
    BY Zenon DEF ReadsAddress
  <1>3. C = L[p] /\ file' = file
    BY TakeChar, Zenon
  <1>4. \A k \in 1 .. w : L[5 + w - k] = (r.addr \div Weight[k]) % 16
    BY FileLine
  <1>5. r.addr \in Word16
    BY FileNumbers
  <1> HIDE DEF r, L, w, size
  <1>6. p = 4 + w /\ p < Len(L)
    BY SMT, <1>1, <1>2
  <1>7. C = (r.addr \div Weight[1]) % 16
    <2>1. 1 \in 1 .. w
      BY SMT, <1>1
    <2> QED  BY <1>2, <1>3, <1>4, <2>1, Zenon
  <1>8. Value = Upper(r.addr, 1 - 1)
    <2>1. 1 \in 1 .. 8
      OBVIOUS
    <2> QED  BY <1>2, <1>5, <1>7, <2>1, DigitValue
  <1>9. Value = r.addr
    BY <1>5, <1>8, UpperEnds, 1 - 1 = 0
  <1> QED  BY <1>3, <1>6, <1>9 DEF r, L, w

\* The data follows the address, if there is any.
LEMMA ParseAddress ==
  ASSUME TypeOK, NEW n \in 1 .. Len(file), Parsing(n), EndAddress
  PROVE  Parsing(n)'
  <1> DEFINE r == file[n]
             L == Line(r)
             w == AddrDigits(r.type)
             size == Len(r.data)
             old == Contents(Places(n - 1, 0))
  <1>1. Getc({"address"}) /\ boot.at = "address" /\ boot.left = 1 /\ UNCHANGED <<out, mem, start>>
    BY Zenon DEF EndAddress, Getc
  <1>2. PICK p \in 1 .. Len(L) : Unread(rx, wire, L, p) /\ IsAt(n, p)
    BY Zenon DEF Parsing
  <1>3. ReadsAddress(n, p)
    BY <1>1, <1>2, FieldAt
  <1>4. Value = r.addr /\ p = 4 + w /\ p < Len(L) /\ file' = file
    BY <1>1, <1>2, <1>3, AddressRead, Zenon
  <1>5. IsData(r) /\ boot.bytes = size /\ mem = old
    BY <1>1, <1>3 DEF ReadsAddress
  <1>6. w \in {4, 6, 8} /\ size \in Nat
    BY FileLine
  <1>7. Has(boot', IF size = 0 THEN "eol" ELSE "byte", boot.width, 2, 0, r.addr, size)
    BY <1>4, <1>5, EndAddressDoes, Zenon
  <1>8. /\ \A m : Contents(Places(n - 1, m))' = Contents(Places(n - 1, m))
        /\ Contents(Places(n, 0))' = Contents(Places(n, 0))
        /\ file'[n] = r
    BY <1>4, FileSame
  <1>9. CASE size = 0
    <2>1. old = Contents(Places(n, 0))
      BY <1>5, <1>9, FileFacts, LineStored
    <2>2. Has(boot', "eol", boot.width, 2, 0, r.addr, size) /\ ~IsStart(r)
      BY <1>5, <1>7, <1>9 DEF IsData, IsStart
    <2>3. ReadsRest(n)'
      BY <1>1, <1>5, <1>8, <2>1, <2>2, Zenon DEF ReadsRest, Has, IsStart
    <2> QED  BY <1>1, <1>2, <1>4, <2>3, NextChar DEF IsAt
  <1>10. CASE size # 0
    <2>1. Has(boot', "byte", boot.width, 2, 0, r.addr, size)
      BY <1>7, <1>10, Zenon
    <2>2. Upper(r.data[1], 2) = 0
      <3>1. 1 \in 1 .. size
        BY <1>6, <1>10
      <3>2. r.data[1] \in Word16 /\ r.data[1] < 256
        BY <3>1, FileNumbers
      <3> QED  BY <3>2, UpperEnds
    <2> DEFINE q == p + 1
    <2>3. /\ q = 7 + w + 2 * (size - size) - 2 /\ size - size = 0 /\ 2 \in 1 .. 2
          /\ size \in 1 .. size /\ 0 + 1 = 1
      <3> HIDE DEF w, size
      <3> QED  BY SMT, <1>4, <1>6, <1>10
    <2>4. r.addr + (size - size) = r.addr
      <3>1. r.addr \in Nat
        BY FileLine
      <3> HIDE DEF size, r
      <3> QED  BY SMT, <3>1, <1>6
    <2> HIDE DEF q
    <2>5. ReadsByte(n, q)'
      BY <1>1, <1>5, <1>8, <2>1, <2>2, <2>3, <2>4, Zenon DEF ReadsByte, Has, IsData
    <2> QED  BY <1>1, <1>2, <1>4, <2>5, NextChar DEF IsAt, q
  <1> QED  BY <1>9, <1>10

\* An end record has nothing after its start address.
LEMMA ParseEntry ==
  ASSUME TypeOK, NEW n \in 1 .. Len(file), Parsing(n), EndEntry
  PROVE  Parsing(n)'
  <1> DEFINE r == file[n]
             L == Line(r)
             old == Contents(Places(n - 1, 0))
  <1>1. Getc({"entry"}) /\ boot.at = "entry" /\ boot.left = 1 /\ UNCHANGED <<out, mem, start>>
    BY Zenon DEF EndEntry, Getc
  <1>2. PICK p \in 1 .. Len(L) : Unread(rx, wire, L, p) /\ IsAt(n, p)
    BY Zenon DEF Parsing
  <1>3. ReadsAddress(n, p)
    BY <1>1, <1>2, FieldAt
  <1>4. Value = r.addr /\ p < Len(L) /\ file' = file
    BY <1>1, <1>2, <1>3, AddressRead, Zenon
  <1>5. IsStart(r) /\ mem = old
    BY <1>1, <1>3 DEF ReadsAddress
  <1>6. Has(boot', "starteol", boot.width, 0, r.addr, boot.addr, boot.bytes)
    BY <1>4, EndEntryDoes, Zenon
  <1>7. old = Contents(Places(n, 0))
    <2>1. ~IsData(r)
      BY <1>5 DEF IsData, IsStart
    <2> QED  BY <2>1, FileFacts, LineStored
  <1>8. Contents(Places(n, 0))' = Contents(Places(n, 0)) /\ file'[n] = r
    BY <1>4, FileSame
  <1>9. ReadsRest(n)'
    BY <1>1, <1>5, <1>6, <1>7, <1>8, Zenon DEF ReadsRest, Has, IsStart
  <1> QED  BY <1>1, <1>2, <1>4, <1>9, NextChar DEF IsAt

\* The last digit of a byte.
LEMMA ByteRead ==
  ASSUME TypeOK, NEW at, Getc(at), NEW n \in 1 .. Len(file), boot.left = 1,
         NEW p \in 1 .. Len(Line(file[n])), Unread(rx, wire, Line(file[n]), p),
         ReadsByte(n, p)
  PROVE  LET r    == file[n]
             done == Len(r.data) - boot.bytes
         IN /\ done \in Nat /\ done < Len(r.data) /\ Value = r.data[done + 1]
            /\ p = 6 + AddrDigits(r.type) + 2 * done
            /\ p < Len(Line(r)) /\ file' = file
  <1> DEFINE r == file[n]
             L == Line(r)
             w == AddrDigits(r.type)
             size == Len(r.data)
             b == boot.bytes
             done == size - b
             j == done + 1
  <1>1. w \in {4, 6, 8} /\ size \in Nat /\ Len(L) = 7 + w + 2 * size
    BY FileLine
  <1>2. b \in 1 .. size /\ p = 7 + w + 2 * done - 1
    BY Zenon DEF ReadsByte
  <1>2a. boot.val = Upper(r.data[j], 1)
    BY Zenon DEF ReadsByte
  <1>3. C = L[p] /\ file' = file
    BY TakeChar, Zenon
  <1>4. \A i \in 1 .. size :
          /\ r.data[i] \in Word16
          /\ \A k \in 1 .. 2 : L[5 + w + 2 * i - k] = (r.data[i] \div Weight[k]) % 16
    BY FileNumbers
  <1> HIDE DEF r, L, w, size, b
  <1>5. done \in Nat /\ done < size /\ j \in 1 .. size
    BY SMT, <1>1, <1>2
  <1> HIDE DEF done
  <1>6. p = 5 + w + 2 * j - 1 /\ p = 6 + w + 2 * done /\ p < Len(L) /\ 1 \in 1 .. 2
    BY SMT, <1>1, <1>2, <1>5
  <1> HIDE DEF j
  <1>7. C = (r.data[j] \div Weight[1]) % 16
    BY <1>3, <1>4, <1>5, <1>6, Zenon
  <1>8. Value = Upper(r.data[j], 1 - 1)
    <2>1. 1 \in 1 .. 8
      OBVIOUS
    <2> QED  BY <1>2a, <1>4, <1>5, <1>7, <2>1, DigitValue
  <1>9. Value = r.data[j]
    BY <1>4, <1>5, <1>8, UpperEnds, 1 - 1 = 0
  <1> QED  BY <1>3, <1>5, <1>6, <1>9, Zenon DEF r, L, w, size, b, done, j

\* A byte is stored at its address, and the next byte or the rest of the line
\* follows.
LEMMA ParseByte ==
  ASSUME TypeOK, NEW n \in 1 .. Len(file), Parsing(n), EndByte
  PROVE  Parsing(n)'
  <1> DEFINE r == file[n]
             L == Line(r)
             w == AddrDigits(r.type)
             size == Len(r.data)
             done == size - boot.bytes
             m == done + 1
  <1>1. Getc({"byte"}) /\ boot.at = "byte" /\ boot.left = 1 /\ UNCHANGED <<out, start>>
    BY Zenon DEF EndByte, Getc
  <1>2. PICK p \in 1 .. Len(L) : Unread(rx, wire, L, p) /\ IsAt(n, p)
    BY Zenon DEF Parsing
  <1>3. ReadsByte(n, p)
    BY <1>1, <1>2, FieldAt
  <1>4. /\ done \in Nat /\ done < size /\ Value = r.data[m] /\ p = 6 + w + 2 * done
        /\ p < Len(L) /\ file' = file
    BY <1>1, <1>2, <1>3, ByteRead, Zenon
  <1>5. /\ IsData(r) /\ boot.addr = r.addr + done /\ mem = Contents(Places(n - 1, done))
        /\ boot.bytes \in 1 .. size
    BY <1>3, Zenon DEF ReadsByte
  <1>6. w \in {4, 6, 8} /\ size \in Nat /\ r.addr \in Nat /\ Fits(r) /\ file \in Seq(Record)
    BY FileLine, FileFacts
  <1>7. Has(boot', IF boot.bytes = 1 THEN "eol" ELSE "byte", boot.width, 2, 0,
            Low16(boot.addr + 1), boot.bytes - 1)
    BY EndByteDoes
  <1>8. /\ \A k : Contents(Places(n - 1, k))' = Contents(Places(n - 1, k))
        /\ Contents(Places(n, 0))' = Contents(Places(n, 0))
        /\ file'[n] = r
    BY <1>4, FileSame
  <1>9. mem' = Contents(Places(n - 1, m))
    <2> DEFINE old == Contents(Places(n - 1, done))
    <2>1. Contents(Places(n - 1, m)) =
            [a \in DOMAIN old \cup {r.addr + done} |->
               IF a = r.addr + done THEN r.data[m] ELSE old[a]]
      <3> HIDE DEF done
      <3> QED  BY <1>4, <1>5, <1>6, ByteStored, Zenon
    <2>2. mem' = [a \in DOMAIN mem \cup {boot.addr} |->
                    IF a = boot.addr THEN Value ELSE mem[a]]
      BY Zenon DEF EndByte
    <2> QED  BY <1>4, <1>5, <2>1, <2>2, Zenon
  <1>10. CASE boot.bytes = 1
    <2>1. m = size
      <3> HIDE DEF size
      <3> QED  BY SMT, <1>6, <1>10
    <2>2. Contents(Places(n - 1, m)) = Contents(Places(n, 0))
      BY <1>5, <1>6, <2>1, LineStored, Zenon
    <2>3. boot'.at = "eol" /\ ~IsStart(r)
      BY SMTT(20), <1>5, <1>7, <1>10 DEF Has, IsData, IsStart
    <2>4. ReadsRest(n)'
      BY <1>8, <1>9, <2>2, <2>3, Zenon DEF ReadsRest, IsStart
    <2> QED  BY <1>1, <1>2, <1>4, <2>4, NextChar DEF IsAt
  <1>11. CASE boot.bytes # 1
    <2> DEFINE b == boot.bytes
               c == b - 1
               q == p + 1
    <2>1. /\ c \in 1 .. size /\ size - c = m /\ m + 1 \in 1 .. size
          /\ q = 7 + w + 2 * (size - c) - 2
      <3> HIDE DEF w, size, b
      <3>1. b \in 1 .. size /\ b # 1
        BY <1>5, <1>11 DEF b
      <3>2. done = size - b
        BY DEF b
      <3> HIDE DEF done
      <3>3. done \in Nat /\ p = 6 + w + 2 * done
        BY <1>4, Zenon
      <3>4. w \in Nat /\ size \in Nat
        BY <1>6
      <3> QED  BY SMT, <3>1, <3>2, <3>3, <3>4
    <2>2. Has(boot', "byte", boot.width, 2, 0, Low16(boot.addr + 1), c)
      BY <1>7, <1>11, Zenon
    <2>3. Low16(boot.addr + 1) = r.addr + (size - c)
      <3>1. Low16(r.addr + m) = r.addr + m
        <4> HIDE DEF r, size, m
        <4>1. r.addr + size <= 65536
          BY SMT, <1>6 DEF Fits, size
        <4>2. m \in Nat /\ m < size
          <5>1. \A k \in Nat : m + 1 \in 1 .. k /\ m \in Int => m \in Nat /\ m < k
            BY SMT
          <5>2. m \in Int
            BY <1>4 DEF m
          <5> QED  BY <1>6, <2>1, <5>1, <5>2, Zenon
        <4>3. r.addr + m \in Nat /\ r.addr + m < 65536
          BY SMT, <1>6, <4>1, <4>2
        <4> QED  BY SMT, <4>3 DEF Low16
      <3>2. boot.addr + 1 = r.addr + m
        <4> HIDE DEF r, done
        <4>1. boot.addr = r.addr + done
          BY <1>5, Zenon
        <4>2. r.addr \in Nat /\ done \in Nat
          BY <1>4, <1>6, Zenon
        <4> HIDE DEF m
        <4>3. m = done + 1
          BY DEF m
        <4> QED  BY SMT, <4>1, <4>2, <4>3
      <3> QED  BY <2>1, <3>1, <3>2, Zenon
    <2>4. Upper(r.data[(size - c) + 1], 2) = 0
      <3> HIDE DEF m, c
      <3>1. r.data[m + 1] \in Word16 /\ r.data[m + 1] < 256
        BY <2>1, FileNumbers, Zenon
      <3> QED  BY <2>1, <3>1, UpperEnds
    <2>5. mem' = Contents(Places(n - 1, size - c))
      BY <1>9, <2>1, Zenon
    <2>6. 2 \in 1 .. 2
      OBVIOUS
    <2> HIDE DEF c, q
    <2>7. ReadsByte(n, q)'
      BY <1>5, <1>8, <2>1, <2>2, <2>3, <2>4, <2>5, <2>6, Zenon DEF ReadsByte, Has, IsData
    <2> QED  BY <1>1, <1>2, <1>4, <2>7, NextChar DEF IsAt, q
  <1> QED  BY <1>10, <1>11

\* The newline at the end of a line is answered; then all of the line is stored.
LEMMA ParseRest ==
  ASSUME TypeOK, NEW n \in 1 .. Len(file), Parsing(n), RestOfLine
  PROVE  Parsing(n)' \/ (Answering' /\ Stored(n)')
  <1> DEFINE r == file[n]
             L == Line(r)
  <1>1. Getc({"eol", "starteol"}) /\ boot.at \in {"eol", "starteol"} /\ mem' = mem
    BY Zenon DEF RestOfLine, Getc
  <1>2. PICK p \in 1 .. Len(L) : Unread(rx, wire, L, p) /\ IsAt(n, p)
    BY Zenon DEF Parsing
  <1>3. ReadsRest(n)
    BY <1>1, <1>2, FieldAt
  <1>4. /\ C = L[p] /\ file' = file
        /\ p = Len(L) => Taken'
    BY <1>1, <1>2, TakeChar, Zenon
  <1>5. L[Len(L)] = Nl /\ \A i \in 1 .. Len(L) - 1 : L[i] # Nl
    BY FileLine
  <1>6. /\ Contents(Places(n, 0))' = Contents(Places(n, 0))
        /\ Entry(n)' = Entry(n) /\ file'[n] = r
    BY <1>4, FileSame
  <1> HIDE DEF L
  <1>7. CASE p = Len(L)
    <2>1. C = Nl
      BY <1>4, <1>5, <1>7, Zenon
    <2>2. /\ boot' = Go("command") /\ out' = <<Quest, Nl>>
          /\ start' = IF boot.at = "starteol" THEN boot.val ELSE start
      BY <2>1, Zenon DEF RestOfLine, EndsLine, Acknowledge
    <2>3. boot'.at = "command"
      <3>1. boot \in Boot
        BY Zenon DEF TypeOK
      <3> QED  BY <2>2, <3>1, PointNames, BootGo, Zenon DEF Has
    <2>4. answers' = 0
      BY <1>1, Zenon DEF Getc, Parsing
    <2>5. Answering'
      BY <1>4, <1>7, <2>2, <2>3, <2>4, Zenon DEF Answering
    <2>6. start' = Entry(n)
      <3>1. Entry(n) = IF IsStart(r) THEN r.addr ELSE Entry(n - 1)
        BY FileFacts, EntryStored
      <3>2. start = Entry(n - 1)
        BY DEF Parsing
      <3> QED  BY <1>3, <2>2, <3>1, <3>2 DEF ReadsRest
    <2>7. mem' = Contents(Places(n, 0))
      BY <1>1, <1>3, Zenon DEF ReadsRest
    <2> QED  BY <1>6, <2>5, <2>6, <2>7, Zenon DEF Stored
  <1>8. CASE p # Len(L)
    <2>1. p \in 1 .. Len(L) - 1 /\ p < Len(L)
      <3>1. Len(L) \in Nat
        BY FileLine DEF L
      <3> QED  BY <3>1, <1>8
    <2>2. C # Nl
      BY <1>4, <1>5, <2>1, Zenon
    <2>3. boot' = boot /\ UNCHANGED <<out, start>>
      BY <2>2, Zenon DEF RestOfLine, EndsLine
    <2>4. ReadsRest(n)'
      BY <1>1, <1>3, <1>6, <2>3, Zenon DEF ReadsRest, IsStart
    <2> QED  BY <1>1, <1>2, <2>1, <2>3, <2>4, NextChar DEF IsAt, L
  <1> QED  BY <1>7, <1>8

\* A line begins with the letter that the bootloader's command loop waits for.
LEMMA ParseCommand ==
  ASSUME TypeOK, NEW n \in 1 .. Len(file), Parsing(n), Command
  PROVE  Parsing(n)'
  <1> DEFINE r == file[n]
             L == Line(r)
             w == AddrDigits(r.type)
             size == Len(r.data)
             old == Contents(Places(n - 1, 0))
  <1>1. Getc({"command"}) /\ boot.at = "command" /\ UNCHANGED <<mem, start>>
    BY Zenon DEF Command, Getc
  <1>2. PICK p \in 1 .. Len(L) : Unread(rx, wire, L, p) /\ IsAt(n, p)
    BY Zenon DEF Parsing
  <1>3. p = 1 /\ mem = old
    BY <1>1, <1>2 DEF IsAt, ReadsCount, ReadsAddress, ReadsByte, ReadsRest
  <1>4. C = L[p] /\ file' = file
    BY <1>1, <1>2, TakeChar, Zenon
  <1>5. L[1] = LetterS /\ w \in {4, 6, 8} /\ size \in Nat /\ Len(L) = 7 + w + 2 * size
    BY FileLine
  <1>6. 1 < Len(L)
    <2> HIDE DEF L, w, size
    <2> QED  BY SMT, <1>5
  <1>7. boot' = Go("type") /\ out' = <<>>
    <2>1. C = LetterS /\ LetterS # LetterJ /\ LetterS # Hash
      BY <1>3, <1>4, <1>5 DEF LetterS, LetterJ, Hash
    <2> QED  BY <2>1 DEF Command
  <1>8. out' = out
    BY <1>7, Zenon DEF Parsing
  <1>9. boot'.at = "type"
    <2>1. boot \in Boot
      BY Zenon DEF TypeOK
    <2> QED  BY <1>7, <2>1, PointNames, BootGo, Zenon DEF Has
  <1>10. mem' = old /\ old' = old
    BY <1>1, <1>3, <1>4, FileSame
  <1>11. IsAt(n, 2)'
    BY <1>9, <1>10, Zenon DEF IsAt
  <1> QED  BY <1>1, <1>2, <1>3, <1>6, <1>8, <1>11, 1 + 1 = 2, NextChar

-----------------------------------------------------------------------------
(* Host and board stay in step *)

\* In the beginning nothing has happened.
LEMMA InStepInit == Init => InStep
  <1> SUFFICES ASSUME Init
               PROVE  InStep
    OBVIOUS
  <1>1. up.at = "idle" /\ ~overrun
    BY DEF Init
  <1>2. boot.at = "greet" /\ Taken /\ answers = 0 /\ out # <<>>
    BY DEF Init, Taken, Greeting
  <1>3. Stored(0)
    BY NothingStored, Zenon DEF Init, Stored
  <1>4. Idle
    BY <1>2, <1>3 DEF Idle
  <1> QED  BY <1>1, <1>2, <1>4 DEF InStep, Serving, Running

\* The host has written line n, and the board is at a point that belongs to it.
LEMMA OnlyParsing ==
  ASSUME TypeOK, Serving,
         boot.at \in {"type", "count", "skipcount", "address", "entry", "byte", "eol", "starteol"}
  PROVE  up.at = "answer" /\ up.line \in 1 .. Len(file) /\ Parsing(up.line)
  <1>1. up.at \in {"idle", "done", "failed", "contact", "answer", "final"}
    BY Zenon DEF TypeOK, Host, Reported
  <1>2. up.at # "idle"
    BY DEF Serving, Idle
  <1>3. up.at \notin {"done", "failed"}
    BY DEF Serving, Ended
  <1>4. up.at # "contact"
    BY DEF Serving, Contacting, Answering
  <1>5. up.at # "final"
    BY DEF Serving, Finishing, Ended
  <1>6. up.at = "answer"
    BY <1>1, <1>2, <1>3, <1>4, <1>5
  <1>7. Transferring
    BY <1>6 DEF Serving
  <1> QED  BY <1>6, <1>7 DEF Transferring, Answering

\* The transfer goes on.
LEMMA StillTransferring ==
  ASSUME NEW n, up.line = n, UNCHANGED <<up, file>>, n \in 1 .. Len(file),
         Parsing(n)' \/ (Answering' /\ Stored(n)')
  PROVE  Transferring'
  <1>1. Parsing(up.line)' \/ (Answering' /\ Stored(up.line)')
    OBVIOUS
  <1> QED  BY <1>1 DEF Transferring

\* So it does while the bootloader reads a line.
LEMMA LineStep ==
  ASSUME TypeOK, ~overrun, Serving, NEW at, Getc(at),
         boot.at \in {"type", "count", "skipcount", "address", "entry", "byte", "eol", "starteol"},
         \A n \in 1 .. Len(file) : Parsing(n) => Parsing(n)' \/ (Answering' /\ Stored(n)')
  PROVE  ~overrun' /\ Serving'
  <1>1. UNCHANGED <<file, up, lost, overrun>>
    BY Zenon DEF Getc
  <1>3. up.at = "answer" /\ up.line \in 1 .. Len(file) /\ Parsing(up.line)
    BY OnlyParsing
  <1>4. Parsing(up.line)' \/ (Answering' /\ Stored(up.line)')
    BY <1>3, <1>1
  <1>5. Transferring'
    BY <1>1, <1>3, <1>4, StillTransferring
  <1> QED  BY <1>1, <1>3, <1>5 DEF Serving

\* A single character on its way.
LEMMA OneUnread ==
  ASSUME NEW reg \in Register, NEW way \in Seq(Nat), NEW c \in Nat, Unread(reg, way, <<c>>, 1)
  PROVE  /\ reg.full => way = <<>> /\ reg.char = c
         /\ way # <<>> => /\ ~reg.full
                          /\ Unread([full |-> TRUE, char |-> Head(way)], Tail(way), <<c>>, 1)
  <1>1. <<c>> \in Seq(Nat) /\ Len(<<c>>) = 1 /\ <<c>>[1] = c
    OBVIOUS
  <1>2. reg.full => way = <<>> /\ reg.char = c
    <2>1. reg.full => Len(way) = 0 /\ reg.char = c
      BY <1>1 DEF Unread
    <2> QED  BY <2>1
  <1>3. way # <<>> /\ ~reg.full => Unread([full |-> TRUE, char |-> Head(way)], Tail(way), <<c>>, 1)
    <2>1. 1 \in Nat
      OBVIOUS
    <2> QED  BY <1>1, <2>1, UnreadArrives, Zenon
  <1> QED  BY <1>2, <1>3

\* What is stored, and the point the bootloader is at, depend on the board alone.
LEMMA BoardSame ==
  ASSUME UNCHANGED <<file, mem, start>>
  PROVE  /\ \A n : Stored(n)' = Stored(n)
         /\ boot' = boot => \A n, p : IsAt(n, p)' = IsAt(n, p)
  <1>1. \A n, m : Contents(Places(n, m))' = Contents(Places(n, m))
    BY FileSame, Zenon
  <1>2. \A n : Entry(n)' = Entry(n)
    BY FileSame, Zenon
  <1>3. \A n : Stored(n)' = Stored(n)
    BY <1>1, <1>2, Zenon DEF Stored
  <1>4. ASSUME boot' = boot
        PROVE  \A n, p : IsAt(n, p)' = IsAt(n, p)
    <2> TAKE n, p
    <2>1. ReadsCount(n, p)' = ReadsCount(n, p)
      BY <1>1, <1>4, Zenon DEF ReadsCount, IsData, IsStart
    <2>2. ReadsAddress(n, p)' = ReadsAddress(n, p)
      BY <1>1, <1>4, Zenon DEF ReadsAddress, IsData, IsStart
    <2>3. ReadsByte(n, p)' = ReadsByte(n, p)
      BY <1>1, <1>4, Zenon DEF ReadsByte, IsData
    <2>4. ReadsRest(n)' = ReadsRest(n)
      BY <1>1, <1>4, Zenon DEF ReadsRest, IsStart
    <2> QED  BY <1>1, <1>4, <2>1, <2>2, <2>3, <2>4, Zenon DEF IsAt
  <1> QED  BY <1>3, <1>4

\* Arrive: the register is free while the bootloader reads.
LEMMA ArriveStep ==
  ASSUME TypeOK, ~overrun, Serving, Arrive
  PROVE  ~overrun' /\ Serving'
  <1>1. /\ wire # <<>> /\ rx' = [full |-> TRUE, char |-> Head(wire)] /\ wire' = Tail(wire)
        /\ overrun' = (overrun \/ (rx.full /\ ~Running))
        /\ UNCHANGED <<file, up, answers, lost, out, boot, mem, start>>
    BY Zenon DEF Arrive
  <1>2. rx \in Register /\ wire \in Seq(Nat) /\ overrun \in BOOLEAN
    BY Zenon DEF TypeOK
  <1>3. up.at \in {"idle", "done", "failed", "contact", "answer", "final"}
    BY Zenon DEF TypeOK, Host, Reported
  <1>4. out = <<>> /\ ~Running => ~rx.full
    BY Zenon DEF Arrive, Reading
  <1>5. ~overrun
    BY DEF Serving
  <1>6. \A n : Stored(n)' = Stored(n)
    BY <1>1, BoardSame, Zenon
  <1>7. CASE up.at \in {"idle", "done", "failed"}
    BY <1>1, <1>7 DEF Serving, Idle, Ended, Taken
  <1>9. CASE up.at = "contact"
    <2>1. Contacting /\ ~Taken
      BY <1>1, <1>9 DEF Serving, Taken
    <2>2. ~Answering
      BY <2>1 DEF Answering
    <2>3. Unread(rx, wire, <<Bang>>, 1)
      BY <2>1, <2>2 DEF Contacting
    <2>4. ~rx.full /\ Unread(rx', wire', <<Bang>>, 1)
      BY <1>1, <1>2, <2>3, OneUnread, Characters
    <2>5. Contacting'
      BY <1>1, <1>6, <2>1, <2>2, <2>4, Zenon DEF Contacting
    <2> QED  BY <1>1, <1>5, <1>9, <2>4, <2>5 DEF Serving
  <1>10. CASE up.at = "answer"
    <2>1. Transferring /\ ~Answering
      BY <1>1, <1>10 DEF Serving, Answering, Taken
    <2>2. PICK n \in 1 .. Len(file) : up.line = n /\ Parsing(n)
      BY <2>1 DEF Transferring
    <2>3. PICK p \in 1 .. Len(Line(file[n])) : Unread(rx, wire, Line(file[n]), p) /\ IsAt(n, p)
      BY <2>2, Zenon DEF Parsing
    <2>4. out = <<>> /\ answers = 0 /\ start = Entry(n - 1)
      BY <2>2, Zenon DEF Parsing
    <2>5. ~Running
      BY <2>3 DEF Running, IsAt, ReadsCount, ReadsAddress, ReadsByte, ReadsRest
    <2>6. ~rx.full
      BY <1>4, <2>4, <2>5
    <2>7. Unread(rx', wire', Line(file[n]), p)
      <3>1. Line(file[n]) \in Seq(Nat)
        BY FileFacts
      <3>2. p \in Nat
        BY <3>1
      <3> QED  BY <1>1, <1>2, <2>3, <2>6, <3>1, <3>2, UnreadArrives, Zenon
    <2>8. IsAt(n, p)' /\ Entry(n - 1)' = Entry(n - 1)
      BY <1>1, <2>3, BoardSame, FileSame, Zenon
    <2>9. \E i \in 1 .. Len(Line(file'[n])) : Unread(rx', wire', Line(file'[n]), i) /\ IsAt(n, i)'
      BY <1>1, <2>7, <2>8, Zenon
    <2>10. Parsing(n)'
      BY <1>1, <2>4, <2>8, <2>9, Zenon DEF Parsing
    <2>11. Transferring'
      BY <1>1, <2>2, <2>10, StillTransferring
    <2> QED  BY <1>1, <1>5, <1>10, <2>6, <2>11 DEF Serving
  <1>11. CASE up.at = "final"
    <2>1. Finishing /\ ~Ended
      BY <1>1, <1>11 DEF Serving, Ended, Taken
    <2> DEFINE c == IF up.jump THEN LetterJ ELSE Hash
    <2>2. Unread(rx, wire, <<c>>, 1) /\ boot.at = "command" /\ out = <<>> /\ answers = 0
      BY <2>1, Zenon DEF Finishing
    <2>3. c \in Nat
      BY Characters
    <2>4. ~rx.full /\ Unread(rx', wire', <<c>>, 1)
      <3> HIDE DEF c
      <3> QED  BY <1>1, <1>2, <2>2, <2>3, OneUnread, Zenon
    <2>5. Finishing'
      <3>1. Stored(Len(file))'
        BY <1>1, <1>6, <2>1 DEF Finishing
      <3>2. Unread(rx', wire', <<IF up'.jump THEN LetterJ ELSE Hash>>, 1)
        BY <1>1, <2>4, Zenon
      <3> QED  BY <1>1, <2>2, <3>1, <3>2, Zenon DEF Finishing
    <2> QED  BY <1>1, <1>5, <1>11, <2>4, <2>5 DEF Serving
  <1> QED  BY <1>3, <1>7, <1>9, <1>10, <1>11

\* More than one character leaves one.
LEMMA LongTail ==
  ASSUME NEW s \in Seq(Nat), s # <<>>, Len(s) # 1
  PROVE  Tail(s) # <<>>
  <1> DEFINE n == Len(s)
             t == Tail(s)
  <1>1. n \in Nat /\ n # 0 /\ n # 1
    OBVIOUS
  <1>2. Len(t) = n - 1
    OBVIOUS
  <1>3. t = <<>> => Len(t) = 0
    <2> HIDE DEF t
    <2> QED  BY EmptySeq
  <1> HIDE DEF n, t
  <1>4. t # <<>>
    BY <1>1, <1>2, <1>3
  <1> QED  BY <1>4 DEF t

LEMMA ShortTail ==
  ASSUME NEW s \in Seq(Nat), s # <<>>, Len(s) = 1
  PROVE  Tail(s) = <<>>
  <1> DEFINE t == Tail(s)
  <1>1. t \in Seq(Nat) /\ Len(t) = 0
    BY HeadTailProperties
  <1> HIDE DEF t
  <1>2. t = <<>>
    BY <1>1, EmptySeq
  <1> QED  BY <1>2 DEF t

\* usart_getc takes the only character on its way.
LEMMA OneTaken ==
  ASSUME TypeOK, NEW at, Getc(at), NEW c \in Nat, Unread(rx, wire, <<c>>, 1)
  PROVE  C = c /\ Taken'
  <1>1. rx \in Register /\ wire \in Seq(Nat) /\ rx.full /\ rx' = [rx EXCEPT !.full = FALSE]
          /\ wire' = wire
    BY Zenon DEF TypeOK, Getc
  <1>2. ~rx'.full
    BY <1>1 DEF Register
  <1>3. rx.char = c /\ wire = <<>>
    BY <1>1, OneUnread
  <1> QED  BY <1>1, <1>2, <1>3 DEF C, Taken

\* The boot wait is before the transfer, and nothing has been stored.
LEMMA BootWaits ==
  ASSUME TypeOK, Serving, boot.at = "wait"
  PROVE  /\ (up.at = "idle" /\ Idle) \/ (up.at = "contact" /\ Contacting)
         /\ Stored(0)
  <1>1. up.at \in {"idle", "done", "failed", "contact", "answer", "final"}
    BY Zenon DEF TypeOK, Host, Reported
  <1>2. up.at \notin {"done", "failed", "final"}
    BY DEF Serving, Finishing, Ended
  <1>3. up.at # "answer"
    BY DEF Serving, Transferring, Answering, Parsing, IsAt, ReadsCount, ReadsAddress,
           ReadsByte, ReadsRest
  <1>4. CASE up.at = "idle"
    BY <1>4 DEF Serving, Idle
  <1>5. CASE up.at = "contact"
    BY <1>5 DEF Serving, Contacting, Answering
  <1> QED  BY <1>1, <1>2, <1>3, <1>4, <1>5

\* SendChar: the newline of the answer is the one that upload waits for.
LEMMA SendStep ==
  ASSUME TypeOK, ~overrun, Serving, SendChar
  PROVE  ~overrun' /\ Serving'
  <1>1. /\ out # <<>> /\ out' = Tail(out)
        /\ answers' = IF Listening /\ Head(out) = Nl THEN answers + 1 ELSE answers
        /\ boot' = IF boot.at = "greet" /\ Len(out) = 1 THEN [boot EXCEPT !.at = "wait"] ELSE boot
        /\ UNCHANGED <<file, up, wire, lost, rx, overrun, mem, start>>
    BY Zenon DEF SendChar
  <1>2. ~overrun /\ boot \in Boot
    BY DEF Serving, TypeOK
  <1>3. up.at \in {"idle", "done", "failed", "contact", "answer", "final"}
    BY Zenon DEF TypeOK, Host, Reported
  <1>4. (\A n : Stored(n)' = Stored(n)) /\ Taken' = Taken
    BY <1>1, BoardSame, Zenon DEF Taken
  <1>5. CASE up.at = "idle"
    <2>1. Idle
      BY <1>5 DEF Serving
    <2>2. answers' = 0
      BY <1>1, <1>5, <2>1 DEF Idle, Listening
    <2>3. CASE boot.at = "greet" /\ Len(out) = 1
      <3>1. boot'.at = "wait"
        BY <1>1, <1>2, <2>3 DEF Boot
      <3>2. out' = <<>>
        <4>1. out \in Seq(Nat)
          BY Zenon DEF TypeOK
        <4> QED  BY <1>1, <2>3, <4>1, ShortTail, Zenon
      <3>3. Idle'
        BY <1>4, <2>1, <2>2, <3>1, <3>2 DEF Idle
      <3> QED  BY <1>1, <1>2, <1>5, <3>3 DEF Serving
    <2>4. CASE boot.at = "greet" /\ Len(out) # 1
      <3>1. out' # <<>>
        BY <1>1, <2>4, LongTail, Zenon DEF TypeOK
      <3>2. Idle'
        BY <1>1, <1>4, <2>1, <2>2, <2>4, <3>1 DEF Idle
      <3> QED  BY <1>1, <1>2, <1>5, <3>2 DEF Serving
    <2>5. CASE boot.at # "greet"
      <3>1. boot.at = "wait" /\ out = <<Text>>
        BY <1>1, <2>1, <2>5 DEF Idle
      <3>2. boot' = boot /\ out' = <<>>
        BY <1>1, <3>1
      <3>3. Idle'
        BY <1>4, <2>1, <2>2, <3>1, <3>2 DEF Idle
      <3> QED  BY <1>1, <1>2, <1>5, <3>3 DEF Serving
    <2> QED  BY <2>3, <2>4, <2>5
  <1>6. CASE up.at \in {"done", "failed"}
    <2>1. boot' = boot
      BY <1>1, <1>6 DEF Serving, Ended
    <2> QED  BY <1>1, <1>2, <1>4, <1>6, <2>1 DEF Serving, Ended
  <1>7. ASSUME Answering, up.at \in {"contact", "answer"}
        PROVE  Answering' /\ boot' = boot
    <2>1. boot.at = "command" /\ Taken /\ out \in {<<Quest, Nl>>, <<Nl>>} /\ answers = 0
      BY <1>1, <1>7 DEF Answering
    <2>2. boot' = boot
      BY <1>1, <2>1
    <2>3. CASE out = <<Quest, Nl>>
      <3>1. out' = <<Nl>> /\ answers' = 0
        BY <1>1, <2>1, <2>3 DEF Quest, Nl
      <3> QED  BY <1>4, <2>1, <2>2, <3>1 DEF Answering
    <2>4. CASE out = <<Nl>>
      <3>1. out' = <<>> /\ answers' = 1
        BY <1>1, <1>7, <2>1, <2>4 DEF Listening
      <3> QED  BY <1>4, <2>1, <2>2, <3>1 DEF Answering
    <2> QED  BY <2>1, <2>3, <2>4
  <1>8. CASE up.at = "contact"
    <2>1. Contacting
      BY <1>8 DEF Serving
    <2>2. CASE Answering
      BY <1>1, <1>2, <1>4, <1>7, <1>8, <2>1, <2>2 DEF Serving, Contacting, Answering
    <2>3. CASE ~Answering
      <3>1. \/ boot.at = "wait" /\ out = <<Text>>
            \/ boot.at = "monitor" /\ out = <<Bang>>
        BY <1>1, <2>1, <2>3 DEF Contacting
      <3>2. boot' = boot /\ out' = <<>> /\ answers = 0
        BY <1>1, <2>1, <2>3, <3>1 DEF Contacting
      <3>3. answers' = 0
        BY <1>1, <3>1, <3>2 DEF Text, Bang, Nl
      <3>4. Contacting'
        BY <1>1, <1>4, <2>1, <2>3, <3>1, <3>2, <3>3 DEF Contacting
      <3> QED  BY <1>1, <1>2, <1>8, <3>4 DEF Serving
    <2> QED  BY <2>2, <2>3
  <1>9. CASE up.at = "answer"
    <2>1. Transferring
      BY <1>9 DEF Serving
    <2>2. PICK n \in 1 .. Len(file) : up.line = n /\ (Parsing(n) \/ (Answering /\ Stored(n)))
      BY <2>1 DEF Transferring
    <2>3. Answering /\ Stored(n)
      BY <1>1, <2>2 DEF Parsing
    <2>4. Transferring'
      BY <1>1, <1>4, <1>7, <1>9, <2>2, <2>3, StillTransferring
    <2> QED  BY <1>1, <1>2, <1>9, <2>4 DEF Serving
  <1>10. CASE up.at = "final"
    <2>1. Finishing
      BY <1>10 DEF Serving
    <2>2. Ended /\ boot' = boot
      BY <1>1, <2>1 DEF Finishing, Ended
    <2>3. Finishing'
      BY <1>1, <1>4, <2>1, <2>2 DEF Finishing, Ended
    <2> QED  BY <1>1, <1>2, <1>10, <2>3 DEF Serving
  <1> QED  BY <1>3, <1>5, <1>6, <1>8, <1>9, <1>10

\* BootStar: the boot wait goes on.
LEMMA StarStep ==
  ASSUME TypeOK, ~overrun, Serving, BootStar
  PROVE  ~overrun' /\ Serving'
  <1>1. /\ boot.at = "wait" /\ out = <<>> /\ out' = <<Text>>
        /\ UNCHANGED <<file, up, wire, answers, lost, rx, overrun, boot, mem, start>>
    BY Zenon DEF BootStar, Reading
  <1>2. (up.at = "idle" /\ Idle) \/ (up.at = "contact" /\ Contacting)
    BY <1>1, BootWaits
  <1>3. (\A n : Stored(n)' = Stored(n)) /\ Taken' = Taken
    BY <1>1, BoardSame, Zenon DEF Taken
  <1>4. CASE up.at = "idle"
    <2>1. Idle'
      BY <1>1, <1>2, <1>3, <1>4 DEF Idle
    <2> QED  BY <1>1, <1>4, <2>1 DEF Serving
  <1>5. CASE up.at = "contact"
    <2>1. up.line = 0 /\ answers = 0 /\ Unread(rx, wire, <<Bang>>, 1) /\ Stored(0)
      BY <1>1, <1>2, <1>5 DEF Contacting, Answering
    <2>2. Contacting'
      BY <1>1, <1>3, <2>1 DEF Contacting
    <2> QED  BY <1>1, <1>5, <2>2 DEF Serving
  <1> QED  BY <1>2, <1>4, <1>5

\* KeyHit: in the boot wait the only character that can come is upload's '!'.
LEMMA KeyStep ==
  ASSUME TypeOK, ~overrun, Serving, KeyHit
  PROVE  ~overrun' /\ Serving'
  <1>1. Getc({"wait"}) /\ boot.at = "wait" /\ rx.full /\ UNCHANGED <<mem, start>>
    BY Zenon DEF KeyHit, Getc
  <1>2. UNCHANGED <<file, up, answers, lost, overrun>>
    BY Zenon DEF KeyHit, Getc
  <1>3. up.at \in {"idle", "done", "failed", "contact", "answer", "final"}
    BY Zenon DEF TypeOK, Host, Reported
  <1>4. up.at \notin {"idle", "done", "failed", "final"}
    BY <1>1 DEF Serving, Idle, Taken, Finishing, Ended
  <1>5. up.at # "answer"
    BY <1>1 DEF Serving, Transferring, Answering, Parsing, IsAt, ReadsCount, ReadsAddress,
                ReadsByte, ReadsRest
  <1>6. up.at = "contact" /\ ~overrun
    BY <1>3, <1>4, <1>5 DEF Serving
  <1>7. up.line = 0 /\ answers = 0 /\ Unread(rx, wire, <<Bang>>, 1) /\ Stored(0)
    BY <1>1, <1>6 DEF Serving, Contacting, Answering
  <1>8. C = Bang /\ Taken'
    BY <1>1, <1>7, OneTaken, Characters
  <1>9. boot' = Go("command") /\ out' = <<Quest, Nl>>
    BY <1>8, Zenon DEF KeyHit, Acknowledge
  <1>10. boot'.at = "command"
    BY <1>9, PointNames, BootGo, Zenon DEF TypeOK, Has
  <1>11. Answering' /\ Stored(0)'
    BY <1>1, <1>2, <1>7, <1>8, <1>9, <1>10, BoardSame, Zenon DEF Answering
  <1>12. Contacting'
    BY <1>2, <1>7, <1>11, Zenon DEF Contacting
  <1> QED  BY <1>2, <1>6, <1>12 DEF Serving

\* Command: a line begins, or the upload ends.  'J' comes with everything stored.
LEMMA CommandStep ==
  ASSUME TypeOK, ~overrun, Serving, Command
  PROVE  /\ ~overrun'
         /\ Serving' \/ (boot'.at = "jumped" /\ Stored(Len(file))')
  <1>1. Getc({"command"}) /\ boot.at = "command" /\ rx.full /\ UNCHANGED <<mem, start>>
    BY Zenon DEF Command, Getc
  <1>2. UNCHANGED <<file, up, answers, lost, overrun>>
    BY Zenon DEF Command, Getc
  <1>3. up.at \in {"idle", "done", "failed", "contact", "answer", "final"}
    BY Zenon DEF TypeOK, Host, Reported
  <1>4. up.at \notin {"idle", "done", "failed"} /\ ~overrun
    BY <1>1 DEF Serving, Idle, Ended
  <1>5. up.at # "contact"
    BY <1>1 DEF Serving, Contacting, Answering, Taken
  <1>6. CASE up.at = "answer"
    <2>1. Transferring /\ ~Answering
      BY <1>1, <1>6 DEF Serving, Answering, Taken
    <2>2. PICK n \in 1 .. Len(file) : up.line = n /\ Parsing(n)
      BY <2>1 DEF Transferring
    <2>3. Parsing(n)'
      BY <2>2, ParseCommand, Zenon
    <2>4. Transferring'
      BY <1>2, <2>2, <2>3, StillTransferring
    <2> QED  BY <1>2, <1>4, <1>6, <2>4 DEF Serving
  <1>7. CASE up.at = "final"
    <2> DEFINE c == IF up.jump THEN LetterJ ELSE Hash
    <2>1. Stored(Len(file)) /\ Unread(rx, wire, <<c>>, 1)
      BY <1>1, <1>7, Zenon DEF Serving, Finishing, Ended
    <2>2. C = c /\ Taken'
      <3>1. c \in Nat
        BY Characters
      <3> HIDE DEF c
      <3> QED  BY <1>1, <2>1, <3>1, OneTaken
    <2>3. boot'.at = "monitor" \/ boot'.at = "jumped"
      <3>1. c \in {LetterJ, Hash} /\ c # LetterS
        BY DEF LetterS, LetterJ, Hash
      <3>2. boot' \in {Go("monitor"), Go("jumped")}
        BY <2>2, <3>1, Zenon DEF Command
      <3>3. Go("monitor").at = "monitor" /\ Go("jumped").at = "jumped"
        BY PointNames, BootGo, Zenon DEF TypeOK, Has
      <3> QED  BY <3>2, <3>3
    <2>5. Stored(Len(file))'
      <3>1. Stored(Len(file))' = Stored(Len(file))
        BY <1>1, <1>2, BoardSame
      <3> QED  BY <2>1, <3>1
    <2>6. CASE boot'.at = "monitor"
      <3>1. Finishing'
        BY <2>2, <2>5, <2>6, Zenon DEF Finishing, Ended
      <3> QED  BY <1>2, <1>7, <3>1 DEF Serving
    <2> QED  BY <1>2, <2>3, <2>5, <2>6
  <1> QED  BY <1>3, <1>4, <1>5, <1>6, <1>7

\* Monitor: '!' is echoed.
LEMMA MonitorStep ==
  ASSUME TypeOK, ~overrun, Serving, Monitor
  PROVE  ~overrun' /\ Serving'
  <1>1. Getc({"monitor"}) /\ boot.at = "monitor" /\ rx.full /\ UNCHANGED <<boot, mem, start>>
    BY Zenon DEF Monitor, Getc
  <1>2. UNCHANGED <<file, up, answers, lost, overrun>>
    BY Zenon DEF Monitor, Getc
  <1>3. up.at \in {"idle", "done", "failed", "contact", "answer", "final"}
    BY Zenon DEF TypeOK, Host, Reported
  <1>4. up.at \notin {"idle", "done", "failed", "final"}
    BY <1>1 DEF Serving, Idle, Ended, Taken, Finishing
  <1>5. up.at # "answer"
    BY <1>1 DEF Serving, Transferring, Answering, Parsing, IsAt, ReadsCount, ReadsAddress,
                ReadsByte, ReadsRest
  <1>6. up.at = "contact" /\ ~overrun
    BY <1>3, <1>4, <1>5 DEF Serving
  <1>7. up.line = 0 /\ answers = 0 /\ Unread(rx, wire, <<Bang>>, 1)
    BY <1>1, <1>6 DEF Serving, Contacting, Answering, Taken
  <1>8. C = Bang /\ Taken'
    BY <1>1, <1>7, OneTaken, Characters
  <1>9. out' = <<Bang>>
    BY <1>8 DEF Monitor, Bang, Nl
  <1>10. Contacting'
    BY <1>1, <1>2, <1>7, <1>8, <1>9, Zenon DEF Contacting
  <1> QED  BY <1>2, <1>6, <1>10 DEF Serving

\* Start: upload writes its '!' to a board that waits for it, or to the monitor.
LEMMA StartStep ==
  ASSUME TypeOK, ~overrun, Serving, Start, ~Early, ~Running
  PROVE  ~overrun' /\ Serving'
  <1>1. /\ ~Listening /\ (runs > 0 => Quiet) /\ boot.at # "greet"
        /\ up'.at = "contact" /\ up'.line = 0
        /\ wire' = Append(wire, Bang) /\ answers' = 0
        /\ UNCHANGED <<file, lost, rx, overrun, out, boot, mem, start>>
    BY DEF Start, Target
  <1>2. up.at \in {"idle", "done", "failed"}
    BY <1>1, Zenon DEF TypeOK, Host, Reported, Listening
  <1>3. (\A n : Stored(n)' = Stored(n)) /\ ~overrun
    BY <1>1, BoardSame DEF Serving
  <1>4. Taken => Unread(rx', wire', <<Bang>>, 1)
    <2> SUFFICES ASSUME Taken
                 PROVE  Unread(rx', wire', <<Bang>>, 1)
      OBVIOUS
    <2>1. wire' = <<Bang>> /\ ~rx'.full
      BY <1>1 DEF Taken
    <2>2. <<Bang>> \in Seq(Nat) /\ <<Bang>> # <<>>
      BY Characters
    <2> QED  BY <2>1, <2>2, UnreadWritten
  <1>5. CASE up.at = "idle"
    <2>1. /\ boot.at = "wait" /\ Taken /\ Stored(0) /\ out \in {<<>>, <<Text>>}
      BY <1>1, <1>5 DEF Serving, Idle, Running
    <2>2. Contacting'
      BY <1>1, <1>3, <1>4, <2>1 DEF Contacting
    <2> QED  BY <1>1, <1>3, <2>2 DEF Serving
  <1>6. CASE up.at # "idle"
    <2>1. out = <<>>
      BY <1>1, <1>6 DEF TypeOK, Quiet
    <2>2. boot.at = "monitor" /\ Taken
      BY <1>1, <1>2, <1>6 DEF Serving, Ended, Running
    <2>3. Contacting'
      BY <1>1, <1>4, <2>1, <2>2 DEF Contacting
    <2> QED  BY <1>1, <1>3, <2>3 DEF Serving
  <1> QED  BY <1>5, <1>6

\* Timeout: upload gives up only when the board has gone on without it.
LEMMA TimeoutStep ==
  ASSUME TypeOK, ~overrun, Serving, Timeout
  PROVE  ~overrun' /\ Serving'
  <1>1. /\ Listening /\ answers = 0 /\ wire = <<>> /\ out = <<>> /\ (~Running => ~rx.full)
        /\ boot.at \notin {"greet", "wait"}
        /\ UNCHANGED <<file, wire, answers, lost, rx, overrun, out, boot, mem, start>>
    BY Zenon DEF Timeout, MayTimeOut, Quiet, Reading, Target
  <1>2. up'.at = "failed"
    <2>1. up' = [up EXCEPT !.at = "failed"] /\ up \in Host
      BY Zenon DEF Timeout, TypeOK
    <2> QED  BY <2>1 DEF Host
  <1>3. up.at \in {"contact", "answer", "final"} /\ ~overrun
    BY <1>1 DEF Listening, Serving
  <1>4. ~Answering
    BY <1>1 DEF Answering
  <1>5. ASSUME NEW line \in Seq(Nat), NEW p \in Nat, Unread(rx, wire, line, p)
        PROVE  Running
    BY <1>1, <1>5, UnreadIsThere DEF TypeOK
  <1>6. Ended
    <2>1. CASE up.at = "contact"
      <3>1. <<Bang>> \in Seq(Nat) /\ 1 \in Nat
        BY Characters
      <3>2. Unread(rx, wire, <<Bang>>, 1) => Running
        BY <1>5, <3>1
      <3> QED  BY <1>1, <1>4, <2>1, <3>2 DEF Serving, Contacting, Running, Ended
    <2>2. CASE up.at = "answer"
      <3>1. PICK n \in 1 .. Len(file) : Parsing(n)
        BY <1>4, <2>2 DEF Serving, Transferring
      <3>2. PICK p \in 1 .. Len(Line(file[n])) : Unread(rx, wire, Line(file[n]), p) /\ IsAt(n, p)
        BY <3>1, Zenon DEF Parsing
      <3>3. Line(file[n]) \in Seq(Nat) /\ p \in Nat
        BY FileFacts
      <3>4. Running
        BY <1>5, <3>2, <3>3
      <3>5. ~Running
        BY <3>2 DEF Running, IsAt, ReadsCount, ReadsAddress, ReadsByte, ReadsRest
      <3> QED  BY <3>4, <3>5
    <2>3. CASE up.at = "final"
      <3> DEFINE c == IF up.jump THEN LetterJ ELSE Hash
      <3>1. Ended \/ (boot.at = "command" /\ Unread(rx, wire, <<c>>, 1))
        BY <2>3, Zenon DEF Serving, Finishing
      <3>2. <<c>> \in Seq(Nat) /\ 1 \in Nat
        BY Characters
      <3> HIDE DEF c
      <3>3. Unread(rx, wire, <<c>>, 1) => Running
        BY <1>5, <3>2
      <3> QED  BY <3>1, <3>3 DEF Running
    <2> QED  BY <1>3, <2>1, <2>2, <2>3
  <1>7. Ended' = Ended
    BY <1>1 DEF Ended, Taken
  <1> QED  BY <1>1, <1>2, <1>3, <1>6, <1>7 DEF Serving

\* A line is not empty.
LEMMA LineIsThere ==
  ASSUME TypeOK, NEW n \in 1 .. Len(file)
  PROVE  /\ Line(file[n]) \in Seq(Nat) /\ Line(file[n]) # <<>>
         /\ 1 \in 1 .. Len(Line(file[n]))
  <1> DEFINE L == Line(file[n])
             w == AddrDigits(file[n].type)
             size == Len(file[n].data)
  <1>1. L \in Seq(Nat) /\ w \in {4, 6, 8} /\ size \in Nat /\ Len(L) = 7 + w + 2 * size
    BY FileLine
  <1> HIDE DEF L, w, size
  <1>2. 1 \in 1 .. Len(L) /\ Len(L) # 0
    BY SMT, <1>1
  <1>3. L # <<>>
    BY <1>2, EmptySeq
  <1> QED  BY <1>1, <1>2, <1>3 DEF L

\* ReadNewline: the next line, or the end marker, follows the answer.
LEMMA NewlineStep ==
  ASSUME TypeOK, ~overrun, Serving, ReadNewline
  PROVE  ~overrun' /\ Serving'
  <1>1. /\ Listening /\ answers > 0 /\ answers' = answers - 1
        /\ UNCHANGED <<file, lost, rx, overrun, out, boot, mem, start>>
    BY Zenon DEF ReadNewline, Target
  <1>2. up.at \in {"contact", "answer", "final"} /\ ~overrun
    BY <1>1 DEF Listening, Serving
  <1>3. /\ file \in Seq(Record) /\ Len(file) \in Nat /\ up \in Host /\ up.line \in Nat
        /\ up.line <= Len(file) /\ answers \in Nat
    BY FileFacts DEF TypeOK, Host
  <1>4. \A n : Stored(n)' = Stored(n)
    BY <1>1, BoardSame
  <1>5. CASE up.at = "final"
    <2>1. up'.at = "done" /\ wire' = wire
      BY <1>3, <1>5 DEF ReadNewline, Host
    <2>2. Ended /\ Stored(Len(file))
      BY <1>1, <1>3, <1>5 DEF Serving, Finishing
    <2>3. Ended' /\ Stored(Len(file))'
      BY <1>1, <1>4, <2>1, <2>2 DEF Ended, Taken
    <2> QED  BY <1>1, <1>2, <2>1, <2>3 DEF Serving
  <1>6. CASE up.at # "final"
    <2>1. Answering /\ Stored(up.line)
      <3>1. CASE up.at = "contact"
        BY <1>1, <1>3, <3>1 DEF Serving, Contacting
      <3>2. CASE up.at = "answer"
        BY <1>1, <1>3, <3>2 DEF Serving, Transferring, Parsing
      <3> QED  BY <1>2, <1>6, <3>1, <3>2
    <2>2. boot.at = "command" /\ Taken /\ out = <<>> /\ answers' = 0
      BY <1>1, <1>3, <2>1 DEF Answering
    <2>3. CASE up.line < Len(file)
      <3> DEFINE n == up.line + 1
      <3>1. n \in 1 .. Len(file) /\ n - 1 = up.line
        BY <1>3, <2>3
      <3>2. up' = [up EXCEPT !.at = "answer", !.line = @ + 1] /\ wire' = wire \o Line(file[n])
        BY <1>6, <2>3, <1>3 DEF ReadNewline
      <3>3. up'.at = "answer" /\ up'.line = n
        BY <1>3, <3>2 DEF Host
      <3> HIDE DEF n
      <3>4. Line(file[n]) \in Seq(Nat) /\ Line(file[n]) # <<>> /\ 1 \in 1 .. Len(Line(file[n]))
        BY <3>1, LineIsThere
      <3>5. wire' = Line(file[n])
        <4>1. wire = <<>>
          BY <2>2 DEF Taken
        <4> QED  BY <3>2, <3>4, <4>1, ConcatEmptySeq
      <3>6. Unread(rx', wire', Line(file'[n]), 1)
        <4>1. ~rx'.full
          BY <1>1, <2>2 DEF Taken
        <4> QED  BY <1>1, <3>4, <3>5, <4>1, UnreadWritten
      <3>7. PICK k : k = n
        OBVIOUS
      <3>8. Parsing(k)'
        <4>1. mem' = Contents(Places(k - 1, 0))' /\ start' = Entry(k - 1)'
          <5>1. mem = Contents(Places(k - 1, 0)) /\ start = Entry(k - 1)
            BY <2>1, <3>1, <3>7 DEF Stored
          <5> QED  BY <1>1, <5>1, FileSame
        <4>2. IsAt(k, 1)'
          BY <1>1, <2>2, <4>1, Zenon DEF IsAt
        <4>3. 1 \in 1 .. Len(Line(file'[k])) /\ Unread(rx', wire', Line(file'[k]), 1)
          BY <1>1, <3>4, <3>6, <3>7, Zenon
        <4> QED  BY <1>1, <2>2, <4>1, <4>2, <4>3, Zenon DEF Parsing
      <3>9. Transferring'
        <4>1. k = up'.line
          BY <3>3, <3>7
        <4>2. Parsing(up.line)'
          BY <3>8, <4>1
        <4>3. up'.line \in 1 .. Len(file')
          BY <1>1, <3>1, <3>3
        <4> QED  BY <4>2, <4>3 DEF Transferring
      <3> QED  BY <1>1, <1>2, <3>3, <3>9 DEF Serving
    <2>4. CASE up.line = Len(file)
      <3> DEFINE c == IF up.jump THEN LetterJ ELSE Hash
      <3>1. up' = [up EXCEPT !.at = "final"] /\ wire' = Append(wire, c)
        BY <1>3, <1>6, <2>4 DEF ReadNewline
      <3>2. up'.at = "final" /\ up'.jump = up.jump
        BY <1>3, <3>1 DEF Host
      <3>3. Unread(rx', wire', <<c>>, 1)
        <4>1. c \in Nat
          BY Characters
        <4> HIDE DEF c
        <4>2. wire' = <<c>> /\ ~rx'.full
          BY <1>1, <2>2, <3>1 DEF Taken
        <4>3. <<c>> \in Seq(Nat) /\ <<c>> # <<>>
          BY <4>1
        <4> QED  BY <4>2, <4>3, UnreadWritten
      <3>4. Stored(Len(file))'
        BY <1>1, <1>4, <2>1, <2>4
      <3>5. Unread(rx', wire', <<IF up'.jump THEN LetterJ ELSE Hash>>, 1)
        BY <3>2, <3>3, Zenon
      <3>6. Finishing'
        BY <1>1, <2>2, <3>4, <3>5, Zenon DEF Finishing
      <3> QED  BY <1>1, <1>2, <3>2, <3>6 DEF Serving
    <2> QED  BY <1>3, <2>3, <2>4
  <1> QED  BY <1>5, <1>6

\* A step that changes nothing.
LEMMA StutterStep ==
  ASSUME TypeOK, ~overrun, Serving, UNCHANGED vars
  PROVE  ~overrun' /\ Serving'
  <1>1. UNCHANGED <<file, up, wire, answers, lost, rx, overrun, out, boot, mem, start>>
    BY DEF vars
  <1>2. (\A n : Stored(n)' = Stored(n)) /\ (\A n, p : IsAt(n, p)' = IsAt(n, p))
    BY <1>1, BoardSame, Zenon
  <1>3. Taken' = Taken /\ Ended' = Ended /\ Answering' = Answering
    BY <1>1, Zenon DEF Taken, Ended, Answering
  <1>4. Idle' = Idle
    BY <1>1, <1>2, <1>3, Zenon DEF Idle
  <1>5. Contacting' = Contacting
    BY <1>1, <1>2, <1>3, Zenon DEF Contacting
  <1>6. Stored(Len(file))' = Stored(Len(file))
    BY <1>1, <1>2
  <1>7. Finishing' = Finishing
    BY <1>1, <1>3, <1>6, Zenon DEF Finishing
  <1>8. Transferring => Transferring'
    <2> SUFFICES ASSUME Transferring
                 PROVE  Transferring'
      OBVIOUS
    <2>1. PICK n \in 1 .. Len(file) : up.line = n /\ (Parsing(n) \/ (Answering /\ Stored(n)))
      BY DEF Transferring
    <2>2. Parsing(n)' = Parsing(n)
      <3>1. Entry(n - 1)' = Entry(n - 1)
        BY <1>1, FileSame
      <3> QED  BY <1>1, <1>2, <3>1, Zenon DEF Parsing
    <2> QED  BY <1>1, <1>2, <1>3, <2>1, <2>2, StillTransferring
  <1> QED  BY <1>1, <1>3, <1>4, <1>5, <1>6, <1>7, <1>8 DEF Serving

\* A board that serves upload runs no application.
LEMMA ServingIsNotRunning ==
  ASSUME TypeOK, Serving
  PROVE  ~Running
  <1>1. up.at \in {"idle", "done", "failed", "contact", "answer", "final"}
    BY Zenon DEF TypeOK, Host, Reported
  <1>2. CASE up.at \in {"idle", "done", "failed"}
    BY <1>2 DEF Serving, Idle, Ended, Running
  <1>3. CASE up.at = "contact"
    BY <1>3 DEF Serving, Contacting, Answering, Running
  <1>4. CASE up.at = "answer"
    BY <1>4 DEF Serving, Transferring, Answering, Parsing, IsAt, ReadsCount, ReadsAddress,
                ReadsByte, ReadsRest, Running
  <1>5. CASE up.at = "final"
    BY <1>5 DEF Serving, Finishing, Ended, Running
  <1> QED  BY <1>1, <1>2, <1>3, <1>4, <1>5

\* Once the application runs, the bootloader does nothing any more, whatever upload
\* writes and the application prints.
LEMMA RunningStep ==
  ASSUME TypeOK, Running, [Next]_vars
  PROVE  UNCHANGED <<file, boot, mem, start, overrun>>
  <1>1. CASE Arrive
    <2>1. overrun' = (overrun \/ (rx.full /\ ~Running)) /\ overrun \in BOOLEAN
      BY <1>1, Zenon DEF Arrive, TypeOK
    <2> QED  BY <1>1, <2>1 DEF Arrive
  <1>2. CASE SendChar
    <2>1. boot.at # "greet"
      BY DEF Running
    <2> QED  BY <1>2, <2>1 DEF SendChar
  <1>3. ~Reading
    BY DEF Reading
  <1>4. ~(\/ BootStar \/ BootExpires \/ KeyHit \/ Command \/ RecordType \/ ReadDigit \/ EndCount
          \/ EndAddress \/ EndByte \/ EndSkippedCount \/ EndEntry \/ RestOfLine \/ Monitor)
    BY <1>3, Zenon DEF BootStar, BootExpires, KeyHit, Command, RecordType, ReadDigit, EndCount,
                EndAddress, EndByte, EndSkippedCount, EndEntry, RestOfLine, Monitor, Getc
  <1>5. CASE Lose \/ ApplicationPrints \/ Upload \/ UNCHANGED vars
    BY <1>5, Zenon DEF Lose, ApplicationPrints, Upload, Start, ReadNewline, Timeout, Target, vars
  <1> QED  BY <1>1, <1>2, <1>4, <1>5 DEF Next, Bootloader

\* The board starts the application: after the boot wait, with nothing stored, or for
\* upload's 'J', with everything.
LEMMA ExpiryStep ==
  ASSUME TypeOK, Serving, BootExpires
  PROVE  boot'.at = "expired" /\ Stored(0)' /\ overrun' = overrun
  <1>1. boot.at = "wait" /\ UNCHANGED <<file, mem, start, overrun>>
    BY Zenon DEF BootExpires
  <1>2. boot'.at = "expired"
    BY PointNames, BootGo, Zenon DEF BootExpires, TypeOK, Has
  <1>3. Stored(0)' = Stored(0) /\ Stored(0)
    BY <1>1, BoardSame, BootWaits
  <1> QED  BY <1>1, <1>2, <1>3

\* Every step keeps host and board in step, if the upload is started after the
\* greeting.
LEMMA InStepNext == ASSUME ~Early PROVE TypeOK /\ InStep /\ [Next]_vars => InStep'
  <1> SUFFICES ASSUME TypeOK, InStep, [Next]_vars
               PROVE  InStep'
    OBVIOUS
  <1>1. CASE lost # 0
    <2>1. lost \in Nat
      BY DEF TypeOK
    <2>2. lost' = lost \/ lost' = lost + 1
      BY DEF Next, Arrive, Lose, Bootloader, SendChar, BootStar, BootExpires, KeyHit, Command,
             RecordType, ReadDigit, EndCount, EndAddress, EndByte, EndSkippedCount, EndEntry,
             RestOfLine, Monitor, ApplicationPrints, Upload, Start, ReadNewline, Timeout, Getc,
             Target, vars
    <2>3. lost' # 0
      BY <1>1, <2>1, <2>2
    <2> QED  BY <2>3 DEF InStep
  <1>2. CASE lost = 0 /\ Running
    <2>1. ~overrun /\ Departed
      BY <1>2 DEF InStep
    <2>2. UNCHANGED <<file, boot, mem, start, overrun>>
      BY <1>2, RunningStep
    <2>3. \A n : Stored(n)' = Stored(n)
      BY <2>2, BoardSame, Zenon
    <2>4. Running' /\ Departed'
      BY <1>2, <2>1, <2>2, <2>3, Zenon DEF Running, Departed
    <2> QED  BY <2>1, <2>2, <2>4 DEF InStep
  <1>3. CASE lost = 0 /\ ~Running
    <2>0. ~overrun /\ Serving
      BY <1>3 DEF InStep
    <2>a. ASSUME ~overrun', Serving'
          PROVE  InStep'
      <3>1. TypeOK'
        BY TypeNext
      <3>2. (TypeOK /\ Serving => ~Running)'
        BY ServingIsNotRunning, PTL
      <3> QED  BY <2>a, <3>1, <3>2 DEF InStep
    <2>1. CASE Lose
      <3>1. lost' # 0
        BY <1>3, <2>1 DEF Lose
      <3> QED  BY <3>1 DEF InStep
    <2>2. CASE Arrive
      BY <2>0, <2>2, <2>a, ArriveStep
    <2>3. CASE SendChar
      BY <2>0, <2>3, <2>a, SendStep
    <2>4. CASE BootStar
      BY <2>0, <2>4, <2>a, StarStep
    <2>5. CASE BootExpires
      <3>1. boot'.at = "expired" /\ Stored(0)' /\ ~overrun'
        BY <2>0, <2>5, ExpiryStep
      <3> QED  BY <3>1 DEF InStep, Running, Departed
    <2>6. CASE KeyHit
      BY <2>0, <2>6, <2>a, KeyStep
    <2>7. CASE Command
      <3>1. ~overrun' /\ (Serving' \/ (boot'.at = "jumped" /\ Stored(Len(file))'))
        BY <2>0, <2>7, CommandStep
      <3>2. CASE Serving'
        BY <2>a, <3>1, <3>2
      <3>3. CASE boot'.at = "jumped" /\ Stored(Len(file))'
        BY <3>1, <3>3 DEF InStep, Running, Departed
      <3> QED  BY <3>1, <3>2, <3>3
    <2>8. CASE RecordType
      <3>1. Getc({"type"}) /\ boot.at = "type"
        BY <2>8, Zenon DEF RecordType, Getc
      <3> QED  BY <2>0, <2>8, <2>a, <3>1, ParseType, LineStep
    <2>9. CASE ReadDigit
      <3>1. /\ Getc({"count", "skipcount", "address", "entry", "byte"})
            /\ boot.at \in {"count", "skipcount", "address", "entry", "byte"}
        BY <2>9, Zenon DEF ReadDigit, Getc
      <3> QED  BY <2>0, <2>9, <2>a, <3>1, ParseDigit, LineStep
    <2>10. CASE EndCount \/ EndSkippedCount
      <3>1. PICK at : Getc(at) /\ boot.at \in {"count", "skipcount"}
        BY <2>10, Zenon DEF EndCount, EndSkippedCount, Getc
      <3> QED  BY <2>0, <2>10, <2>a, <3>1, ParseCount, LineStep
    <2>11. CASE EndAddress
      <3>1. Getc({"address"}) /\ boot.at = "address"
        BY <2>11, Zenon DEF EndAddress, Getc
      <3> QED  BY <2>0, <2>11, <2>a, <3>1, ParseAddress, LineStep
    <2>12. CASE EndByte
      <3>1. Getc({"byte"}) /\ boot.at = "byte"
        BY <2>12, Zenon DEF EndByte, Getc
      <3> QED  BY <2>0, <2>12, <2>a, <3>1, ParseByte, LineStep
    <2>13. CASE EndEntry
      <3>1. Getc({"entry"}) /\ boot.at = "entry"
        BY <2>13, Zenon DEF EndEntry, Getc
      <3> QED  BY <2>0, <2>13, <2>a, <3>1, ParseEntry, LineStep
    <2>14. CASE RestOfLine
      <3>1. Getc({"eol", "starteol"}) /\ boot.at \in {"eol", "starteol"}
        BY <2>14, Zenon DEF RestOfLine, Getc
      <3> QED  BY <2>0, <2>14, <2>a, <3>1, ParseRest, LineStep
    <2>15. CASE Monitor
      BY <2>0, <2>15, <2>a, MonitorStep
    <2>16. ~ApplicationPrints
      BY <1>3 DEF ApplicationPrints
    <2>17. CASE Start
      BY <1>3, <2>0, <2>17, <2>a, StartStep
    <2>18. CASE ReadNewline
      BY <2>0, <2>18, <2>a, NewlineStep
    <2>19. CASE Timeout
      BY <2>0, <2>19, <2>a, TimeoutStep
    <2>20. CASE UNCHANGED vars
      BY <2>0, <2>20, <2>a, StutterStep
    <2> QED  BY <2>1, <2>2, <2>3, <2>4, <2>5, <2>6, <2>7, <2>8, <2>9, <2>10, <2>11, <2>12, <2>13,
               <2>14, <2>15, <2>16, <2>17, <2>18, <2>19, <2>20 DEF Next, Bootloader, Upload
  <1> QED  BY <1>1, <1>2, <1>3

-----------------------------------------------------------------------------
(* The theorems *)

\* The bytes of line n, some or all.
LEMMA PartOfLine ==
  ASSUME TypeOK, NEW n \in 1 .. Len(file)
  PROVE  \E m \in 0 .. 16 : Contents(Places(n - 1, m)) = Contents(Places(n, 0))
  <1> DEFINE size == Len(file[n].data)
  <1>1. size \in 0 .. 16
    <2>1. size \in Nat /\ Fits(file[n])
      BY FileLine
    <2> DEFINE r == file[n]
    <2> HIDE DEF r
    <2>2. Len(r.data) <= 16
      BY SMT, <2>1 DEF Fits, r
    <2>3. size <= 16
      BY <2>2 DEF r
    <2> HIDE DEF size
    <2> QED  BY SMT, <2>1, <2>3
  <1>2. CASE IsData(file[n])
    <2>1. Places(n - 1, size) = Places(n, 0)
      BY <1>2, FileFacts, LineStored, Zenon
    <2> QED  BY <1>1, <2>1, Zenon
  <1>3. CASE ~IsData(file[n])
    <2>1. Places(n - 1, 0) = Places(n, 0) /\ 0 \in 0 .. 16
      BY <1>3, FileFacts, LineStored
    <2> QED  BY <2>1, Zenon
  <1> QED  BY <1>2, <1>3

\* While a line is read, exactly the lines before it and a part of it are stored.
LEMMA ParsingStores ==
  ASSUME TypeOK, NEW n \in 1 .. Len(file), Parsing(n) \/ Stored(n)
  PROVE  \E m \in 0 .. 16 : mem = Contents(Places(n - 1, m))
  <1>1. CASE mem = Contents(Places(n, 0))
    BY <1>1, PartOfLine
  <1>2. CASE mem = Contents(Places(n - 1, 0))
    <2>1. 0 \in 0 .. 16
      OBVIOUS
    <2> QED  BY <1>2, <2>1
  <1>3. CASE \E p : ReadsByte(n, p)
    <2> DEFINE size == Len(file[n].data)
               b    == boot.bytes
    <2>1. b \in 1 .. size /\ mem = Contents(Places(n - 1, size - b))
      BY <1>3, Zenon DEF ReadsByte
    <2>2. size - b \in 0 .. 16
      <3>1. size \in Nat /\ Fits(file[n])
        BY FileLine
      <3> DEFINE r == file[n]
      <3> HIDE DEF r
      <3>2. Len(r.data) <= 16
        BY SMT, <3>1 DEF Fits, r
      <3>3. size <= 16
        BY <3>2 DEF r
      <3> HIDE DEF size, b
      <3> QED  BY SMT, <2>1, <3>1, <3>3
    <2> HIDE DEF size, b
    <2> QED  BY <2>1, <2>2
  <1> QED  BY <1>1, <1>2, <1>3 DEF Parsing, Stored, IsAt, ReadsCount, ReadsAddress, ReadsRest

\* Host, line and board keep their types.
THEOREM TypeCorrect == Spec => []TypeOK
  <1> QED  BY TypeInit, TypeNext, PTL DEF Spec

\* upload.c, bootloader.c: host and board stay in step.
THEOREM StayInStep == ASSUME ~Early PROVE Spec => []InStep
  <1>1. TypeOK /\ InStep /\ [Next]_vars => InStep'
    BY InStepNext
  <1> QED  BY <1>1, InStepInit, TypeCorrect, PTL DEF Spec

\* bootloader.c, upload.c: upload writes a line only when the bootloader has said
\* "?\n", and the bootloader reads until it has the newline of the line; so no
\* character is overwritten in the USART's receive register, however many could
\* arrive while the board sends one.
THEOREM KeptOnTheWay == ASSUME ~Early PROVE Spec => []NothingOverwritten
  <1>1. InStep => NothingOverwritten
    BY DEF InStep, NothingOverwritten
  <1> QED  BY <1>1, StayInStep, PTL

\* bootloader.c, upload.c: the file is stored line by line, each byte at its address
\* and no byte elsewhere, and app_start is the address of the last end record.  The
\* application that 'J' starts has all of it, one that is started after the boot wait
\* nothing, however many of its newlines upload takes for answers.
THEOREM FileIsStored == ASSUME ~Early PROVE Spec => []AnsweredIsStored
  <1>1. TypeOK /\ InStep => AnsweredIsStored
    <2> SUFFICES ASSUME TypeOK, InStep, lost = 0
                 PROVE  AnsweredIsStored
      BY DEF AnsweredIsStored
    <2>1. CASE Running
      <3>1. boot.at = "jumped" => mem = Image /\ start = Entry(Len(file))
        BY <2>1, Zenon DEF InStep, Departed, Stored, Image
      <3>2. boot.at = "expired" => mem = <<>> /\ start = 0
        <4>1. boot.at = "expired" => Stored(0)
          BY <2>1 DEF InStep, Departed
        <4> QED  BY <4>1, NothingStored, Zenon DEF Stored
      <3> QED  BY <2>1, <3>1, <3>2 DEF AnsweredIsStored
    <2>2. CASE ~Running
      <3>1. Serving /\ boot.at # "jumped" /\ boot.at # "expired"
        BY <2>2 DEF InStep, Running
      <3>2. up.at = "answer" => mem \in {Contents(Places(up.line - 1, m)) : m \in 0 .. 16}
        <4>1. SUFFICES ASSUME up.at = "answer"
                       PROVE  mem \in {Contents(Places(up.line - 1, m)) : m \in 0 .. 16}
          OBVIOUS
        <4>2. PICK n \in 1 .. Len(file) : up.line = n /\ (Parsing(n) \/ Stored(n))
          BY <3>1, <4>1 DEF Serving, Transferring
        <4>3. \E m \in 0 .. 16 : mem = Contents(Places(n - 1, m))
          BY <4>2, ParsingStores
        <4> QED  BY <4>2, <4>3
      <3>3. up.at \in {"final", "done"} => mem = Image /\ start = Entry(Len(file))
        BY <3>1 DEF Serving, Finishing, Stored, Image
      <3> QED  BY <3>1, <3>2, <3>3 DEF AnsweredIsStored
    <2> QED  BY <2>1, <2>2
  <1> QED  BY <1>1, StayInStep, TypeCorrect, PTL
=============================================================================
