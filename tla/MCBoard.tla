------------------------------ MODULE MCBoard ------------------------------
(***************************************************************************)
(* A small program for the model checker: text at 0 .. 4, initialised data *)
(* at 8 and 9, and its S-record files.                                     *)
(***************************************************************************)
EXTENDS Board

Bytes == [a \in 0 .. 4 \cup {8, 9} |->
            CASE a = 8 -> 2 [] a = 9 -> 1 [] OTHER -> 171 + a]

Pair(v) == <<Digits[(v \div 16) + 1], Lower[(v % 16) + 1]>>

DataRecord(type, base, from, to) ==
  LET n == AddressBytes(type)
      bytes == <<n + 2 + to - from>> \o [i \in 1 .. n |-> ByteOf(base + from, n - i)]
                 \o [i \in 1 .. to - from + 1 |-> Bytes[from + i - 1]] \o <<165>>
  IN [type |-> type, bytes |-> [i \in DOMAIN bytes |-> Pair(bytes[i])]]

Other(type) == [type |-> type, bytes |-> <<Pair(4), Pair(0), Pair(0), Pair(72), Pair(180)>>]

BootRom == 268435456
Origins == {0, BootRom}

Cuts == {<<<<0, 4>>, <<8, 9>>>>, <<<<0, 1>>, <<2, 4>>, <<8, 9>>>>,
         <<<<0, 3>>, <<4, 4>>, <<8, 8>>, <<9, 9>>>>}

FileOf(cut, types, base) ==
  <<Other("0")>> \o [i \in DOMAIN cut |-> DataRecord(types[i], base, cut[i][1], cut[i][2])]
    \o <<Other("no"), Other("9")>>

SrecFiles ==
  UNION {{FileOf(cut, [i \in DOMAIN cut |-> type], 0) : type \in {"1", "2", "3"}}
           \cup {FileOf(cut, [i \in DOMAIN cut |-> IF i = 1 THEN "2" ELSE "1"], 0)}
           \cup {FileOf(cut, [i \in DOMAIN cut |-> "3"], BootRom)} : cut \in Cuts}

Command(tool, options, infile, outfile) ==
  [tool |-> tool, options |-> options, infile |-> infile, outfile |-> outfile]
Shell == {
  Command("srec2vhdl", <<"w", "f">>, "program.srec", "rom.vhd"),
  Command("srec2vhdl", <<"h", "0">>, "program.srec", ""),
  Command("srec2vhdl", <<"w", "b", "q">>, "program.srec", "rom.vhd"),
  Command("srec2vhdl", <<"w", "z">>, "program.srec", "rom.vhd"),
  Command("srec2vhdl", <<"w">>, "program.srec", "program.srec"),
  Command("srec2vhdl", <<"w">>, "missing.srec", ""),
  Command("srec2mif", <<"v">>, "program.srec", "rom.mif"),
  Command("srec2mif", <<>>, "program.srec", "unwritable"),
  Command("srec2mif", <<"f">>, "program.srec", "")}

\* Every digit in one of the places; some of the other inputs are set.
Switches == {1, 35, 69, 103, 256 + 137, 171, 205, 512 + 239}

Call(id, a0, a1) == [id |-> id, a0 |-> a0, a1 |-> a1]
Calls_ == {
  Call("brk", 0, 0), Call("brk", 20, 0), Call("brk", 21, 0), Call("read", 0, 2),
  Call("write", 1, 2), Call("fstat", 1, 1), Call("unlink", 1, 0)}
=============================================================================
