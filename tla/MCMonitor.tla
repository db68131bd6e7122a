----------------------------- MODULE MCMonitor -----------------------------
(***************************************************************************)
(* Commands for the model checker.                                         *)
(***************************************************************************)
EXTENDS Monitor

Peeks(width, a, ds) ==
  [line |-> <<"r", width, " ">> \o ds, op |-> "r", width |-> Width[width],
   addr |-> a, data |-> <<>>]
Pokes(width, a, ds, data) ==
  [line |-> <<"w", width, " ">> \o ds \o <<" ">> \o data, op |-> "w",
   width |-> Width[width], addr |-> a, data |-> data]
PokeWithoutData(width, a, ds) == [Peeks(width, a, ds) EXCEPT !.line[1] = "w", !.op = "w"]
Other(line) == [line |-> line, op |-> "other", width |-> 1, addr |-> 0, data |-> <<>>]

Alphabet == HexDigits \cup {"r", "w", "h", "l", "n", " "}

TypedCommands == {
  Peeks("w", 4, <<"4">>), Peeks("h", 6, <<"6">>), Peeks("b", 11, <<"b">>),
  Peeks("w", 2, <<"2">>),
  Pokes("w", 4, <<"4">>, <<"1", "2">>),
  Pokes("w", 0, <<"0">>, <<"9", "1", "2", "3", "4", "5", "6", "7", "f">>),
  Pokes("h", 10, <<"0", "a">>, <<"1", "2", "3", "4", "5">>),
  Pokes("b", 7, <<"7">>, <<"a", "b", "c">>),
  Pokes("w", 6, <<"6">>, <<"1">>),
  PokeWithoutData("w", 4, <<"4">>),
  Other(<<>>), Other(<<"b">>), Other(<<"l">>), Other(<<"w", "w">>),
  Other(<<"r", "r", "r">>), Other(<<"d", "w", " ", "0">>), Other(<<"n">>)}

Anything == {<<>>, <<"f">>}
=============================================================================
