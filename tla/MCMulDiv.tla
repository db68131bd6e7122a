------------------------------ MODULE MCMulDiv ------------------------------
(***************************************************************************)
(* Operands for the model checker: all of them, and for operations that    *)
(* follow one another the ends of the ranges of words.                     *)
(***************************************************************************)
EXTENDS MulDiv

Powers == [k \in 0 .. Width |-> 2 ^ k]

EveryOperation == [op : 0 .. 7, a : Word, b : Word]

Ends == {0, 1, Half - 1, Half, Modulus - 1}
EndOperations == [op : 0 .. 7, a : Ends, b : Ends]
=============================================================================
