------------------------------ MODULE MCUsart ------------------------------
(***************************************************************************)
(* Formats, speeds, characters and spikes for the model checker.           *)
(***************************************************************************)
EXTENDS Usart

Line(modes, from, to, spikes, patience) ==
  [modes |-> modes, tx |-> from, rx |-> to, spikes |-> spikes, patience |-> patience]

\* More than the longest frame has.
Slow == 400

CleanModes == [size : 7 .. 9, parity : {"none", "even"}, stop : 1 .. 2]
LongModes  == [size : {9}, parity : {"none", "even"}, stop : {1}]
ShortModes == [size : {8}, parity : {"none", "even"}, stop : {1}]
EvenModes  == [size : {7, 8}, parity : {"even"}, stop : {1}]

\* Eight clocks to a bit, clean or with a spike of up to half a bit, and a tick of
\* difference in twenty-four.
FourLines ==
  {Line(CleanModes, 7, 7, {}, Slow), Line(EvenModes, 7, 7, 1 .. 4, 8),
   Line(ShortModes, 23, 24, {}, Slow), Line(LongModes, 24, 23, {}, Slow)}

\* Characters whose last bits, parity and first bits can be taken for one another.
TwoChars == {<<1, 1, 1, 1, 1, 1, 0, 0, 1>>, <<1, 0, 0, 0, 0, 1, 1, 0, 1>>}
=============================================================================
