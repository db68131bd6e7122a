----------------------------- MODULE LineEditor -----------------------------
(***************************************************************************)
(* usart_gets: a line is typed on a terminal and edited while it comes in. *)
(* The same function is in the stand-alone monitor, the bootloader, the    *)
(* two interrupt programs and two of the examples.  A step is one key;     *)
(* what the function sends back for it is what the terminal shows, since   *)
(* a 0x7f makes the terminal take its last character away.                 *)
(*                                                                         *)
(* The buffer is not cleared between lines: whatever stood behind the end  *)
(* of the new line stays there.                                            *)
(***************************************************************************)
EXTENDS Integers, Sequences

CONSTANTS
  Size,        \* the size of the buffer that usart_gets is given
  Printable,   \* the characters above 0x1f and below 0x7f
  Ignored      \* the other characters usart_gets has no case for

Nul == "nul"
EndKeys == {"lf", "cr"}
EraseKeys == {"del", "bs"}
ControlU == "ctrl-u"
ControlC == "ctrl-c"
Keys == Printable \cup Ignored \cup EndKeys \cup EraseKeys \cup {ControlU, ControlC}

ASSUME EditorAssumption ==
  /\ Size \in Nat \ {0}
  /\ (Printable \cup Ignored) \cap (EndKeys \cup EraseKeys \cup {ControlU, ControlC, Nul}) = {}
  /\ Printable \cap Ignored = {}

VARIABLES
  buffer,    \* char buffer[Size], from 0
  index,     \* index
  screen,    \* what the terminal shows of the line
  reading    \* has usart_gets been called and not returned?

editor == <<buffer, index, screen, reading>>

-----------------------------------------------------------------------------

EndLine(chr) ==
  /\ chr \in EndKeys
  /\ buffer' = [buffer EXCEPT ![index] = Nul]
  /\ reading' = FALSE
  /\ UNCHANGED <<index, screen>>

\* usart_putc(0x7f), n times
Erased(n) == [i \in 1 .. Len(screen) - n |-> screen[i]]

Erase(chr) ==
  /\ chr \in EraseKeys
  /\ index' = IF index > 0 THEN index - 1 ELSE index
  /\ screen' = IF index > 0 THEN Erased(1) ELSE screen
  /\ UNCHANGED <<buffer, reading>>

EraseLine(chr) ==
  /\ chr = ControlU
  /\ index' = 0
  /\ screen' = Erased(index)
  /\ UNCHANGED <<buffer, reading>>

\* Mutant: the index is not reset.
BreakKeepsIndex(chr) ==
  /\ chr = ControlC
  /\ screen' = <<>>
  /\ UNCHANGED <<buffer, index, reading>>

\* "<break>" and a new line
Break(chr) ==
  /\ chr = ControlC
  /\ index' = 0
  /\ screen' = <<>>
  /\ UNCHANGED <<buffer, reading>>

HasRoom == index < Size - 1

Insert(chr) ==
  /\ chr \in Printable \cup Ignored
  /\ IF HasRoom /\ chr \in Printable
     THEN /\ buffer' = [buffer EXCEPT ![index] = chr]
          /\ index' = index + 1
          /\ screen' = Append(screen, chr)
     ELSE UNCHANGED <<buffer, index, screen>>
  /\ UNCHANGED reading

usart_gets(chr) ==
  /\ reading
  /\ EndLine(chr) \/ Erase(chr) \/ EraseLine(chr) \/ Break(chr) \/ Insert(chr)

\* The caller has dealt with the line and asks for the next one.
Called ==
  /\ reading' = TRUE
  /\ index' = 0
  /\ screen' = <<>>

EditorInit ==
  /\ buffer = [i \in 0 .. Size - 1 |-> Nul]
  /\ index = 0
  /\ screen = <<>>
  /\ reading = TRUE

\* Between the calls the buffer is the caller's, who prints numbers into it.
EditorNext ==
  \/ \E chr \in Keys : usart_gets(chr)
  \/ /\ ~reading /\ Called
     /\ buffer' \in {b \in [0 .. Size - 1 -> Printable \cup {Nul}] : b[Size - 1] = Nul}

EditorSpec == EditorInit /\ [][EditorNext]_editor

-----------------------------------------------------------------------------
(* Properties *)

\* The types of usart_gets' variables (monitor.c:58-60): the index stays
\* inside the buffer.
EditorTypeOK ==
  /\ buffer \in [0 .. Size - 1 -> Printable \cup {Nul}]
  /\ index \in 0 .. Size - 1
  /\ screen \in Seq(Printable)
  /\ reading \in BOOLEAN

\* The terminal shows the characters the buffer holds, after any sequence of
\* insertions, erasures, ^U, ^C and characters that no longer fit
\* (monitor.c:62-100): what the user sees is what the caller gets.
ScreenShowsLine ==
  /\ Len(screen) = index
  /\ \A i \in 1 .. Len(screen) : screen[i] = buffer[i - 1]

\* The line that has been returned is terminated where the screen ends
\* (monitor.c:66), and the last character of the buffer is never anything
\* else than a terminator, so the callers' loops over the line end inside it.
LineTerminated ==
  /\ ~reading => buffer[index] = Nul
  /\ buffer[Size - 1] = Nul
=============================================================================
