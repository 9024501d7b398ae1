--------------------------- MODULE LineDiscipline ---------------------------
(***************************************************************************)
(* What kernel/console.c promises: the typed line is edited until it is    *)
(* finished, and finished input is delivered in order and never changed.   *)
(***************************************************************************)
EXTENDS Sequences, SequencesExt

CONSTANTS Plain, SIZE    \* characters with no meaning; room for input

VARIABLES
  ready,   \* finished input that no read has taken
  line     \* the line being edited

Init == ready = <<>> /\ line = <<>>

\* A character is kept while there is room.  The end of a line, end-of-file
\* and the last place in the buffer finish the line.
Type(c) ==
  /\ Len(ready) + Len(line) < SIZE
  /\ IF c \in {"nl", "eof"} \/ Len(ready) + Len(line) + 1 = SIZE
       THEN ready' = ready \o Append(line, c) /\ line' = <<>>
       ELSE line' = Append(line, c) /\ UNCHANGED ready

Erase == line # <<>> /\ line' = Front(line) /\ UNCHANGED ready
Kill == line # <<>> /\ line' = <<>> /\ UNCHANGED ready
Take == ready # <<>> /\ ready' = Tail(ready) /\ UNCHANGED line

Next == Erase \/ Kill \/ Take \/ \E c \in Plain \cup {"nl", "eof"} : Type(c)

Spec == Init /\ [][Next]_<<ready, line>>
=============================================================================
