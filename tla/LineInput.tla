----------------------------- MODULE LineInput ------------------------------
(***************************************************************************)
(* What console input promises: a line that is being edited, and a queue   *)
(* of finished input that readers take from the front of.  Both together   *)
(* have room for Room characters; when it runs out the line is handed over *)
(* as it is, and what is typed then is dropped.                            *)
(***************************************************************************)
EXTENDS Naturals, Sequences

CONSTANTS Room, Keys

VARIABLES line, ready

Init == line = <<>> /\ ready = <<>>

Erase ==
  /\ line # <<>>
  /\ line' = SubSeq(line, 1, Len(line) - 1)
  /\ UNCHANGED ready

EraseLine ==
  /\ line' = <<>>
  /\ UNCHANGED ready

\* The line is handed over by a newline, by an end-of-file or when there is no
\* more room.
Type(c) ==
  /\ Len(line) + Len(ready) < Room
  /\ IF c \in {"\n", "^D"} \/ Len(line) + Len(ready) + 1 = Room
     THEN line' = <<>> /\ ready' = ready \o Append(line, c)
     ELSE line' = Append(line, c) /\ UNCHANGED ready

\* A reader never takes past the end of a line, nor past an end-of-file, and an
\* end-of-file only by itself.
Take(k) ==
  /\ k \in 1 .. Len(ready)
  /\ \A i \in 1 .. k - 1 : ready[i] # "\n"
  /\ \A i \in 1 .. k : ready[i] = "^D" => k = 1
  /\ ready' = SubSeq(ready, k + 1, Len(ready))
  /\ UNCHANGED line

Next ==
  \/ Erase \/ EraseLine
  \/ \E c \in Keys : Type(c)
  \/ \E k \in 1 .. Room : Take(k)

Spec == Init /\ [][Next]_<<line, ready>>
=============================================================================
