------------------------------ MODULE ReadStream ------------------------------
(***************************************************************************)
(* What the reading side of a socket promises its consumer, whoever the     *)
(* server behind it is: the data arrives in the order it was sent, "end"    *)
(* only after all of it, and "close" only after "end" unless the socket was *)
(* cut, that is, destroyed by its consumer or by an error.                   *)
(***************************************************************************)
EXTENDS SequencesExt

VARIABLES
  sent,   \* the chunks the server has sent
  heard,  \* the chunks the consumer was given
  ended,  \* whether "end" was emitted
  cut,    \* whether the socket was destroyed
  closed  \* whether "close" was emitted

vars == <<sent, heard, ended, cut, closed>>

Init ==
  /\ sent = <<>> /\ heard = <<>>
  /\ ended = FALSE /\ cut = FALSE /\ closed = FALSE

\* Chunks are sent, chunks are heard, or both at once.
Transfer ==
  /\ ~ended
  /\ IsPrefix(sent, sent') /\ IsPrefix(heard, heard') /\ IsPrefix(heard', sent')
  /\ UNCHANGED <<ended, cut, closed>>

\* What the server still sends to a socket that was cut is lost.
Lose ==
  /\ cut \/ closed
  /\ IsPrefix(sent, sent')
  /\ UNCHANGED <<heard, ended, cut, closed>>

End ==
  /\ ~ended /\ ~cut
  /\ heard = sent
  /\ ended' = TRUE
  /\ UNCHANGED <<sent, heard, cut, closed>>

Cut ==
  /\ ~cut
  /\ cut' = TRUE
  /\ UNCHANGED <<heard, ended, closed>>
  /\ IsPrefix(sent, sent')

Close ==
  /\ ~closed
  /\ ended \/ cut
  /\ closed' = TRUE
  /\ UNCHANGED <<sent, heard, ended, cut>>

Next == Transfer \/ Lose \/ End \/ Cut \/ Close

Spec == Init /\ [][Next]_vars
===============================================================================
