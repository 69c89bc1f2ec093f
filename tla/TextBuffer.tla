------------------------------ MODULE TextBuffer ------------------------------
(***************************************************************************)
(* What src/src/buffer.h offers: a text that grows at its end and is used  *)
(* up from its front.  How it lies in memory is OddjobBuffer.              *)
(***************************************************************************)
EXTENDS Naturals, Sequences

CONSTANTS Strings, Counts

VARIABLES text, live

Init == text = << >> /\ ~live

New == ~live /\ live' /\ text' = << >>

Add(bs) == live /\ text' = text \o bs /\ UNCHANGED live

\* oddjob_buffer_prepend counts the new bytes only when it had to move the
\* old ones: otherwise the text keeps its length and loses its end.
Put(bs) ==
  /\ live /\ UNCHANGED live
  /\ \/ text' = bs \o text
     \/ text' = SubSeq(bs \o text, 1, Len(text))

Take(n) ==
  /\ live /\ UNCHANGED live
  /\ text' = IF n < Len(text) THEN SubSeq(text, n + 1, Len(text)) ELSE << >>

Clear == live /\ text' = << >> /\ UNCHANGED live

Free == live /\ ~live' /\ text' = << >>

Next ==
  \/ New \/ Clear \/ Free
  \/ \E bs \in Strings : Add(bs) \/ Put(bs)
  \/ \E n \in Counts : Take(n)

Spec == Init /\ [][Next]_<<text, live>>
=============================================================================
