--------------------------- MODULE MCMethodRegistry ---------------------------
(* TLC instance of MethodRegistry: an exact path and a pattern that matches  *)
(* two paths, calls by known and unknown names, and the calls whose sender,  *)
(* user or arguments are refused.                                            *)
EXTENDS MethodRegistry

MCMatches == {<<"exact", "here">>, <<"pattern", "here">>, <<"pattern", "there">>}

Good == [kind |-> "call", path |-> "here", interface |-> "f1", member |-> "m1",
         strings |-> 1, clean |-> TRUE, sender |-> TRUE, user |-> TRUE]

MCMessages ==
  {[Good EXCEPT !.path = p, !.interface = i, !.member = m] :
     p \in {"here", "there", "nowhere"}, i \in {"f1", "f2", None}, m \in {"m1", "m2"}}
  \cup
  {[Good EXCEPT !.strings = n, !.clean = b, !.user = u] :
     n \in {0, 1}, b \in BOOLEAN, u \in BOOLEAN}
  \cup
  {[Good EXCEPT !.sender = FALSE], [Good EXCEPT !.kind = "other"]}
=============================================================================
