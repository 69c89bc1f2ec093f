---------------------------- MODULE MCLoginUpdate ----------------------------
(* TLC instance of LoginUpdate: the objects of libdbus are interchangeable.  *)
EXTENDS LoginUpdate, TLC

ConnSymmetry == Permutations(Conns)
=============================================================================
