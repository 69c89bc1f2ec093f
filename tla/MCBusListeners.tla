--------------------------- MODULE MCBusListeners ---------------------------
(* TLC instance of BusListeners: the objects of libdbus and the calls are   *)
(* interchangeable, which the safety runs use.                              *)
EXTENDS BusListeners, TLC

ConnSymmetry == Permutations(Conns)
CallSymmetry == Permutations(Calls)
Symmetry == ConnSymmetry \cup CallSymmetry
=============================================================================
