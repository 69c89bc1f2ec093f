------------------------------ MODULE MCPamClient ------------------------------
(* TLC instance of PamClient: an int of 12 bits, in which 3 seconds are too   *)
(* many milliseconds.                                                         *)
EXTENDS PamClient

MCOptions == {-1, 0, 2, 3}
=============================================================================
