------------------------------ MODULE MCMainLoop ------------------------------
(* TLC instance of MainLoop: libdbus has one connection, with a watch for     *)
(* reading and one for writing.                                              *)
EXTENDS MainLoop

CONSTANTS w1, w2

MCWatchesOf == [c \in DConns |-> <<w1, w2>>]
=============================================================================
