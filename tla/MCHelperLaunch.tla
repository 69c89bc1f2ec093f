---------------------------- MODULE MCHelperLaunch ----------------------------
(* TLC instance of HelperLaunch.  The names are as long as, shorter and longer *)
(* than a chunk, and each begins the next.                                     *)
EXTENDS HelperLaunch

MCUsers   == {<<"a">>, <<"a", "b">>, <<"a", "b", "a">>}
MCEmpty   == << >>
MCProgram == <<"g">>
MCQuiet   == <<"q">>
MCForce   == <<"f">>
=============================================================================
