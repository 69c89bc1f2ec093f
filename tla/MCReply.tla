-------------------------------- MODULE MCReply --------------------------------
(* TLC instance of Reply: texts shorter and longer than a block, with a NUL    *)
(* inside or at the end, and with a byte that is no UTF-8 before or behind it. *)
EXTENDS Reply

MCStrings == {<<>>, <<"a">>, <<"b", "a", "x">>, <<"b", NUL, "a">>}
MCTexts == {<<"b">>, <<"b", NUL, "x">>}
=============================================================================
