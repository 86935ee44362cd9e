---------------------------- MODULE MCKeyDecoder ----------------------------
(* The keys TLC types: one of each shape, and characters that also occur     *)
(* inside sequences.                                                         *)
EXTENDS KeyProps

MCModes == {"loop", "blocking"}
MCBlocking == {"blocking"}
MCKeyboard == {<<"esc">>, <<"esc", "[", "A">>, <<"esc", "[", "5", "~">>,
               <<"[">>, <<"A">>, <<"cr">>, CtrlC}
MCKey == {<<"A">>}
=============================================================================
