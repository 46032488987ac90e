----------------------------- MODULE MCReadAhead ----------------------------
(* Sizes for checking ReadAhead with TLC.                                   *)
EXTENDS ReadAhead

(* NONE; LIMITED with amounts of at most 10, where both sizes are equal,    *)
(* and of more than 10, where the minimum stays behind; FULL.               *)
AllModes == {<<0, 0>>, <<1, 1>>, <<2, 2>>, <<2, 4>>, <<2, MaxItems + 1>>}
ReadAheadModes == AllModes \ {<<0, 0>>}
=============================================================================
