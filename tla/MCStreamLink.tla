---------------------------- MODULE MCStreamLink ----------------------------
(* StreamLink with bytes 0 and 1: lengths up to 3 can be said, payloads of   *)
(* one and two bytes fit, three are too many.                              *)
EXTENDS StreamLink

SomePayloads == {<<1>>, <<0, 1>>, <<1, 0, 1>>}
SmallPayloads == {<<1>>, <<0, 1>>}
=============================================================================
