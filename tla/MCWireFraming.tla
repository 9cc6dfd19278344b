--------------------------- MODULE MCWireFraming ----------------------------
(***************************************************************************)
(* The empty text and one of three bytes a character, patterns of ASCII,    *)
(* brokers before and after the thresholds of the protocol.                 *)
(***************************************************************************)
EXTENDS WireFraming

MCTexts == {[chars |-> 0, bytes |-> 0], [chars |-> 2, bytes |-> 6]}
MCPatterns == {[chars |-> 3, bytes |-> 3], [chars |-> 5, bytes |-> 5]}
=============================================================================
