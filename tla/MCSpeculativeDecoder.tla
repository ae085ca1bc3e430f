------------------------ MODULE MCSpeculativeDecoder ------------------------
(* Small instances of SpeculativeDecoder: a prompt of one token and an     *)
(* empty one, and two tokens, so that a replaced token can differ.         *)
EXTENDS SpeculativeDecoder

CONSTANTS a, b

MCVocab == {a, b}
MCPrompts == {<<>>, <<a>>}
=============================================================================
