------------------------------ MODULE Decoder -------------------------------
(***************************************************************************)
(* What any decoder promises: the output starts as the prompt and grows by *)
(* one token at a time, and the model that was asked for a token was asked *)
(* with exactly the output the token is put behind.                        *)
(***************************************************************************)
EXTENDS Sequences

CONSTANTS Vocab, Prompts

VARIABLES out,     (* the tokens emitted so far, prompt included            *)
          asked    (* for every token after the prompt: what the model saw  *)

DecoderInit == out \in Prompts /\ asked = <<>>

Emit(tok) == out' = Append(out, tok) /\ asked' = Append(asked, out)

DecoderSpec ==
    DecoderInit /\ [][\E tok \in Vocab : Emit(tok)]_<<out, asked>>
=============================================================================
