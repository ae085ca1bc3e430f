------------------------- MODULE SpeculativeDecoder -------------------------
(***************************************************************************)
(* One call of SpeculativeDecoder::generate() (src/main/remaining/s.ii): a *)
(* draft model proposes a few tokens, each is accepted or replaced by one  *)
(* of the target model, and when the loop takes the draft for accepted the *)
(* target model adds a token of its own.  The two models are functions the *)
(* caller supplies; here they may answer anything, the target model also   *)
(* nothing, the draft model at most what it was asked for.  Acceptance is  *)
(* a coin (a fixed probability in the code).                               *)
(***************************************************************************)
EXTENDS Integers, Sequences

CONSTANTS Vocab,       (* the tokens                                        *)
          Prompts,     (* the prompts generate() may be called with         *)
          DraftLens,   (* the values of draft_len_                          *)
          NewTokens    (* the values of max_new_tokens                      *)

ASSUME DecoderAssumption ==
    /\ Prompts \subseteq Seq(Vocab)
    /\ DraftLens \subseteq Int
    /\ NewTokens \subseteq Int

VARIABLES
    pc,             (* where the loop is                                    *)
    draft_len_, max_new_tokens, prompt,
    result, generated,
    draft,          (* what the draft model proposed for result             *)
    accepted,       (* verify_draft(): the tokens accepted so far           *)
    full_prompt,    (* verify_draft(): what the target model is asked with  *)
    verify_result,
    asked           (* ghost: what the model saw, for every new token       *)

vars == <<pc, draft_len_, max_new_tokens, prompt, result, generated, draft,
          accepted, full_prompt, verify_result, asked>>
parameters == <<draft_len_, max_new_tokens, prompt>>
-----------------------------------------------------------------------------
(* The answers of target_model_(context, 1); only the first token is used. *)
TargetAnswers == {<<>>} \cup {<<tok>> : tok \in Vocab}

SmallerOf(a, b) == IF a < b THEN a ELSE b

Proposals(n) == {<<>>} \cup UNION {[1 .. k -> Vocab] : k \in 1 .. n}

Init ==
    /\ pc = "loop"
    /\ draft_len_ \in DraftLens
    /\ max_new_tokens \in NewTokens
    /\ prompt \in Prompts
    /\ result = prompt
    /\ generated = 0
    /\ draft = <<>>
    /\ accepted = <<>>
    /\ full_prompt = <<>>
    /\ verify_result = FALSE
    /\ asked = <<>>

(* The loop condition, and the draft; an empty draft ends the loop.        *)
Propose ==
    /\ pc = "loop"
    /\ generated < max_new_tokens
    /\ draft' \in Proposals(SmallerOf(draft_len_, max_new_tokens - generated))
    /\ accepted' = <<>>
    /\ full_prompt' = result
    /\ pc' = IF draft' = <<>> THEN "returned" ELSE "verify"
    /\ UNCHANGED <<parameters, result, generated, verify_result, asked>>

(* Mutated form: the loop only ends when the count is met exactly.         *)
FinishOnlyExactly ==
    /\ pc = "loop"
    /\ generated = max_new_tokens
    /\ pc' = "returned"
    /\ UNCHANGED <<parameters, result, generated, draft, accepted, full_prompt,
                   verify_result, asked>>

Finish ==
    /\ pc = "loop"
    /\ generated >= max_new_tokens
    /\ pc' = "returned"
    /\ UNCHANGED <<parameters, result, generated, draft, accepted, full_prompt,
                   verify_result, asked>>

(* Mutated form: the accepted token is not added to full_prompt.           *)
AcceptForgetsContext ==
    /\ pc = "verify"
    /\ Len(accepted) < Len(draft)
    /\ LET i == Len(accepted) + 1 IN
       /\ accepted' = Append(accepted, draft[i])
       /\ asked' = Append(asked, result \o SubSeq(draft, 1, i - 1))
    /\ UNCHANGED <<pc, parameters, result, generated, draft, full_prompt, verify_result>>

(* verify_draft(): the next token of the draft passes the coin.            *)
Accept ==
    /\ pc = "verify"
    /\ Len(accepted) < Len(draft)
    /\ LET i == Len(accepted) + 1 IN
       /\ accepted' = Append(accepted, draft[i])
       /\ full_prompt' = Append(full_prompt, draft[i])
       /\ asked' = Append(asked, result \o SubSeq(draft, 1, i - 1))
    /\ UNCHANGED <<pc, parameters, result, generated, draft, verify_result>>

(* Mutated form: the rejected token stays in, the replacement follows it.  *)
RejectKeepsToken ==
    /\ pc = "verify"
    /\ Len(accepted) < Len(draft)
    /\ \E resampled \in TargetAnswers :
         /\ accepted' = Append(accepted, draft[Len(accepted) + 1]) \o resampled
         /\ asked' = Append(asked, full_prompt)
    /\ verify_result' = FALSE
    /\ pc' = "splice"
    /\ UNCHANGED <<parameters, result, generated, draft, full_prompt>>

(* verify_draft(): it does not; the target model is asked instead.         *)
Reject ==
    /\ pc = "verify"
    /\ Len(accepted) < Len(draft)
    /\ \E resampled \in TargetAnswers :
         /\ accepted' = accepted \o resampled
         /\ asked' = IF resampled = <<>> THEN asked ELSE Append(asked, full_prompt)
    /\ verify_result' = FALSE
    /\ pc' = "splice"
    /\ UNCHANGED <<parameters, result, generated, draft, full_prompt>>

VerifyReturns ==
    /\ pc = "verify"
    /\ Len(accepted) = Len(draft)
    /\ verify_result' = TRUE
    /\ pc' = "splice"
    /\ UNCHANGED <<parameters, result, generated, draft, accepted, full_prompt, asked>>

(* Mutated form: the tokens taken over are not counted.                    *)
SpliceUncounted ==
    /\ pc = "splice"
    /\ result' = result \o accepted
    /\ pc' = IF Len(accepted) < Len(draft) THEN "loop" ELSE "bonus"
    /\ UNCHANGED <<parameters, generated, draft, accepted, full_prompt, verify_result, asked>>

(* generate() does not look at verify_result, it compares the lengths.     *)
Splice ==
    /\ pc = "splice"
    /\ result' = result \o accepted
    /\ generated' = generated + Len(accepted)
    /\ pc' = IF Len(accepted) < Len(draft) THEN "loop" ELSE "bonus"
    /\ UNCHANGED <<parameters, draft, accepted, full_prompt, verify_result, asked>>

(* Mutated form: the target model is asked with the output of the last turn.*)
BonusStale ==
    /\ pc = "bonus"
    /\ \E next \in TargetAnswers :
         /\ result' = result \o next
         /\ generated' = generated + Len(next)
         /\ asked' = IF next = <<>> THEN asked ELSE Append(asked, prompt)
    /\ pc' = "loop"
    /\ UNCHANGED <<parameters, draft, accepted, full_prompt, verify_result>>

Bonus ==
    /\ pc = "bonus"
    /\ \E next \in TargetAnswers :
         /\ result' = result \o next
         /\ generated' = generated + Len(next)
         /\ asked' = IF next = <<>> THEN asked ELSE Append(asked, result)
    /\ pc' = "loop"
    /\ UNCHANGED <<parameters, draft, accepted, full_prompt, verify_result>>

Next == Finish \/ Propose \/ Accept \/ Reject \/ VerifyReturns \/ Splice \/ Bonus

Spec == Init /\ [][Next]_vars

(* The thread runs, and a coin that is tossed for ever is not always tails.*)
FairSpec == Spec /\ WF_vars(Next) /\ SF_vars(Accept)
-----------------------------------------------------------------------------
(* Every variable keeps its shape; a draft has at most draft_len_ tokens.  *)
TypeOK ==
    /\ pc \in {"loop", "verify", "splice", "bonus", "returned"}
    /\ draft_len_ \in DraftLens /\ max_new_tokens \in NewTokens /\ prompt \in Prompts
    /\ result \in Seq(Vocab) /\ draft \in Seq(Vocab)
    /\ accepted \in Seq(Vocab) /\ full_prompt \in Seq(Vocab)
    /\ generated \in Nat
    /\ verify_result \in BOOLEAN
    /\ asked \in Seq(Seq(Vocab))
    /\ draft # <<>> => Len(draft) <= draft_len_

(* While a draft is verified, the context kept for the target model is the *)
(* output with the accepted tokens behind it, and those are a prefix of    *)
(* the draft: two lists that verify_draft() extends separately.            *)
ContextMatches ==
    pc = "verify" => /\ full_prompt = result \o accepted
                     /\ Len(accepted) <= Len(draft)
                     /\ accepted = SubSeq(draft, 1, Len(accepted))

(* generated counts the new tokens, and exceeds max_new_tokens by at most  *)
(* one: the last draft may fill the allowance and the target's own token   *)
(* still comes behind it.  A negative allowance yields the prompt.         *)
OvershootAtMostOne ==
    /\ Len(result) = Len(prompt) + generated
    /\ generated = 0 \/ generated <= max_new_tokens + 1
    /\ pc \in {"verify", "splice"} => generated + Len(draft) <= max_new_tokens

(* The comments of generate(), "Rejected at some point - continue" and     *)
(* "All accepted - generate next token from target": the target adds its   *)
(* own token only behind a draft that was accepted as a whole.             *)
BonusOnlyAfterFullAcceptance == [][Bonus => verify_result]_vars

(* generate() returns, also when the target model answers nothing: every   *)
(* turn that gets nowhere tosses the coin again.                           *)
Returns == <>(pc = "returned")

Abstract == INSTANCE Decoder
              WITH out <- IF pc \in {"verify", "splice"} THEN result \o accepted ELSE result

(* Every token of the output is one the models were asked for with exactly *)
(* the output before it, whatever mix of accepted, replaced and added      *)
(* tokens that output is.                                                  *)
ImplementsDecoder == Abstract!DecoderSpec
=============================================================================
