---------------------- MODULE SpeculativeDecoderProofs ----------------------
(***************************************************************************)
(* Speculative decoding for every vocabulary, prompt, draft length and     *)
(* allowance: the context the target model sees never drifts from the      *)
(* output, the allowance is exceeded by one token at most, and generate()  *)
(* implements the plain decoder.                                           *)
(***************************************************************************)
EXTENDS SpeculativeDecoder, SequenceTheorems, TLAPS

(* What the counters satisfy between the steps as well.                    *)
Counted ==
    /\ OvershootAtMostOne
    /\ pc \in {"verify", "splice"} => Len(accepted) <= Len(draft)
    /\ pc = "bonus" => generated <= max_new_tokens

(* What the draft model may answer is a sequence of the length asked for.  *)
LEMMA ProposalsShape ==
    ASSUME NEW n \in Int, NEW d \in Proposals(n)
    PROVE  d \in Seq(Vocab) /\ (d # <<>> => Len(d) <= n)
<1>1. CASE d = <<>>
  BY <1>1, EmptySeq
<1>2. CASE \E k \in 1 .. n : d \in [1 .. k -> Vocab]
  <2>1. PICK k \in 1 .. n : d \in [1 .. k -> Vocab]
    BY <1>2
  <2>2. QED
    BY <2>1
<1>3. QED
  BY <1>1, <1>2 DEF Proposals

(* The target model's answer is nothing or one token.                      *)
LEMMA AnswersShape ==
    ASSUME NEW r \in TargetAnswers
    PROVE  /\ r \in Seq(Vocab)
           /\ Len(r) \in {0, 1}
           /\ r = <<>> => Len(r) = 0
           /\ r # <<>> => \E tok \in Vocab : r = <<tok>>
<1>1. CASE r = <<>>
  BY <1>1, EmptySeq
<1>2. CASE \E tok \in Vocab : r = <<tok>>
  <2>1. PICK tok \in Vocab : r = <<tok>>
    BY <1>2
  <2>2. r \in Seq(Vocab) /\ Len(r) = 1
    BY <2>1
  <2>3. QED
    BY <1>2, <2>2, EmptySeq
<1>3. QED
  BY <1>1, <1>2 DEF TargetAnswers

(* Every variable keeps its shape.                                         *)
THEOREM TypeCorrect == Spec => []TypeOK
<1>1. Init => TypeOK
  <2> SUFFICES ASSUME Init PROVE TypeOK
    OBVIOUS
  <2>1. prompt \in Seq(Vocab) /\ result = prompt
    BY DecoderAssumption DEF Init
  <2>2. <<>> \in Seq(Vocab) /\ <<>> \in Seq(Seq(Vocab))
    BY EmptySeq
  <2>3. QED
    BY <2>1, <2>2 DEF Init, TypeOK
<1>2. TypeOK /\ [Next]_vars => TypeOK'
  <2> SUFFICES ASSUME TypeOK, [Next]_vars PROVE TypeOK'
    OBVIOUS
  <2> USE DEF parameters
  <2>1. /\ draft_len_ \in Int /\ max_new_tokens \in Int /\ generated \in Nat
        /\ SmallerOf(draft_len_, max_new_tokens - generated) \in Int
        /\ SmallerOf(draft_len_, max_new_tokens - generated) <= draft_len_
    BY DecoderAssumption DEF TypeOK, SmallerOf
  <2>2. CASE Propose
    <3>1. draft' \in Seq(Vocab) /\ (draft' # <<>> => Len(draft') <= draft_len_)
      BY <2>1, <2>2, ProposalsShape, LenProperties DEF Propose
    <3>2. QED
      BY <2>2, <3>1, EmptySeq DEF Propose, TypeOK
  <2>3. CASE Accept
    <3> DEFINE i == Len(accepted) + 1
    <3>1. i \in 1 .. Len(draft)
      BY <2>3, LenProperties DEF Accept, TypeOK
    <3>2. draft[i] \in Vocab
      BY <3>1, ElementOfSeq DEF TypeOK
    <3>3. SubSeq(draft, 1, i - 1) \in Seq(Vocab)
      <4>1. \A j \in 1 .. i - 1 : draft[j] \in Vocab
        BY <3>1, ElementOfSeq DEF TypeOK
      <4>2. QED
        BY <3>1, <4>1, SubSeqProperties
    <3>4. result \o SubSeq(draft, 1, i - 1) \in Seq(Vocab)
      BY <3>3, ConcatProperties DEF TypeOK
    <3>5. /\ accepted' \in Seq(Vocab) /\ full_prompt' \in Seq(Vocab)
          /\ asked' \in Seq(Seq(Vocab))
      BY <2>3, <3>2, <3>4, AppendProperties DEF Accept, TypeOK
    <3>6. QED
      BY <2>3, <3>5 DEF Accept, TypeOK
  <2>4. CASE Reject
    <3>1. PICK resampled \in TargetAnswers :
             /\ accepted' = accepted \o resampled
             /\ asked' = IF resampled = <<>> THEN asked ELSE Append(asked, full_prompt)
      BY <2>4 DEF Reject
    <3>2. accepted' \in Seq(Vocab) /\ asked' \in Seq(Seq(Vocab))
      BY <3>1, AnswersShape, ConcatProperties, AppendProperties DEF TypeOK
    <3>3. QED
      BY <2>4, <3>2 DEF Reject, TypeOK
  <2>5. CASE Splice
    <3>1. result' \in Seq(Vocab) /\ generated' \in Nat
      BY <2>1, <2>5, ConcatProperties, LenProperties DEF Splice, TypeOK
    <3>2. QED
      BY <2>5, <3>1 DEF Splice, TypeOK
  <2>6. CASE Bonus
    <3>1. PICK next \in TargetAnswers :
             /\ result' = result \o next
             /\ generated' = generated + Len(next)
             /\ asked' = IF next = <<>> THEN asked ELSE Append(asked, result)
      BY <2>6 DEF Bonus
    <3>2. result' \in Seq(Vocab) /\ generated' \in Nat /\ asked' \in Seq(Seq(Vocab))
      BY <2>1, <3>1, AnswersShape, ConcatProperties, AppendProperties DEF TypeOK
    <3>3. QED
      BY <2>6, <3>2 DEF Bonus, TypeOK
  <2>7. CASE Finish \/ VerifyReturns \/ UNCHANGED vars
    BY <2>7 DEF Finish, VerifyReturns, TypeOK, vars
  <2>8. QED
    BY <2>2, <2>3, <2>4, <2>5, <2>6, <2>7 DEF Next
<1>3. QED
  BY <1>1, <1>2, PTL DEF Spec

(* Where a list is split does not matter to one appended behind it.        *)
LEMMA AppendedBehind ==
    ASSUME NEW a \in Seq(Vocab), NEW b \in Seq(Vocab), NEW c \in Seq(Vocab)
    PROVE  (a \o b) \o c = a \o (b \o c)
  BY ConcatAssociative

(* Extending two lists by the same token keeps one a suffix of the other,  *)
(* and a prefix of the draft stays one.                                    *)
LEMMA AcceptKeepsContext ==
    ASSUME TypeOK, ContextMatches, Accept
    PROVE  /\ full_prompt' = result \o accepted'
           /\ accepted' = SubSeq(draft, 1, Len(accepted'))
           /\ Len(accepted') = Len(accepted) + 1
           /\ draft[Len(accepted) + 1] \in Vocab
<1> DEFINE i == Len(accepted) + 1
<1>1. /\ i \in 1 .. Len(draft) /\ i - 1 = Len(accepted)
      /\ draft \in Seq(Vocab) /\ accepted \in Seq(Vocab) /\ result \in Seq(Vocab)
  BY LenProperties DEF Accept, TypeOK
<1>2. /\ accepted = SubSeq(draft, 1, Len(accepted)) /\ full_prompt = result \o accepted
      /\ accepted' = Append(accepted, draft[i]) /\ full_prompt' = Append(full_prompt, draft[i])
  BY DEF Accept, ContextMatches
<1>3. draft[i] \in Vocab
  BY <1>1, ElementOfSeq
<1>4. <<draft[i]>> \in Seq(Vocab)
  BY <1>3
<1>5. accepted' = accepted \o <<draft[i]>> /\ Len(accepted') = i
  BY <1>1, <1>2, <1>3, AppendIsConcat, AppendProperties
<1>6. full_prompt' = (result \o accepted) \o <<draft[i]>>
  BY <1>1, <1>2, <1>3, AppendIsConcat, ConcatProperties
<1>7. full_prompt' = result \o accepted'
  <2>1. (result \o accepted) \o <<draft[i]>> = result \o (accepted \o <<draft[i]>>)
    BY <1>1, <1>4, AppendedBehind, Zenon
  <2>2. QED
    BY <1>5, <1>6, <2>1, Zenon
<1>8. 1 \in 1 .. Len(draft) /\ i \in 1 .. Len(draft)
  BY <1>1, LenProperties
<1>9. SubSeq(draft, 1, i) = SubSeq(draft, 1, i - 1) \o <<draft[i]>>
  BY <1>1, <1>8, SubSeqRecursiveSecond
<1>10. QED
  BY <1>1, <1>2, <1>3, <1>5, <1>7, <1>9

(* The context kept for the target model is always the output with the     *)
(* accepted tokens behind it.                                              *)
THEOREM ContextNeverDrifts == Spec => []ContextMatches
<1>1. Init => ContextMatches
  BY DEF Init, ContextMatches
<1>2. TypeOK /\ ContextMatches /\ [Next]_vars => ContextMatches'
  <2> SUFFICES ASSUME TypeOK, ContextMatches, [Next]_vars PROVE ContextMatches'
    OBVIOUS
  <2>1. CASE Propose
    <3>1. draft' \in Seq(Vocab)
      <4>1. SmallerOf(draft_len_, max_new_tokens - generated) \in Int
        BY DecoderAssumption DEF TypeOK, SmallerOf
      <4>2. QED
        BY <2>1, <4>1, ProposalsShape DEF Propose
    <3>2. SubSeq(draft', 1, 0) = <<>>
      BY SubSeqEmpty
    <3>3. Len(draft') \in Nat /\ result \o <<>> = result
      BY <3>1, LenProperties, ConcatEmptySeq DEF TypeOK
    <3>4. QED
      BY <2>1, <3>2, <3>3, EmptySeq DEF Propose, ContextMatches, parameters
  <2>2. CASE Accept
    <3>1. Len(accepted) + 1 <= Len(draft)
      BY <2>2, LenProperties DEF Accept, TypeOK
    <3>2. QED
      BY <2>2, <3>1, AcceptKeepsContext DEF Accept, ContextMatches
  <2>3. CASE UNCHANGED vars
    BY <2>3 DEF vars, parameters, ContextMatches
  <2>4. QED
    BY <2>1, <2>2, <2>3 DEF Next, Finish, Reject, VerifyReturns, Splice, Bonus, ContextMatches
<1>3. QED
  BY <1>1, <1>2, TypeCorrect, PTL DEF Spec

(* The new tokens are counted, and exceed the allowance by one at most.    *)
THEOREM AllowanceOvershotByOne == Spec => []OvershootAtMostOne
<1>1. Init => Counted
  <2> SUFFICES ASSUME Init PROVE Counted
    OBVIOUS
  <2>1. Len(prompt) \in Nat
    BY DecoderAssumption, LenProperties DEF Init
  <2>2. QED
    BY <2>1 DEF Init, Counted, OvershootAtMostOne
<1>2. TypeOK /\ Counted /\ [Next]_vars => Counted'
  <2> SUFFICES ASSUME TypeOK, Counted, [Next]_vars PROVE Counted'
    OBVIOUS
  <2> USE DEF Counted, OvershootAtMostOne, parameters
  <2>1. /\ draft_len_ \in Int /\ max_new_tokens \in Int /\ generated \in Nat
        /\ Len(prompt) \in Nat /\ Len(result) \in Nat
        /\ Len(draft) \in Nat /\ Len(accepted) \in Nat
    BY DecoderAssumption, LenProperties DEF TypeOK
  <2>2. CASE Propose
    <3> DEFINE n == SmallerOf(draft_len_, max_new_tokens - generated)
    <3>1. n \in Int /\ n <= max_new_tokens - generated
      BY <2>1 DEF SmallerOf
    <3>2. draft' \in Proposals(n)
      BY <2>2 DEF Propose
    <3>3. draft' # <<>> => Len(draft') \in Nat /\ Len(draft') <= max_new_tokens - generated
      <4>1. draft' \in Seq(Vocab) /\ (draft' # <<>> => Len(draft') <= n)
        BY <3>1, <3>2, ProposalsShape
      <4>2. Len(draft') \in Nat
        BY <4>1, LenProperties
      <4>3. QED
        BY <2>1, <3>1, <4>1, <4>2
    <3>4. QED
      BY <2>1, <2>2, <3>3, EmptySeq DEF Propose
  <2>3. CASE Accept
    <3>1. draft[Len(accepted) + 1] \in Vocab
      BY <2>1, <2>3, ElementOfSeq DEF Accept, TypeOK
    <3>2. Len(accepted') = Len(accepted) + 1
      BY <2>3, <3>1, AppendProperties DEF Accept, TypeOK
    <3>3. QED
      BY <2>1, <2>3, <3>2 DEF Accept
  <2>4. CASE Reject
    <3>1. PICK resampled \in TargetAnswers : accepted' = accepted \o resampled
      BY <2>4 DEF Reject
    <3>2. resampled \in Seq(Vocab) /\ Len(resampled) \in {0, 1}
      BY AnswersShape
    <3>3. Len(accepted') = Len(accepted) + Len(resampled)
      BY <3>1, <3>2, ConcatProperties DEF TypeOK
    <3>4. QED
      BY <2>1, <2>4, <3>2, <3>3, SMTT(30) DEF Reject
  <2>5. CASE Splice
    <3>1. Len(result') = Len(result) + Len(accepted)
      BY <2>5, ConcatProperties DEF Splice, TypeOK
    <3>2. QED
      BY <2>1, <2>5, <3>1 DEF Splice
  <2>6. CASE Bonus
    <3>1. PICK next \in TargetAnswers :
             result' = result \o next /\ generated' = generated + Len(next)
      BY <2>6 DEF Bonus
    <3>2. next \in Seq(Vocab) /\ Len(next) \in {0, 1}
      BY AnswersShape
    <3>3. Len(result') = Len(result) + Len(next)
      BY <3>1, <3>2, ConcatProperties DEF TypeOK
    <3>4. generated <= max_new_tokens /\ pc' = "loop" /\ UNCHANGED parameters
      BY <2>6 DEF Bonus
    <3>5. generated' \in Nat /\ generated' <= max_new_tokens + 1
      <4> DEFINE n == Len(next)
      <4>1. n \in {0, 1} /\ generated' = generated + n
        BY <3>1, <3>2
      <4> HIDE DEF n
      <4>2. QED
        BY <2>1, <3>4, <4>1
    <3>6. QED
      BY <2>1, <3>1, <3>2, <3>3, <3>4, <3>5
  <2>7. CASE Finish \/ VerifyReturns \/ UNCHANGED vars
    BY <2>1, <2>7 DEF Finish, VerifyReturns, vars
  <2>8. QED
    BY <2>2, <2>3, <2>4, <2>5, <2>6, <2>7 DEF Next
<1>3. Counted => OvershootAtMostOne
  BY DEF Counted
<1>4. QED
  BY <1>1, <1>2, <1>3, TypeCorrect, PTL DEF Spec

(* generate() implements the plain decoder: every token follows the output *)
(* the model was asked with.                                               *)
THEOREM GenerateIsADecoder == Spec => ImplementsDecoder
<1> DEFINE out == IF pc \in {"verify", "splice"} THEN result \o accepted ELSE result
<1>1. Init => Abstract!DecoderInit
  BY DEF Init, Abstract!DecoderInit
<1>2. TypeOK /\ ContextMatches /\ [Next]_vars
        => [\E tok \in Vocab : Abstract!Emit(tok)]_<<out, asked>>
  <2> SUFFICES ASSUME TypeOK, ContextMatches, [Next]_vars
               PROVE  \/ \E tok \in Vocab : Abstract!Emit(tok)
                      \/ UNCHANGED <<out, asked>>
    OBVIOUS
  <2> USE DEF parameters
  <2>1. result \in Seq(Vocab) /\ accepted \in Seq(Vocab)
    BY DEF TypeOK
  <2>2. CASE Propose
    BY <2>1, <2>2, ConcatEmptySeq DEF Propose
  <2>3. CASE Accept
    <3> DEFINE tok == draft[Len(accepted) + 1]
    <3>1. /\ tok \in Vocab /\ out = result \o accepted
          /\ full_prompt' = result \o accepted' /\ full_prompt = out
      BY <2>3, AcceptKeepsContext DEF Accept, ContextMatches
    <3>2. out' = Append(out, tok)
      BY <2>3, <3>1 DEF Accept
    <3>3. SubSeq(draft, 1, Len(accepted)) = accepted
      BY <2>3 DEF Accept, ContextMatches
    <3>4. (Len(accepted) + 1) - 1 = Len(accepted)
      BY <2>1, LenProperties
    <3>5. asked' = Append(asked, out)
      BY <2>3, <3>1, <3>3, <3>4 DEF Accept
    <3>6. QED
      BY <3>1, <3>2, <3>5 DEF Abstract!Emit
  <2>4. CASE Reject
    <3>1. PICK resampled \in TargetAnswers :
             /\ accepted' = accepted \o resampled
             /\ asked' = IF resampled = <<>> THEN asked ELSE Append(asked, full_prompt)
      BY <2>4 DEF Reject
    <3>2. out = result \o accepted /\ full_prompt = out /\ out' = result \o accepted'
      BY <2>4 DEF Reject, ContextMatches
    <3>3. CASE resampled = <<>>
      BY <2>1, <3>1, <3>2, <3>3, ConcatEmptySeq
    <3>4. CASE resampled # <<>>
      <4>1. PICK tok \in Vocab : resampled = <<tok>>
        BY <3>4, AnswersShape
      <4>2. resampled \in Seq(Vocab) /\ out \in Seq(Vocab)
        BY <2>1, <3>2, AnswersShape, ConcatProperties
      <4>3. out' = out \o resampled
        <5>1. (result \o accepted) \o resampled = result \o (accepted \o resampled)
          BY <2>1, <4>2, ConcatAssociative
        <5>2. QED
          BY <3>1, <3>2, <5>1
      <4>4. out' = Append(out, tok)
        BY <4>1, <4>2, <4>3, AppendIsConcat
      <4>5. QED
        BY <3>1, <3>2, <3>4, <4>4 DEF Abstract!Emit
    <3>5. QED
      BY <3>3, <3>4
  <2>5. CASE Bonus
    <3>1. PICK next \in TargetAnswers :
             /\ result' = result \o next
             /\ asked' = IF next = <<>> THEN asked ELSE Append(asked, result)
      BY <2>5 DEF Bonus
    <3>2. out = result /\ out' = result'
      BY <2>5 DEF Bonus
    <3>3. CASE next = <<>>
      BY <2>1, <3>1, <3>2, <3>3, ConcatEmptySeq
    <3>4. CASE next # <<>>
      <4>1. PICK tok \in Vocab : next = <<tok>>
        BY <3>4, AnswersShape
      <4>2. out' = Append(out, tok)
        BY <2>1, <3>1, <3>2, <4>1, AppendIsConcat
      <4>3. QED
        BY <3>1, <3>2, <3>4, <4>2 DEF Abstract!Emit
    <3>5. QED
      BY <3>3, <3>4
  <2>6. CASE Finish \/ VerifyReturns \/ Splice \/ UNCHANGED vars
    BY <2>6 DEF Finish, VerifyReturns, Splice, vars
  <2>7. QED
    BY <2>2, <2>3, <2>4, <2>5, <2>6 DEF Next
<1>3. QED
  BY <1>1, <1>2, TypeCorrect, ContextNeverDrifts, PTL
     DEF Spec, ImplementsDecoder, Abstract!DecoderSpec
=============================================================================
