----------------------------- MODULE BPEEncoder -----------------------------
(***************************************************************************)
(* encode() of BPETokenizer (token.ii): what bpe_merge() makes of a word   *)
(* with the rules that train() has left.                                   *)
(***************************************************************************)
EXTENDS BPETokenizer

Mergeable(s) ==
  {i \in 1 .. Len(s) - 1 : Pair(s, i) \in merge_rules_ /\ Pair(s, i) \in DOMAIN merges_}

\* A turn of the loop: the first pair that has a rule is replaced by the number
\* merges_ has for it.  -1 stands for "none": a rule with the code -1 is found,
\* and nothing is replaced.
Turn(s) ==
  IF Mergeable(s) = {} THEN s
  ELSE LET p == Pair(s, Min(Mergeable(s)))
       IN IF -1 \in {p[1], p[2]} THEN s ELSE Merged(s, p, merges_[p])

\* The loop ends when no pair has a rule.  A turn that replaces one makes the
\* word shorter: where one has a rule after as many turns as the word is long,
\* one always has.
Forever == <<>>
bpe_merge(s) ==
  LET after[n \in 0 .. Len(s)] == IF n = 0 THEN s ELSE Turn(after[n - 1])
  IN IF Mergeable(after[Len(s)]) = {} THEN after[Len(s)] ELSE Forever

\* ----- properties --------------------------------------------------------

\* What can be made of s by replacing a pair that has a rule at a time.
Replaced(s, i) == SubSeq(s, 1, i - 1) \o <<merges_[Pair(s, i)]>> \o SubSeq(s, i + 2, Len(s))
Rewritten(s) ==
  LET upto[n \in 0 .. Len(s)] ==
        IF n = 0 THEN {s}
        ELSE upto[n - 1] \cup UNION {{Replaced(t, i) : i \in Mergeable(t)} : t \in upto[n - 1]}
  IN upto[Len(s)]

\* bpe_merge() ends for a word without the byte 0xFF, with a sequence that the
\* rules lead to and none applies to.
Encoded(w) ==
  LET merged == bpe_merge(w)
  IN IF merged = Forever THEN -1 \in ToSet(w)
     ELSE merged \in Rewritten(w) /\ Mergeable(merged) = {}

\* encode() does so for every word of the texts' characters.
Words == [1 .. 3 -> codes]
EncodeForeseen == limit = 0 => \A w \in Words : Encoded(w)
=============================================================================
