---------------------------- MODULE BPETokenizer ----------------------------
(***************************************************************************)
(* BPETokenizer (token.ii).  A character is its code, a text a sequence of *)
(* words, an entry of the vocabulary the sequence of the basic tokens its  *)
(* string is put together from; that of the code c is "t_" followed by c.  *)
(***************************************************************************)
EXTENDS Integers, SequencesExt, FiniteSetsExt, Functions

CONSTANTS Corpora,     \* the texts train() is called with
          Limits,      \* its vocab_size
          Specials,    \* the four tokens set_special_tokens() is called with
          MaxCalls     \* bound: calls that change the tokenizer

\* The code of a character is that of a signed char.
Chars == -128 .. 127

ASSUME TokenizerAssumption ==
  /\ Corpora \subseteq Seq(Seq(Chars) \ {<<>>})
  /\ Limits \subseteq Nat \ {0}
  /\ \A tokens \in Specials : DOMAIN tokens = 1 .. 4
  /\ MaxCalls \in Nat

VARIABLES
  vocab_,         \* id -> entry
  reverse_vocab_, \* entry -> id
  merges_,        \* pair -> number
  merge_rules_,   \* the pairs that were merged
  special_ids_,   \* bos_id_, eos_id_, pad_id_, unk_id_
  tokenized,      \* of train(): what is left of the words
  origin,         \* ghost: the same words, each token as the codes it stands for
  limit,          \* of train(): vocab_size, or 0
  codes,          \* ghost: the codes of all texts train() was called with
  saved,          \* the file save() has written
  calls           \* how many calls there were
tokenizer == <<vocab_, reverse_vocab_, merges_, merge_rules_, special_ids_,
               tokenized, origin, limit, codes, saved, calls>>

Basic(c) == <<"t", c>>
Unknown == <<"?">>
Entries == DOMAIN vocab_
Pair(s, i) == <<s[i], s[i + 1]>>
Pairs(s) == {Pair(s, i) : i \in 1 .. Len(s) - 1}
\* f, and g where f has no value; f with the value y at x
Over(f, g) == [x \in DOMAIN f \cup DOMAIN g |-> IF x \in DOMAIN f THEN f[x] ELSE g[x]]
Put(f, x, y) == [z \in DOMAIN f \cup {x} |-> IF z = x THEN y ELSE f[z]]
CodesOf(texts) == UNION {ToSet(texts[i]) : i \in DOMAIN texts}

NoFile == <<"no file">>

TokenizerInit ==
  /\ vocab_ = <<>> /\ reverse_vocab_ = <<>>
  /\ merges_ = <<>> /\ merge_rules_ = {}
  /\ special_ids_ = <<-1, -1, -1, -1>>
  /\ tokenized = <<>> /\ origin = <<>> /\ limit = 0
  /\ codes = {} /\ saved = NoFile
  /\ calls = 0

\* The ids follow the order in which the hash set yields the codes.
BuildVocab(texts) ==
  \E order \in SetToSeqs(CodesOf(texts)) :
    /\ vocab_' = [id \in 0 .. Len(order) - 1 |-> <<Basic(order[id + 1])>>]
    /\ reverse_vocab_' = [e \in {<<Basic(c)>> : c \in ToSet(order)} |->
                            CHOOSE id \in 0 .. Len(order) - 1 : <<Basic(order[id + 1])>> = e]

\* A call begins while no other one runs.
Called ==
  /\ limit = 0
  /\ calls < MaxCalls
  /\ calls' = calls + 1

Train(texts, n) ==
  /\ Called
  /\ BuildVocab(texts)
  /\ tokenized' = texts
  /\ origin' = [w \in DOMAIN texts |-> [i \in DOMAIN texts[w] |-> <<texts[w][i]>>]]
  /\ limit' = n
  /\ codes' = codes \cup CodesOf(texts)
  /\ UNCHANGED <<merges_, merge_rules_, special_ids_, saved>>

\* ----- a round of train() ------------------------------------------------

Places(s, p) == {i \in 1 .. Len(s) - 1 : Pair(s, i) = p}
Frequency(p) ==
  LET upto[w \in 0 .. Len(tokenized)] ==
        IF w = 0 THEN 0 ELSE upto[w - 1] + Cardinality(Places(tokenized[w], p))
  IN upto[Len(tokenized)]

\* compute_pair_frequencies() is declared and has no body: the pairs of the
\* words get their frequency in merges_, and the others go or stay.
PairFrequencies ==
  LET counted == [p \in UNION {Pairs(tokenized[w]) : w \in DOMAIN tokenized} |-> Frequency(p)]
  IN {counted, Over(counted, merges_)}

\* Mutated form: the second token of a pair is not skipped.
OccurrencesOverlap(s, p) == Places(s, p)

\* Where a sequence is replaced: from the left, no place twice.
Occurrences(s, p) ==
  LET taken[i \in 0 .. Len(s) - 1] ==
        IF i = 0 THEN {}
        ELSE IF Pair(s, i) = p /\ i - 1 \notin taken[i - 1] THEN taken[i - 1] \cup {i}
             ELSE taken[i - 1]
  IN IF s = <<>> THEN {} ELSE taken[Len(s) - 1]

\* The places of s but those that follow an occurrence
Kept(s, at) ==
  LET upto[i \in 0 .. Len(s)] ==
        IF i = 0 THEN <<>> ELSE IF i - 1 \in at THEN upto[i - 1] ELSE Append(upto[i - 1], i)
  IN upto[Len(s)]

Merged(s, p, id) ==
  LET at == Occurrences(s, p)
      kept == Kept(s, at)
  IN [k \in DOMAIN kept |-> IF kept[k] \in at THEN id ELSE s[kept[k]]]

\* The same for what the tokens of s stand for
Joined(o, s, p) ==
  LET at == Occurrences(s, p)
      kept == Kept(s, at)
  IN [k \in DOMAIN kept |-> IF kept[k] \in at THEN o[kept[k]] \o o[kept[k] + 1] ELSE o[kept[k]]]

\* vocab_[id] of a merged pair: operator[] makes an empty entry of an id it
\* does not know.
Entry(id) == IF id \in Entries THEN vocab_[id] ELSE <<>>

Known(p) == [id \in Entries \cup {p[1], p[2]} |-> Entry(id)]

\* Mutated form: the id is the index of the last entry.
AddMergedOverLast(p, id) ==
  LET token == Entry(p[1]) \o Entry(p[2])
  IN /\ vocab_' = Put(Known(p), id - 1, token)
     /\ reverse_vocab_' = Put(reverse_vocab_, token, id - 1)

AddMerged(p, id) ==
  LET token == Entry(p[1]) \o Entry(p[2])
  IN /\ vocab_' = Put(Known(p), id, token)
     /\ reverse_vocab_' = Put(reverse_vocab_, token, id)

Round ==
  /\ Cardinality(Entries) < limit
  /\ \E counted \in PairFrequencies :
       LET best == Max({0} \cup {Frequency(p) : p \in DOMAIN counted})
           id == Cardinality(Entries)
       IN /\ best > 0
          /\ \E p \in {q \in DOMAIN counted : Frequency(q) = best} :
               /\ AddMerged(p, id)
               /\ merge_rules_' = merge_rules_ \cup {p}
               /\ merges_' = Put(counted, p, best)
               /\ tokenized' = [w \in DOMAIN tokenized |-> Merged(tokenized[w], p, id)]
               /\ origin' = [w \in DOMAIN tokenized |-> Joined(origin[w], tokenized[w], p)]
  /\ UNCHANGED <<special_ids_, limit, codes, saved, calls>>

\* train() returns: the vocabulary is large enough or no pair is left.
TrainReturn ==
  /\ limit > 0
  /\ \/ /\ Cardinality(Entries) >= limit
        /\ UNCHANGED merges_
     \/ /\ Cardinality(Entries) < limit
        /\ \A w \in DOMAIN tokenized : Len(tokenized[w]) < 2
        /\ merges_' \in PairFrequencies
  /\ limit' = 0 /\ tokenized' = <<>> /\ origin' = <<>>
  /\ UNCHANGED <<vocab_, reverse_vocab_, merge_rules_, special_ids_, codes, saved, calls>>

\* ----- the other calls ---------------------------------------------------

\* The token gets the number of entries as its id, whatever has that id.
Added(v, token) ==
  LET id == Cardinality(DOMAIN v.vocab)
  IN [vocab |-> Put(v.vocab, id, token), reverse |-> Put(v.reverse, token, id)]

Vocabulary == [vocab |-> vocab_, reverse |-> reverse_vocab_]
Becomes(v) ==
  /\ Called
  /\ vocab_' = v.vocab
  /\ reverse_vocab_' = v.reverse
  /\ UNCHANGED <<merges_, merge_rules_, tokenized, origin, limit, codes, saved>>

AddSpecialToken(token) ==
  /\ Becomes(Added(Vocabulary, token))
  /\ UNCHANGED special_ids_

SetSpecialTokens(tokens) ==
  /\ Becomes(Added(Added(Added(Added(Vocabulary, tokens[1]), tokens[2]), tokens[3]), tokens[4]))
  /\ special_ids_' = [k \in DOMAIN tokens |-> reverse_vocab_'[tokens[k]]]

Save ==
  /\ Called
  /\ saved' = vocab_
  /\ UNCHANGED <<vocab_, reverse_vocab_, merges_, merge_rules_, special_ids_, tokenized, origin, limit, codes>>

\* Of several ids of one token the line that comes last stays; the lines are
\* in the order of a hash table, here in one of two orders.
Load ==
  /\ Called
  /\ saved # NoFile
  /\ vocab_' = saved
  /\ LET ids(e) == {id \in DOMAIN saved : saved[id] = e}
     IN \E upwards \in BOOLEAN :
          reverse_vocab_' = [e \in Range(saved) |-> IF upwards THEN Max(ids(e)) ELSE Min(ids(e))]
  /\ UNCHANGED <<merges_, merge_rules_, special_ids_, tokenized, origin, limit, codes, saved>>

TokenizerNext ==
  \/ \E texts \in Corpora, n \in Limits : Train(texts, n)
  \/ Round
  \/ TrainReturn
  \/ \E tokens \in Specials : SetSpecialTokens(tokens) \/ AddSpecialToken(tokens[1])
  \/ Save
  \/ Load

TokenizerSpec == TokenizerInit /\ [][TokenizerNext]_tokenizer

\* ----- decode() ----------------------------------------------------------

Text(t) == IF t \in Entries THEN vocab_[t] ELSE <<Unknown>>
Decode(tokens) ==
  LET upto[i \in 0 .. Len(tokens)] == IF i = 0 THEN <<>> ELSE upto[i - 1] \o Text(tokens[i])
  IN upto[Len(tokens)]

\* ----- properties --------------------------------------------------------

\* No character has a code that was, or is the next, to be an id.
Apart == \A c \in codes : c \notin 0 .. Cardinality(Entries)

\* As long as that holds, reverse_vocab_ finds each token where it is, an id of
\* the words means one text, and decode() finds the text of none of them: what
\* train() merges is found under no code and is made of empty strings.
VocabularyForeseen ==
  Apart =>
    /\ \A e \in DOMAIN reverse_vocab_ : vocab_[reverse_vocab_[e]] = e
    /\ \A v, w \in DOMAIN tokenized : \A i \in DOMAIN tokenized[v], j \in DOMAIN tokenized[w] :
         tokenized[v][i] = tokenized[w][j] => origin[v][i] = origin[w][j]
    /\ \A w \in DOMAIN tokenized : ToSet(Decode(tokenized[w])) \subseteq {Unknown}
=============================================================================
