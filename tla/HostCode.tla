------------------------------- MODULE HostCode -------------------------------
(***************************************************************************)
(* The numerical code that runs on the host, in a single thread: the       *)
(* forward pass of LLaMAModel, MoE, FlashAttention and CrossEntropyLoss.   *)
(* k(l, m) is what the call l stores when the memory is m; a vector of the *)
(* code is an array, also one that lives only during the call.             *)
(***************************************************************************)
EXTENDS GpuThreads

At(v, a, i) == IF i \in DOMAIN v THEN v[i] ELSE Sym(<<a, i>>)
PutVector(a, v) == [x \in {<<a, i>> : i \in DOMAIN v} |-> v[x[2]]]
TokenRows(l) == l.batch * l.seq
TokenCells(l) == 0 .. TokenRows(l) * l.hidden - 1

\* ----- LLaMAModel --------------------------------------------------------

rms_norm_host(l, m, x, w, first) ==
  [o \in TokenCells(l) |->
     Made({x[(o \div l.hidden) * l.hidden + j] : j \in 0 .. l.hidden - 1}
          \cup {In(m, w, first + (o % l.hidden))})]

\* The rows lie behind each other as [token][hidden] and are taken for
\* [head][position][head_dim].  Queries, keys and values are all n.  The scores
\* of the later positions stay -INFINITY when they are multiplied with the
\* values.
attention(l, n) ==
  LET size == l.seq * l.head_dim
      own(o) == (o \div size) * size .. (o \div l.head_dim + 1) * l.head_dim - 1
      last(o) == (o \div l.head_dim) % l.seq = l.seq - 1
  IN [o \in 0 .. l.batch * l.heads * size - 1 |->
        IF last(o) THEN Made({At(n, "norm_out", j) : j \in own(o)}) ELSE NaN]

\* The outer loop runs to hidden, not to the number of tokens.
swiglu_mlp(l, m, n, layer) ==
  LET weights == l.hidden * l.intermediate
      all(w) == Row(m, w, layer * weights, weights)
      row(i) == {At(n, "norm_out", i * l.hidden + j) : j \in 0 .. l.hidden - 1}
  IN [o \in 0 .. l.hidden * l.hidden - 1 |->
        Made(row(o \div l.hidden) \cup all("mlp_gate_weight") \cup all("mlp_up_weight") \cup
             Row(m, "mlp_down_weight",
                 layer * weights + (o % l.hidden) * l.intermediate, l.intermediate))]

\* A layer leaves x and residual; what attention() does not reach of the
\* residual stays there from the layer before.
Layer(l, m, layer, s) ==
  LET attended == attention(l, rms_norm_host(l, m, s.x, "attn_norm_weight", layer * l.hidden))
                  @@ s.residual
      residual == [i \in DOMAIN attended |->
                     IF i \in TokenCells(l) THEN Made({attended[i], s.x[i]}) ELSE attended[i]]
      mlp == swiglu_mlp(l, m, rms_norm_host(l, m, residual, "mlp_norm_weight", layer * l.hidden),
                        layer)
             @@ s.x
  IN [x |-> [i \in DOMAIN mlp |->
               IF i \in TokenCells(l) THEN Made({mlp[i], residual[i]}) ELSE mlp[i]],
      residual |-> residual]

llama_forward(l, m) ==
  LET embedded == [o \in TokenCells(l) |->
        In(m, "embed_table", l.tokens[o \div l.hidden] * l.hidden + (o % l.hidden))]
      after[k \in 0 .. l.layers] ==
        IF k = 0 THEN [x |-> embedded, residual |-> [o \in TokenCells(l) |-> Zero]]
        ELSE Layer(l, m, k - 1, after[k - 1])
      norm_out == rms_norm_host(l, m, after[l.layers].x, "final_norm", 0)
      logit(o) == Made({norm_out[(o \div l.vocab) * l.hidden + j] : j \in 0 .. l.hidden - 1}
                       \cup Row(m, "lm_head", (o % l.vocab) * l.hidden, l.hidden))
  IN PutAll("output", 0 .. TokenRows(l) * l.vocab - 1, logit) @@
     PutVector("x", after[l.layers].x) @@ PutVector("residual", after[l.layers].residual)

\* ----- MoE ---------------------------------------------------------------

\* Element k of the weights of expert e, a vector of its own: what lies behind
\* it is not the next expert's.
ExpertWeight(l, m, w, e, k) ==
  LET n == l.hidden * l.intermediate
  IN In(m, w, IF k < n THEN e * n + k ELSE l.num_experts * n + k)

\* experts[token]: the first experts of the sorted scores.  The width of a row
\* is the argument dim, the weights are those of the hidden of init().  A
\* sorted score behind the last expert names no expert.
moe_forward(l, m) ==
  LET scores(t) == Made(Row(m, "input", t * l.dim, l.dim) \cup
                        Row(m, "router_weights", 0, l.num_experts * l.dim))
      w(e, i) == {ExpertWeight(l, m, "w1", e, k) : k \in 0 .. l.intermediate * l.dim - 1} \cup
                 {ExpertWeight(l, m, "w2", e, i * l.intermediate + u) : u \in 0 .. l.intermediate - 1}
      expert(t, e, i) == Made(Row(m, "input", t * l.dim, l.dim) \cup w(e, i) \cup {scores(t)})
      behind == {Sym(<<"scores", k>>) : k \in l.num_experts .. l.top_k - 1}
      output(o) == Plus(Sum({l.experts[o \div l.dim][k] : k \in DOMAIN l.experts[o \div l.dim]},
                            LAMBDA e : expert(o \div l.dim, e, o % l.dim)), Made(behind))
      chosen(e) == IF \E k \in DOMAIN l.experts[TokenRows(l) - 1] : l.experts[TokenRows(l) - 1][k] = e
                   THEN 1 ELSE 0
  IN PutAll("output", 0 .. TokenRows(l) * l.dim - 1, output) @@
     \* the counts are set to zero for every token: those of the last one stay
     PutAll("expert_counts", 0 .. l.num_experts - 1, chosen)

\* packed: w1 and w2 are the same array, which holds both
set_expert_weights(l, m) ==
  LET n == l.hidden * l.intermediate
      cells == l.expert * n .. (l.expert + 1) * n - 1
      w2 == IF l.packed THEN "w1" ELSE "w2"
  IN Below(l.expert, l.num_experts,
       (IF l.size >= n
        THEN PutAll("experts.w1", cells, LAMBDA o : In(m, "w1", o - l.expert * n)) ELSE Nothing) @@
       (IF l.size >= 2 * n
        THEN PutAll("experts.w2", cells, LAMBDA o : In(m, w2, n + o - l.expert * n)) ELSE Nothing))

\* ----- FlashAttention ----------------------------------------------------

flash_attention_host(l, m) ==
  LET n == l.head_dim
      output(o) ==
        LET i == (o \div n) % l.seq
            head == (o \div (n * l.seq)) * l.seq * n
            keys == 0 .. IF l.causal THEN i ELSE l.seq - 1
            p == Made(Row(m, "Q", head + i * n, n) \cup
                      UNION {Row(m, "K", head + j * n, n) : j \in keys})
        IN Sum(keys, LAMBDA j : Made({p, In(m, "V", head + j * n + (o % n))}))
  IN PutAll("O", 0 .. l.batch * l.heads * l.seq * n - 1, output)

\* a placeholder: zeros, and those of one head only
flash_attention_backward(l, m) ==
  LET zeros(a) == PutAll(a, 0 .. TokenRows(l) * l.head_dim - 1, LAMBDA o : Zero)
  IN zeros("dQ") @@ zeros("dK") @@ zeros("dV")

\* ----- CrossEntropyLoss --------------------------------------------------

Ignored(l, i) == l.targets[i] = -100
Smoothed == Sym(<<"one">>)

\* An ignored target skips the rest of its turn: the row of grad_ stays as an
\* earlier call has left it.  Smoothing replaces the probabilities.
cross_entropy_loss(l, m) ==
  LET rows == DOMAIN l.targets
      probs(i) == IF l.smoothing THEN Smoothed ELSE Made(Row(m, "predictions", i * l.vocab, l.vocab))
      of_target(i) == IF l.targets[i] \in 0 .. l.vocab - 1 THEN probs(i)
                      ELSE Sym(<<"probs", l.targets[i]>>)
      kept(o) == IF <<"grad", o>> \in DOMAIN m THEN m[<<"grad", o>>] ELSE Zero
      grad(o) == IF Ignored(l, o \div l.vocab) THEN kept(o) ELSE probs(o \div l.vocab)
  IN Put("loss", 0, Sum({i \in rows : ~Ignored(l, i)}, of_target)) @@
     PutAll("grad", 0 .. Cardinality(rows) * l.vocab - 1, grad)

\* clear(), after which resize() fills with zeros
loss_reset(l, m) ==
  Put("loss", 0, Zero) @@
  PutAll("grad", 0 .. Cardinality(DOMAIN l.targets) * l.vocab - 1, LAMBDA o : Zero)
=============================================================================
