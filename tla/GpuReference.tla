---------------------------- MODULE GpuReference ----------------------------
(***************************************************************************)
(* What the kernels of src/kernel/ are for: the value every element of the *)
(* output is to have, and the launches for which the code gets there.      *)
(***************************************************************************)
EXTENDS GpuKernels

Image(a, n, v(_)) == PutAll(a, 0 .. n - 1, v)
X(a, i) == Sym(<<a, i>>)
Xs(a, S) == {X(a, i) : i \in S}
RowAround(i, n) == LET row == (i \div n) * n IN row .. row + n - 1
Dot(n, x(_), y(_)) == Sum(0 .. n - 1, LAMBDA k : Made({x(k), y(k)}))

\* ----- one element -------------------------------------------------------

VectorSum(l, operands) == Image("c", l.size, LAMBDA i : Made({X(a, i) : a \in operands}))
OuterProduct(l) ==
  Image("c", l.size * l.size, LAMBDA o : Made({X("a", o \div l.size), X("b", o % l.size)}))
Checkpointed(l) ==
  Image("checkpoint", l.size, LAMBDA i : X("input", i)) @@
  Image("grad_input", l.size, LAMBDA i : X("grad_checkpoint", i))
\* what is dropped counts nothing, and the mask remembers it
Dropped(l, others) ==
  Image("mask", l.size, LAMBDA i : IF i \in l.kept THEN One ELSE Zero) @@
  Image("output", l.size, LAMBDA i :
    Sum(others \cup IF i \in l.kept THEN {"input"} ELSE {}, LAMBDA a : X(a, i)))
Stepped(l, operands) ==
  Image("param", l.size, LAMBDA i : Made({X(a, i) : a \in operands}))
Moments(l) ==
  LET moment(a) == Image(a, l.size, LAMBDA i : Made({X(a, i), X("accum_grad", i), X("grad", i)}))
  IN moment("m") @@ moment("v") @@ Image("accum_grad", l.size, LAMBDA i : Zero)
BatchNormed(l) ==
  Image("output", l.batch * l.channels * l.spatial, LAMBDA i :
    Made({X("input", i)} \cup {X(a, (i \div l.spatial) % l.channels) : a \in {"mean", "var", "weight", "bias"}}))
\* less one at the target
LossGradients(l) ==
  Image("grad_logits", l.grid[1] * l.vocab, LAMBDA o :
    Made(Xs("logits", RowAround(o, l.vocab)) \cup
         IF o % l.vocab = l.targets[o \div l.vocab] THEN {One} ELSE {}))

\* ----- sequences of vectors -----------------------------------------------

\* Sequence b goes to the place batch_indices[b] of the batch, as long as it is.
Rebatched(l) ==
  LET moved == {p \in (0 .. l.batch - 1) \X (0 .. l.seq - 1) \X (0 .. l.dim - 1) : p[2] < l.lengths[p[1]]}
      place(p) == (l.batch_indices[p[1]] * l.seq + p[2]) * l.dim + p[3]
      source(o) == CHOOSE p \in moved : place(p) = o
  IN PutAll("output", {place(p) : p \in moved}, LAMBDA o :
       X("input", (source(o)[1] * l.seq + source(o)[2]) * l.dim + source(o)[3]))
\* element d of the positions S of the sequence of i
Along(l, i, S) == Xs("input", {((i \div (l.seq * l.dim)) * l.seq + s) * l.dim + (i % l.dim) : s \in S})
PositionOf(l, i) == (i \div l.dim) % l.seq
Prefixed(l) ==
  Image("output", Total(l), LAMBDA i :
    IF PositionOf(l, i) < l.lengths[i \div (l.seq * l.dim)] THEN X("input", i) ELSE X("output", i))
\* A position of the prefix sees the whole prefix, one behind it also what
\* comes between the prefix and itself.
GlmPrefixed(l) ==
  Image("output", Total(l), LAMBDA i :
    LET prefix == l.lengths[i \div (l.seq * l.dim)]
        seen == {s \in 0 .. l.seq - 1 : s < prefix \/ s <= PositionOf(l, i)}
    IN Sum(Along(l, i, seen), Itself))
\* The positions that both have are copied; everything else stays.
Copied(l, src, dst) ==
  Image(dst, Total(l), LAMBDA i :
    LET s == PositionOf(l, i) - l.dst_offset
    IN IF s >= 0 /\ s + l.src_offset < l.seq
       THEN X(src, i + (l.src_offset - l.dst_offset) * l.dim) ELSE X(dst, i))
\* A position that no page covers has none.
PhysicalPages(l) ==
  Image("physical_pages", l.batch * l.seq, LAMBDA i :
    LET page == (i % l.seq) \div l.block_size
        index == (i \div l.seq) * l.num_pages + page
    IN IF page < l.num_pages THEN Made({X("page_indices", index), X("page_table", l.logical[index])})
       ELSE X("physical_pages", i))
\* the weighted mean of what has come so far
Decayed(l) ==
  Image("output", Total(l), LAMBDA i :
    Sum(0 .. PositionOf(l, i), LAMBDA j :
      Made(Along(l, i, {j}) \cup
           {X(IF j = PositionOf(l, i) THEN "time_first" ELSE "time_decay", i % l.dim)})))
\* what has come so far, each weighted by its distance
Retained(l) ==
  Image("output", Total(l), LAMBDA i :
    Made(Along(l, i, 0 .. PositionOf(l, i)) \cup Xs("retention_weights", 0 .. PositionOf(l, i))))

\* ----- layers of weights --------------------------------------------------

\* The token of o goes up through the row u of every matrix in up, for each u
\* of the intermediate layer, and down through w2.
Perceptron(l, up, o) ==
  Sum(0 .. l.intermediate - 1, LAMBDA u :
    Made(Xs("input", RowAround(o, l.dim)) \cup UNION {Xs(w, u * l.dim .. u * l.dim + l.dim - 1) : w \in up}
         \cup {X("w2", (o % l.dim) * l.intermediate + u)}))
GatedMlp(l) == Image("output", Total(l), LAMBDA o : Perceptron(l, {"w1", "w3"}, o))
MlpResidual(l) ==
  Image("output", Total(l), LAMBDA o : Plus(Perceptron(l, {"w1"}, o), X("input", o)))

\* Attention over the rows of hidden elements of a sequence: a score is made of
\* all of the query and the key, element h of whole rows of values.
Attended(l, o, n, out) ==
  Xs("input", RowAround(o, l.seq * l.hidden)) \cup
  UNION {Xs(w, 0 .. l.hidden * n - 1) : w \in {"q_weight", "k_weight"}} \cup
  IF out THEN Xs("v_weight", 0 .. l.hidden * n - 1) \cup Xs("o_weight", {j * l.hidden + (o % l.hidden) : j \in 0 .. n - 1})
  ELSE Xs("v_weight", {j * n + (o % l.hidden) : j \in 0 .. l.hidden - 1})
AttendedMlp(l, w1, w2, norms) ==
  Image("output", l.batch * l.seq * l.hidden, LAMBDA o :
    Made(Attended(l, o, l.dim, TRUE) \cup UNION {Xs(w, 0 .. l.hidden - 1) : w \in norms}
         \cup UNION {Xs(w, 0 .. l.hidden * l.intermediate - 1) : w \in {w1, w2}}))
NormedAttention(l) ==
  Image("output", l.batch * l.seq * l.hidden, LAMBDA o :
    Made(Attended(l, o, l.dim, FALSE) \cup Xs("norm_weight", 0 .. l.hidden - 1)))

\* ----- windows over images ------------------------------------------------

Places(n, window, stride, pad) == (n + 2 * pad - window) \div stride + 1
Convolved1(l) ==
  LET width == Places(l.width, l.kernel_size, l.stride, l.padding)
      value(b, c, x) ==
        Sum({ip \in (0 .. l.in_channels - 1) \X (0 .. l.width - 1) :
               ip[2] - (x * l.stride - l.padding) \in 0 .. l.kernel_size - 1},
            LAMBDA ip : Made({X("input", (b * l.in_channels + ip[1]) * l.width + ip[2]),
                              X("kernel", (c * l.in_channels + ip[1]) * l.kernel_size
                                          + ip[2] - (x * l.stride - l.padding))}))
  IN Image("output", l.grid[3] * l.out_channels * width, LAMBDA o :
       value(o \div (width * l.out_channels), (o \div width) % l.out_channels, o % width))
\* v(b, c, y, x): the value for the window at y, x
Planes(l, channels, v(_, _, _, _)) ==
  LET height == Places(l.height, l.window, l.stride, l.pad)
      width == Places(l.width, l.window, l.stride, l.pad)
  IN Image("output", l.grid[3] * channels * height * width, LAMBDA o :
       v(o \div (width * height * channels), (o \div (width * height)) % channels,
         (o \div width) % height, o % width))
Seen(l, y, x) ==
  {p \in (0 .. l.height - 1) \X (0 .. l.width - 1) :
     /\ p[1] - (y * l.stride - l.pad) \in 0 .. l.window - 1
     /\ p[2] - (x * l.stride - l.pad) \in 0 .. l.window - 1}
PixelAt(l, b, c, p) == X("input", ((b * l.channels + c) * l.height + p[1]) * l.width + p[2])
Convolved2(l) ==
  Planes(l, l.out_channels, LAMBDA b, c, y, x :
    Sum((0 .. l.channels - 1) \X Seen(l, y, x), LAMBDA ip :
      Made({PixelAt(l, b, ip[1], ip[2]),
            X("kernel", ((c * l.channels + ip[1]) * l.window + ip[2][1] - (y * l.stride - l.pad)) * l.window
                        + ip[2][2] - (x * l.stride - l.pad))})))
Pooled(l, f(_)) ==
  Planes(l, l.channels, LAMBDA b, c, y, x : f({PixelAt(l, b, c, p) : p \in Seen(l, y, x)}))
SumOf(vs) == Sum(vs, Itself)

\* ----- sums --------------------------------------------------------------

OfBlock(l, b) == {i \in b * l.block[1] .. (b + 1) * l.block[1] - 1 : i < l.size}
BlockSums(l, a, out, f(_)) ==
  Image(out, l.grid[1], LAMBDA b : Sum(OfBlock(l, b), LAMBDA i : f(X(a, i))))
Prefixes(l) == Image("output", l.size, LAMBDA i : Sum(0 .. i, LAMBDA j : X("input", j)))
Losses(l) == Image("loss", l.grid[1], LAMBDA b : Made(Xs("logits", RowAround(b * l.vocab, l.vocab))))
AuxLosses(l) ==
  Image("aux_loss", l.num_experts, LAMBDA e :
    LET chosen == {tk \in (0 .. l.tokens - 1) \X (1 .. l.top_k) : l.experts[tk[1]][tk[2]] = e}
    IN IF chosen = {} THEN Zero
       ELSE Made({One} \cup {X("scores", tk[1] * l.top_k + tk[2] - 1) : tk \in chosen}))

\* ----- rows --------------------------------------------------------------

Softmaxes(l) ==
  Image("output", l.batch * l.seq, LAMBDA i : Made(Xs("input", RowAround(i, l.seq))))
RmsNorms(l) ==
  Image("output", Total(l), LAMBDA i :
    Made({X("input", i), X("weight", i % l.dim)} \cup
         {Square(x) : x \in Xs("input", RowAround(i, l.dim))}))
LayerNorms(l, inputs) ==
  Image("output", Total(l), LAMBDA i :
    LET row == UNION {Xs(a, RowAround(i, l.dim)) : a \in inputs}
    IN Made(row \cup {Square(x) : x \in row} \cup {X("weight", i % l.dim), X("bias", i % l.dim)}))
Ropes(l, a, out) ==
  Image(out, Total(l), LAMBDA i :
    LET half == l.dim \div 2
        d == i % l.dim
    IN Made(Xs(a, CASE d < half -> {i, i + half}
                    [] d \in half .. 2 * half - 1 -> {i, i - half}
                    [] OTHER -> {i})))
QkvRopes(l) ==
  LET hd == l.dim \div l.heads
      val(w, o) == Dot(l.hidden, LAMBDA j : X("input", (o \div l.dim) * l.hidden + j),
                                 LAMBDA j : X(w, j * l.hidden + (o % l.dim)))
      pair(o) == IF o % hd < hd \div 2 THEN o + hd \div 2 ELSE o - hd \div 2
  IN Image("q", Total(l), LAMBDA o : Made({val("q_weight", o), val("q_weight", pair(o))}))
     @@ Image("v", Total(l), LAMBDA o : val("v_weight", o))

\* ----- products ----------------------------------------------------------

\* one product per blockIdx.z, the operands at the given distances
Products(l, stride_a, stride_b, stride_c) ==
  PutAll("C", {z * stride_c + i : z \in 0 .. l.grid[3] - 1, i \in 0 .. l.M * l.N - 1}, LAMBDA o :
    LET z == IF l.grid[3] = 1 THEN 0 ELSE o \div stride_c
        i == o - z * stride_c
    IN Dot(l.K, LAMBDA k : X("A", z * stride_a + (i \div l.N) * l.K + k),
                LAMBDA k : X("B", z * stride_b + k * l.N + (i % l.N))))
Int4Products(l) ==
  Image("C", l.M * l.N, LAMBDA i :
    Dot(l.K, LAMBDA k : Nibble(X("A", ((i \div l.N) * l.K + k) \div 2), k),
             LAMBDA k : Nibble(X("B", (k \div 2) * l.N + (i % l.N)), k)))
Gemvs(l) ==
  Image("y", l.M, LAMBDA i : Dot(l.N, LAMBDA j : X("A", i * l.N + j), LAMBDA j : X("x", j)))
SparseRow(l, S) ==
  Sum(S, LAMBDA j : Made({X("values", j), X("dense", l.col_indices[j])}))
CsrProducts(l) ==
  Image("output", l.rows, LAMBDA i : SparseRow(l, l.row_ptr[i] .. l.row_ptr[i + 1] - 1))
CooProducts(l) ==
  Image("output", l.rows, LAMBDA i :
    Plus(X("output", i), SparseRow(l, {j \in 0 .. l.nnz - 1 : l.row_indices[j] = i})))

\* ----- attention ---------------------------------------------------------

\* Query head h of batch b attends to the head kv(h) of kv_heads of the same
\* width, query s to the keys in keys(s).
Attentions(l, kv_heads, kv(_), keys(_)) ==
  LET n == HeadDim(l)
      value(o) ==
        LET d == o % n
            s == (o \div n) % l.seq
            h == (o \div (n * l.seq)) % l.heads
            b == o \div (n * l.seq * l.heads)
            row(j) == ((b * kv_heads + kv(h)) * l.seq + j) * n
            p == Made(Xs("Q", RowAround(o, n)) \cup
                      UNION {Xs("K", row(j) .. row(j) + n - 1) : j \in keys(s)})
        IN Sum(keys(s), LAMBDA j : Made({p, X("V", row(j) + d)}))
  IN Image("O", l.batch * l.heads * l.seq * n, value)
FullAttention(l) == Attentions(l, l.heads, Itself, LAMBDA s : 0 .. l.seq - 1)

\* ----- exchanges ---------------------------------------------------------

Gathered(l) == Image("output", l.size, LAMBDA i : X("input", l.indices[i]))
Scattered(l) ==
  PutAll("output", {l.indices[i] : i \in 0 .. l.size - 1},
         LAMBDA o : X("input", CHOOSE i \in 0 .. l.size - 1 : l.indices[i] = o))
AllGathered(l) == Image("output", l.ranks * l.size, LAMBDA o : X("input", o))
Reduced(l, first) ==
  PutAll("output", first .. first + l.size - 1, LAMBDA o :
    Sum(0 .. l.ranks - 1, LAMBDA r : X("input", r * l.size + o - first)))
Routed(l) ==
  Image("output", l.tokens * l.hidden, LAMBDA o :
    Sum(1 .. l.top_k, LAMBDA k :
      Made({X("input", o), X("scores", (o \div l.hidden) * l.top_k + k - 1)})))

\* the stages of a pipeline
Passed(l) ==
  PutAll("output", l.recv_stage * l.size .. l.recv_stage * l.size + l.size - 1,
         LAMBDA o : X("input", o - l.recv_stage * l.size + l.send_stage * l.size))
Exchanged(l) ==
  LET sent == UNION {{<<r, j>> : j \in 0 .. l.counts[r] - 1} : r \in 0 .. l.ranks - 1}
      of(o) == CHOOSE x \in sent : l.recv_offsets[x[1]] + x[2] = o
  IN PutAll("output", {l.recv_offsets[x[1]] + x[2] : x \in sent},
            LAMBDA o : X("input", l.send_offsets[of(o)[1]] + of(o)[2]))
\* The tokens of an expert lie behind each other in its region.
Dispatches(l) ==
  LET tokens(e) == {t \in 0 .. l.tokens - 1 : \E k \in Chosen(l, t) : l.experts[t][k] = e}
      place(e, t) == (e * l.tokens + Cardinality({u \in tokens(e) : u < t})) * l.hidden
      moved == {etj \in (0 .. l.num_experts - 1) \X (0 .. l.tokens - 1) \X (0 .. l.hidden - 1) :
                  etj[2] \in tokens(etj[1])}
      of(o) == CHOOSE etj \in moved : place(etj[1], etj[2]) + etj[3] = o
  IN PutAll("expert", {place(etj[1], etj[2]) + etj[3] : etj \in moved},
            LAMBDA o : X("input", of(o)[2] * l.hidden + of(o)[3]))
\* the best experts and their weights: all scores of the token decide
RouterScores(l) ==
  LET value(o) == Made(Xs("input", RowAround((o \div l.top_k) * l.hidden, l.hidden))
                       \cup Xs("router_weights", 0 .. l.num_experts * l.hidden - 1))
  IN Image("expert_indices", l.tokens * l.top_k, value) @@ Image("expert_weights", l.tokens * l.top_k, value)
\* both matrices of every chosen expert, which lie behind each other
ExpertSum(l) ==
  LET n == l.hidden * l.intermediate
      w(e, h) == (2 * e * n .. (2 * e + 1) * n - 1) \cup
                 {(2 * e + 1) * n + h * l.intermediate + u : u \in 0 .. l.intermediate - 1}
  IN Image("output", l.tokens * l.hidden, LAMBDA o :
       Sum(Chosen(l, o \div l.hidden), LAMBDA k :
         Made(Xs("input", RowAround(o, l.hidden))
              \cup Xs("expert_weights", w(l.experts[o \div l.hidden][k], o % l.hidden))
              \cup {X("scores", (o \div l.hidden) * l.top_k + k - 1)})))
\* attention and the chosen experts side by side
AttendedExperts(l) ==
  LET chosen(o) == {l.experts[o \div l.hidden][k] : k \in Chosen(l, o \div l.hidden)}
  IN Image("output", l.tokens * l.hidden, LAMBDA o :
       Made(Attended(l, o, l.hidden, FALSE) \cup Xs("router_weights", 0 .. l.num_experts * l.hidden - 1)
            \cup Xs("expert_weights", {(e * l.hidden + j) * l.hidden + (o % l.hidden) :
                                         e \in chosen(o), j \in 0 .. l.hidden - 1})))

\* ----- quantised tensors -------------------------------------------------

GroupOf(l, i) == (i \div l.cols) * CeilDiv(l.cols, l.group_size) + (i % l.cols) \div l.group_size
Members(l, i) == {j \in RowAround(i, l.cols) : GroupOf(l, j) = GroupOf(l, i)}
RoundTrip(l, scale(_)) ==
  Image("decoded", l.rows * l.cols, LAMBDA i : Made({X("input", i)} \cup scale(i)))
Quantised(l, scale(_)) ==
  Image("output", l.rows * l.cols, LAMBDA i : Made({X("input", i)} \cup scale(i)))

\* ----- the code on the host ------------------------------------------------

\* Every logit is made of the tokens of its sequence up to its own and of all
\* weights it depends on.
LlamaLogits(l) ==
  LET layers == l.layers * l.hidden
      mlp == layers * l.intermediate
      value(o) ==
        LET i == o \div l.vocab
            seen == (i \div l.seq) * l.seq .. i
        IN Made({X("embed_table", l.tokens[j] * l.hidden + d) : j \in seen, d \in 0 .. l.hidden - 1}
                \cup Xs("attn_norm_weight", 0 .. layers - 1) \cup Xs("mlp_norm_weight", 0 .. layers - 1)
                \cup UNION {Xs(w, 0 .. mlp - 1) : w \in {"mlp_gate_weight", "mlp_up_weight", "mlp_down_weight"}}
                \cup Xs("final_norm", 0 .. l.hidden - 1)
                \cup Xs("lm_head", (o % l.vocab) * l.hidden .. ((o % l.vocab) + 1) * l.hidden - 1))
  IN Image("output", l.batch * l.seq * l.vocab, value)

MixedExperts(l) ==
  LET n == l.hidden * l.intermediate
      value(o) ==
        LET token == o \div l.hidden
            of(e) == Made(Xs("input", RowAround(o, l.hidden))
                          \cup Xs("router_weights", 0 .. l.num_experts * l.hidden - 1)
                          \cup Xs("w1", e * n .. (e + 1) * n - 1)
                          \cup Xs("w2", {e * n + (o % l.hidden) * l.intermediate + u :
                                           u \in 0 .. l.intermediate - 1}))
        IN Sum({l.experts[token][k] : k \in DOMAIN l.experts[token]}, of)
  IN Image("output", l.batch * l.seq * l.hidden, value)

\* both matrices of the expert, wherever the caller has them
ExpertSet(l) ==
  LET n == l.hidden * l.intermediate
  IN PutAll("experts.w1", l.expert * n .. (l.expert + 1) * n - 1, LAMBDA o : X("w1", o - l.expert * n)) @@
     PutAll("experts.w2", l.expert * n .. (l.expert + 1) * n - 1, LAMBDA o :
       IF l.packed THEN X("w1", n + o - l.expert * n) ELSE X("w2", o - l.expert * n))

\* no gradient where the target is to be ignored
LossAndGradient(l) ==
  LET row(i) == Made(Xs("predictions", RowAround(i * l.vocab, l.vocab)))
      counted == {i \in DOMAIN l.targets : l.targets[i] # -100}
  IN Put("loss", 0, Sum(counted, row)) @@
     Image("grad", Cardinality(DOMAIN l.targets) * l.vocab, LAMBDA o :
       IF o \div l.vocab \in counted THEN row(o \div l.vocab) ELSE Zero)

\* dQ depends on what its query sees, dK and dV on what the queries see that
\* see the key.
AttentionGradients(l) ==
  LET n == l.head_dim
      rows == 0 .. l.seq - 1
      sees(i) == 0 .. IF l.causal THEN i ELSE l.seq - 1
      from(a, S, o) == UNION {Xs(a, RowAround((o \div (n * l.seq)) * n * l.seq + s * n, n)) : s \in S}
      value(o, queries, keys) ==
        Made(from("Q", queries, o) \cup from("dO", queries, o) \cup
             UNION {from(a2, UNION {sees(i) : i \in queries}, o) : a2 \in keys})
      position(o) == (o \div n) % l.seq
      seeing(o) == {i \in rows : position(o) \in sees(i)}
      all == l.batch * l.heads * l.seq * n
  IN Image("dQ", all, LAMBDA o : value(o, {position(o)}, {"K", "V"})) @@
     Image("dK", all, LAMBDA o : value(o, seeing(o), {"K", "V"})) @@
     Image("dV", all, LAMBDA o : value(o, seeing(o), {"K"}))
NoLoss(l) ==
  Put("loss", 0, Zero) @@ Image("grad", Cardinality(DOMAIN l.targets) * l.vocab, LAMBDA o : Zero)

\* ----- one function for the kernels that compute the same -----------------

Expected(l) ==
  CASE l.kernel \in {"silu", "relu", "gelu", "cast", "bf16_convert", "fp16_convert", "fp8_quant", "fp8_dequant",
                     "positional_embedding"} ->
         Image("output", l.size, LAMBDA i : X("input", i))
    [] l.kernel = "fp16_to_fp32_vectorized" -> Image("output", 2 * l.size, LAMBDA i : X("input", i))
    [] l.kernel = "vec_add" -> VectorSum(l, {"a", "b"})
    [] l.kernel = "elementwise_ops" -> VectorSum(l, IF l.binary THEN {"a", "b"} ELSE {"a"})
    [] l.kernel = "outer_product" -> OuterProduct(l)
    [] l.kernel = "grad_checkpoint" -> Checkpointed(l)
    [] l.kernel = "dropout" -> Dropped(l, {})
    [] l.kernel = "dropout_residual" -> Dropped(l, {"residual"})
    [] l.kernel = "grad_clip" -> Image("grad", l.size, LAMBDA i : X("grad", i))
    [] l.kernel = "sgd_step" -> Stepped(l, {"param", "grad"} \cup IF l.momentum THEN {"velocity"} ELSE {})
    [] l.kernel = "grad_accum_adamw" -> Stepped(l, {"param", "grad", "accum_grad", "m", "v"}) @@ Moments(l)
    [] l.kernel = "batch_norm_forward" -> BatchNormed(l)
    [] l.kernel = "loss_backward" -> LossGradients(l)
    [] l.kernel = "continuous_batching" -> Rebatched(l)
    [] l.kernel = "prefix_lm" -> Prefixed(l)
    [] l.kernel = "glm_prefix" -> GlmPrefixed(l)
    [] l.kernel = "kv_cache_copy" -> Copied(l, "src_k", "dst_k") @@ Copied(l, "src_v", "dst_v")
    [] l.kernel = "page_lookup" -> PhysicalPages(l)
    [] l.kernel = "rwkv_attn" -> Decayed(l)
    [] l.kernel = "retnet_retention" -> Retained(l)
    [] l.kernel \in {"mlp_glu", "geglu", "reglu", "swiglu"} -> GatedMlp(l)
    [] l.kernel = "mlp_residual" -> MlpResidual(l)
    [] l.kernel = "attn_mlp" -> AttendedMlp(l, "w1", "w2", {})
    [] l.kernel = "fused_transformer_block" -> AttendedMlp(l, "mlp_w1", "mlp_w2", {"norm_weight1", "norm_weight2"})
    [] l.kernel = "fused_rmsnorm_attn" -> NormedAttention(l)
    [] l.kernel = "conv1d" -> Convolved1(l)
    [] l.kernel = "conv2d" -> Convolved2(l)
    [] l.kernel = "maxpool2d" -> Pooled(l, Made)
    [] l.kernel = "avgpool2d" -> Pooled(l, SumOf)
    [] l.kernel \in {"reduce_sum", "reduce_max_min", "reduce_sum_warps"} ->
         BlockSums(l, "input", "output", Itself)
    [] l.kernel = "grad_norm" -> BlockSums(l, "grad", "norm", Square)
    [] l.kernel \in {"scan", "scan_warps"} -> Prefixes(l)
    [] l.kernel \in {"cross_entropy", "cross_entropy_fp16"} -> Losses(l)
    [] l.kernel = "moe_aux_loss" -> AuxLosses(l)
    [] l.kernel \in {"softmax", "softmax_shared"} -> Softmaxes(l)
    [] l.kernel \in {"rms_norm", "rms_norm_shared", "rms_norm_fused", "rms_norm_fp16"} -> RmsNorms(l)
    [] l.kernel \in {"layer_norm", "layer_norm_forward", "layer_norm_fused"} -> LayerNorms(l, {"input"})
    [] l.kernel = "add_layernorm" -> LayerNorms(l, {"input1", "input2"})
    [] l.kernel = "rope" -> Ropes(l, "input", "output")
    [] l.kernel = "rope_fused" -> Ropes(l, "q", "q") @@ Ropes(l, "k", "k")
    [] l.kernel = "qkv_rope" -> QkvRopes(l)
    [] l.kernel \in {"matmul_naive", "matmul_shared", "matmul_fp16", "matmul_bf16", "matmul_int8"} ->
         Products(l, 0, 0, 0)
    [] l.kernel = "batched_matmul" -> Products(l, l.M * l.K, l.K * l.N, l.M * l.N)
    [] l.kernel = "strided_batched_matmul" -> Products(l, l.stride_a, l.stride_b, l.stride_c)
    [] l.kernel = "matmul_int4" -> Int4Products(l)
    [] l.kernel \in {"gemv", "gemv_shared"} -> Gemvs(l)
    [] l.kernel \in {"csr_matmul", "block_csr_matmul"} -> CsrProducts(l)
    [] l.kernel = "coo_matmul" -> CooProducts(l)
    [] l.kernel \in {"mha", "ulysses_attention", "single_head_attention",
                     "flash_attention", "flash_attention_block", "flash_attention_online",
                     "paged_attention", "flash_attn2_forward", "fused_rope_attn"} -> FullAttention(l)
    [] l.kernel = "mqa" -> Attentions(l, 1, LAMBDA h : 0, LAMBDA s : 0 .. l.seq - 1)
    [] l.kernel = "gqa" -> Attentions(l, l.kv_heads, LAMBDA h : h \div (l.heads \div l.kv_heads),
                                      LAMBDA s : 0 .. l.seq - 1)
    [] l.kernel = "causal_attention" -> Attentions(l, l.heads, Itself, LAMBDA s : 0 .. s)
    [] l.kernel = "sparse_attention" ->
         Attentions(l, l.heads, Itself, LAMBDA s :
           {j \in 0 .. l.seq - 1 : l.mask[s \div l.block_size][j \div l.block_size] # 0})
    [] l.kernel = "sliding_window_attention" ->
         Attentions(l, l.heads, Itself,
                    LAMBDA s : {j \in 0 .. l.seq - 1 : j \in s - l.window .. s + l.window})
    [] l.kernel = "gather" -> Gathered(l)
    [] l.kernel = "scatter" -> Scattered(l)
    [] l.kernel \in {"tensor_parallel_allgather", "context_parallel_allgather"} -> AllGathered(l)
    [] l.kernel \in {"tensor_parallel_allreduce", "data_parallel_grad_sync", "ring_allreduce"} ->
         Reduced(l, l.rank * l.size)
    [] l.kernel = "context_parallel_allreduce" -> Reduced(l, 0)
    [] l.kernel = "pipeline_sendrecv" -> Passed(l)
    [] l.kernel = "ulysses_alltoall" -> Exchanged(l)
    [] l.kernel \in {"moe_alltoall_dispatch", "expert_parallel_dispatch"} -> Dispatches(l)
    [] l.kernel \in {"moe_alltoall_combine", "expert_parallel_combine"} -> Routed(l)
    [] l.kernel = "moe_router" -> RouterScores(l)
    [] l.kernel = "moe_expert_forward" -> ExpertSum(l)
    [] l.kernel = "fused_moe_attn" -> AttendedExperts(l)
    [] l.kernel = "quantize_int8" -> Quantised(l, LAMBDA i : Xs("input", 0 .. l.size - 1))
    [] l.kernel = "quantize_int8_per_tensor" ->
         Quantised(l, LAMBDA i : {Largest(Sum(0 .. l.size - 1, LAMBDA j : X("input", j)))})
    [] l.kernel = "quant_gptq" ->
         Quantised(l, LAMBDA i : {X("scale", GroupOf(l, i)), X("zero_point", GroupOf(l, i))})
    [] l.kernel = "ggml_q8_0" -> Quantised(l, LAMBDA i : Xs("input", RowAround(i, l.cols)))
    [] l.kernel = "ggml_q5_0" ->
         Image("output", 5 * l.rows * l.cols, LAMBDA bit :
           Made({X("input", bit \div 5), Scale(bit \div (5 * l.cols))}))
    [] l.kernel = "dequantize_int8" ->
         RoundTrip(l, LAMBDA i : Xs("input", 0 .. l.size - 1))
    [] l.kernel = "dequantize_int8_per_tensor" ->
         RoundTrip(l, LAMBDA i : {Largest(Sum(0 .. l.size - 1, LAMBDA j : X("input", j)))})
    [] l.kernel = "dequant_gptq" ->
         RoundTrip(l, LAMBDA i : {X("scale", GroupOf(l, i)), X("zero_point", GroupOf(l, i))})
    [] l.kernel = "awq_quant" -> Quantised(l, LAMBDA i : Xs("input", Members(l, i)))
    [] l.kernel = "smoothquant" -> Quantised(l, LAMBDA i : Xs("input", RowAround(i, l.cols)))
    [] l.kernel = "quantize_int4" -> Quantised(l, LAMBDA i : {Scale(0)})
    [] l.kernel = "ggml_q4_0" -> Quantised(l, LAMBDA i : {Scale(i \div l.cols)})
    [] l.kernel = "ggml_q4_1" ->
         Quantised(l, LAMBDA i : {Scale(i \div l.cols), Sym(<<"row minimum", i \div l.cols>>)})
    [] l.kernel = "llama_forward" -> LlamaLogits(l)
    [] l.kernel = "moe_forward" -> MixedExperts(l)
    [] l.kernel = "set_expert_weights" -> ExpertSet(l)
    [] l.kernel = "flash_attention_host" ->
         Attentions(l, l.heads, Itself, LAMBDA s : 0 .. IF l.causal THEN s ELSE l.seq - 1)
    [] l.kernel = "cross_entropy_loss" -> LossAndGradient(l)
    [] l.kernel = "flash_attention_backward" -> AttentionGradients(l)
    [] l.kernel = "loss_reset" -> NoLoss(l)

Results(l) == {x \in DOMAIN memory : OfDevice(x) /\ x[1] \in DOMAIN l.length}

\* A result is made of a register or of shared memory nobody has written, or
\* of no number.
Undefined(l) ==
  \E x \in Results(l) : \E y \in Inputs(memory[x]) : Len(y) = 3 \/ y = <<"NaN">>

Flashes == {"flash_attention", "flash_attention_block", "flash_attention_online", "paged_attention"}

\* The flash kernels round and rescale on the way, and of whole layers only
\* what enters is stated: there it does not count how often.
WholeLayers == {"attn_mlp", "fused_moe_attn", "fused_rmsnorm_attn", "fused_transformer_block"}
Correct(l) ==
  /\ \A x \in DOMAIN Expected(l) :
       IF l.kernel \in Flashes \cup WholeLayers THEN Inputs(Get(memory, x)) = DOMAIN Expected(l)[x]
       ELSE Get(memory, x) = Expected(l)[x]
  /\ \A a \in l.out : \A i \in 0 .. l.length[a] - 1 : <<a, i>> \in DOMAIN memory
  /\ ~Undefined(l)

Diverged(l) ==
  \E t, u \in Threads(l) : Block(t) = Block(u) /\ at[t] # at[u]

\* ----- the launches that do as they should --------------------------------

PowerOfTwo(n) == \E k \in 0 .. n : n = 2 ^ k
Distinct(f) == \A i, j \in DOMAIN f : i # j => f[i] # f[j]
Width(l) == l.block[1]

\* Two threads interfere: what they leave depends on who comes first.
Racy(l) ==
  CASE l.kernel = "scatter" -> ~Distinct(l.indices)
    [] l.kernel = "continuous_batching" -> ~Distinct(l.batch_indices)
    [] l.kernel \in {"moe_alltoall_dispatch", "expert_parallel_dispatch"} ->
         \E t, u \in 0 .. l.tokens - 1 :
            t # u /\ \E k \in Chosen(l, t), n \in Chosen(l, u) : l.experts[t][k] = l.experts[u][n]
    [] l.kernel = "awq_quant" -> l.cols % l.group_size # 0 /\ l.rows > 1
    [] l.kernel \in {"quantize_int4", "ggml_q4_0", "ggml_q4_1", "ggml_q5_0"} -> l.size > 1
    [] l.kernel = "softmax_shared" -> l.seq > 1 /\ Width(l) > 1
    [] l.kernel \in {"layer_norm_forward", "add_layernorm", "layer_norm_fused"} -> Width(l) > 1
    [] l.kernel = "block_csr_matmul" ->
         Width(l) > 1 /\ \E r \in 0 .. l.M - 1 : l.row_ptr[r + 1] - l.row_ptr[r] > 1
    [] l.kernel = "single_head_attention" -> l.seq > l.dim
    [] l.kernel \in Flashes -> l.block[2] > 1 /\ l.block_size > 1
    [] l.kernel = "fused_rmsnorm_attn" -> Width(l) > 1 \/ (l.dim > l.hidden /\ l.grid[1] > 1)
    [] OTHER -> FALSE

\* An earlier call of the stream, after the last reset(), stored row i of grad_.
Counted(n, i) ==
  \E k \in 1 .. n :
     /\ Streams[stream][k].kernel = "cross_entropy_loss"
     /\ ~Ignored(Streams[stream][k], i)
     /\ \A j \in k .. n : Streams[stream][j].kernel # "loss_reset"

\* The output has as many places as the code, which takes the size of the
\* input for it, stores in each plane; or the places agree where it has fewer.
SameLayout(width, height, in_width, in_height, planes) ==
  /\ width <= in_width /\ height <= in_height
  /\ width = in_width \/ height = 1
  /\ width * height = in_width * in_height \/ planes = 1
SamePlanes(l, channels) ==
  SameLayout(Places(l.width, l.window, l.stride, l.pad), Places(l.height, l.window, l.stride, l.pad),
             l.width, l.height, l.grid[3] * channels)

\* Without interference the result is what the kernel is for.
Fits(l) ==
  CASE l.kernel \in {"reduce_sum", "reduce_max_min", "grad_norm", "moe_aux_loss",
                     "rms_norm_fused", "rms_norm_fp16"} -> PowerOfTwo(Width(l))
    [] l.kernel = "reduce_sum_warps" -> Width(l) % Warp = 0
    [] l.kernel \in {"cross_entropy", "cross_entropy_fp16"} ->
         Width(l) = 1 /\ \A b \in DOMAIN l.targets : l.targets[b] \in 0 .. l.vocab - 1
    [] l.kernel = "glm_prefix" ->
         l.seq <= 2 /\ \A b \in DOMAIN l.lengths : l.lengths[b] = 1
    [] l.kernel = "kv_cache_copy" -> l.src_offset <= l.dst_offset /\ (l.dst_offset = 0 \/ l.batch = 1)
    [] l.kernel = "page_lookup" -> l.seq <= l.num_pages * l.block_size
    [] l.kernel = "retnet_retention" -> l.seq = 1 /\ l.dim = 1
    \* w2 of the gated layers, the queries, keys and values of attn_mlp and
    \* o_weight of the transformer block are parameters nothing reads.
    [] l.kernel \in {"geglu", "reglu", "swiglu", "attn_mlp", "fused_transformer_block",
                     "flash_attention_backward"} -> FALSE
    [] l.kernel = "fused_rmsnorm_attn" -> Width(l) = 1 /\ l.seq = 1 /\ l.dim = 1 /\ l.hidden = 1
    [] l.kernel = "fused_moe_attn" -> l.seq = 1 /\ l.hidden = 1
    [] l.kernel = "conv1d" ->
         SameLayout(Places(l.width, l.kernel_size, l.stride, l.padding), 1, l.width, 1, l.grid[3] * l.out_channels)
    [] l.kernel = "conv2d" -> SamePlanes(l, l.out_channels)
    [] l.kernel \in {"maxpool2d", "avgpool2d"} ->
         /\ SamePlanes(l, l.channels)
         /\ \A t \in Threads(l) : OutH(l, t) < l.height /\ OutW(l, t) < l.width => Taps(l, t) # {}
    [] l.kernel = "quantize_int8_per_tensor" -> PowerOfTwo(Width(l))
    [] l.kernel = "scan" -> l.grid[1] = 1
    [] l.kernel = "scan_warps" -> l.grid[1] = 1 /\ Width(l) < Warp
    [] l.kernel = "softmax_shared" -> Width(l) >= l.seq
    [] l.kernel \in {"rms_norm_shared", "layer_norm_fused", "qkv_rope", "ring_allreduce",
                     "expert_parallel_combine"} -> FALSE
    [] l.kernel = "rope" -> l.dim % 2 = 0
    [] l.kernel \in {"matmul_fp16", "matmul_bf16", "matmul_int8", "matmul_int4"} -> l.K % Tile = 0
    [] l.kernel = "gemv_shared" -> l.M % Width(l) = 0 \/ l.N <= l.M % Width(l)
    [] l.kernel = "gqa" -> l.kv_heads = l.heads
    [] l.kernel = "sparse_attention" -> \A b, c \in DOMAIN l.mask : l.mask[b][c] # 0
    [] l.kernel = "ulysses_attention" -> l.parallel = 1
    [] l.kernel = "single_head_attention" -> l.seq = 1 /\ l.dim = 1
    [] l.kernel \in Flashes -> l.block_size = 1 /\ l.seq = 1
    [] l.kernel = "flash_attn2_forward" -> l.batch * l.heads * l.seq * HeadDim(l) = 1
    [] l.kernel = "context_parallel_allgather" -> l.ranks = 1
    [] l.kernel = "moe_alltoall_combine" -> l.tokens = 1
    [] l.kernel = "moe_router" -> l.top_k <= l.num_experts
    [] l.kernel = "dequantize_int8_per_tensor" -> l.grid[1] = 1
    [] l.kernel \in {"quant_gptq", "dequant_gptq"} -> l.cols % l.group_size = 0 \/ l.rows = 1
    [] l.kernel = "llama_forward" ->
         /\ l.seq = 1
         /\ l.batch <= l.hidden
    [] l.kernel = "moe_forward" -> l.dim = l.hidden /\ l.top_k <= l.num_experts
    [] l.kernel = "set_expert_weights" -> l.packed /\ l.expert < l.num_experts
    [] l.kernel = "cross_entropy_loss" ->
         \A i \in DOMAIN l.targets :
            IF Ignored(l, i) THEN ~Counted(launch - 1, i)
            ELSE ~l.smoothing /\ l.targets[i] \in 0 .. l.vocab - 1
    [] OTHER -> TRUE

\* An array is read or stored to where it has no element.
Dispatched(l, e) == Cardinality({t \in 0 .. l.tokens - 1 : \E k \in Chosen(l, t) : l.experts[t][k] = e})
Overhang(l) == (CeilDiv(l.seq, FlashBlock) - 1) * FlashBlock + Width(l) > l.seq
Overruns(l) ==
  CASE l.kernel = "fp16_to_fp32_vectorized" -> 2 * l.size > l.length["output"]
    [] l.kernel = "kv_cache_copy" -> l.dst_offset + l.src_offset > 0
    [] l.kernel = "page_lookup" ->
         \E b \in 0 .. l.batch - 1, s \in 0 .. l.seq - 1 :
            LET index == b * l.num_pages + s \div l.block_size
            IN index \notin DOMAIN l.logical \/ l.logical[index] \notin 0 .. l.length["page_table"] - 1
    [] l.kernel = "gather" -> \E i \in DOMAIN l.indices : l.indices[i] \notin 0 .. l.length["input"] - 1
    [] l.kernel = "scatter" -> \E i \in DOMAIN l.indices : l.indices[i] \notin 0 .. l.length["output"] - 1
    [] l.kernel = "csr_matmul" ->
         \E j \in 0 .. l.row_ptr[l.rows] - 1 : l.col_indices[j] \notin 0 .. l.length["dense"] - 1
    [] l.kernel \in {"cross_entropy", "cross_entropy_fp16"} ->
         \E b \in DOMAIN l.targets : b * l.vocab + l.targets[b] \notin 0 .. l.length["logits"] - 1
    [] l.kernel \in {"geglu", "reglu", "swiglu"} -> l.length["w1"] < l.dim * l.dim
    [] l.kernel \in {"mlp_residual", "mlp_glu", "attn_mlp", "moe_expert_forward"} -> l.intermediate > Temp
    [] l.kernel \in {"moe_router", "fused_moe_attn"} -> l.num_experts > Slots \/ l.top_k > Slots
    [] l.kernel = "expert_parallel_combine" ->
         \E t \in 0 .. l.tokens - 1 : \E k \in Chosen(l, t) : LET e == l.experts[t][k] IN
            e * l.tokens + Dispatched(l, e) + t >= l.num_experts * l.tokens
    [] l.kernel = "single_head_attention" -> l.seq > l.dim
    [] l.kernel = "flash_attention" -> Overhang(l)
    [] l.kernel \in {"flash_attention_online", "paged_attention"} ->
         Overhang(l) \/ (l.dim > FlashBlock /\ l.block[2] > FlashBlock)
    [] l.kernel = "flash_attention_block" -> l.q_start + Width(l) > l.seq
    [] l.kernel = "flash_attn2_forward" ->
         Overhang(l) \/ l.batch > 1 \/ HeadDim(l) > FlashBlock \/ (l.heads - 1) * FlashBlock + Width(l) > l.seq
    [] l.kernel = "fused_rmsnorm_attn" -> l.dim > l.hidden \/ l.hidden > Room
    [] l.kernel = "fused_transformer_block" ->
         l.dim > l.hidden \/ l.hidden > Room \/ l.dim > Room \/ l.intermediate > Temp
    [] l.kernel = "llama_forward" ->
         \/ l.batch * l.seq < l.hidden
         \/ l.heads * l.head_dim > l.hidden
         \/ \E i \in DOMAIN l.tokens : l.tokens[i] >= l.vocab
    [] l.kernel = "moe_forward" -> l.top_k > l.num_experts \/ l.length["w1"] = 0 \/ l.dim > l.hidden
    [] l.kernel = "set_expert_weights" ->
         l.expert < l.num_experts /\ l.size >= 2 * l.hidden * l.intermediate /\ ~l.packed
    [] l.kernel = "cross_entropy_loss" ->
         ~\A i \in DOMAIN l.targets : Ignored(l, i) \/ l.targets[i] \in 0 .. l.vocab - 1
    [] OTHER -> FALSE

\* The threads of a block do not all reach the same barriers.
Barriers(l, row) == IF row < l.M THEN l.row_ptr[row + 1] - l.row_ptr[row] ELSE 0
Divergent(l) ==
  CASE l.kernel = "gemv_shared" -> l.M % Width(l) # 0
    [] l.kernel = "rms_norm_shared" -> Total(l) % Width(l) # 0
    [] l.kernel = "block_csr_matmul" ->
         \E t, u \in Threads(l) : Block(t) = Block(u) /\ Barriers(l, RowT(t)) # Barriers(l, RowT(u))
    [] OTHER -> FALSE

\* ----- properties --------------------------------------------------------

\* Which launches leave something that depends on the order of their threads
\* is exactly what Racy says: no schedule of any other launch meets two
\* threads that interfere, and every schedule of these does.
OrderForeseen ==
  Done => (raced <=> \E k \in DOMAIN Streams[stream] : Racy(Streams[stream][k]))

\* A launch without interference, in which no array has been left so far, ends
\* in every order of its threads with what the kernel is for in every element
\* of Expected, made of each input as often as it should be (of whole layers
\* and under rescaling: of the inputs it should be), exactly if Fits says so.
ResultForeseen ==
  Running = {} /\ ~raced /\ ~strayed => (Correct(Launch) <=> Fits(Launch))

\* Of the arrays the launches of the model name, and of the local arrays of
\* fixed size, a thread reads or stores an element that is not there exactly
\* in the launches of Overruns, and there in every order of the threads.
StraysForeseen ==
  Running = {} => (strayed <=> \E k \in 1 .. launch : Overruns(Streams[stream][k]))

\* Some threads of a block wait at a barrier that others do not come to
\* exactly in the launches Divergent names.
DivergenceForeseen == Done => (Diverged(Launch) <=> Divergent(Launch))
=============================================================================
