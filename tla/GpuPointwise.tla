---------------------------- MODULE GpuPointwise ----------------------------
(***************************************************************************)
(* The kernels of src/kernel/ without a barrier in which a thread computes *)
(* one element of the output: what the thread with the flat index i, or    *)
(* the thread t, of the launch l stores when the memory is m.              *)
(***************************************************************************)
EXTENDS GpuThreads

\* ----- one input element, one output element ---------------------------

\* Mutated form: the threads up to and with size.
UnaryOneMore(l, i, m) == Below(i, l.size + 1, Put("output", i, Made({In(m, "input", i)})))

Unary(l, i, m) == Below(i, l.size, Put("output", i, Made({In(m, "input", i)})))

silu(l, i, m) == Unary(l, i, m)
relu(l, i, m) == Unary(l, i, m)
gelu(l, i, m) == Unary(l, i, m)
cast(l, i, m) == Unary(l, i, m)
bf16_convert(l, i, m) == Unary(l, i, m)
fp16_convert(l, i, m) == Unary(l, i, m)
fp8_quant(l, i, m) == Unary(l, i, m)
fp8_dequant(l, i, m) == Unary(l, i, m)

\* size counts pairs here: half2 and float2
fp16_to_fp32_vectorized(l, i, m) ==
  Below(i, l.size, PutAll("output", {2 * i, 2 * i + 1}, LAMBDA j : In(m, "input", j)))

vec_add(l, i, m) ==
  Below(i, l.size, Put("c", i, Made({In(m, "a", i), In(m, "b", i)})))

elementwise_ops(l, i, m) ==
  Below(i, l.size,
    Put("c", i, Made({In(m, a, i) : a \in IF l.binary THEN {"a", "b"} ELSE {"a"}})))

outer_product(l, t, m) ==
  LET idx == Gid(l, t)
      idy == t.by * l.block[2] + t.ty
  IN Below(idx, l.size, Below(idy, l.size,
       Put("c", idx * l.size + idy, Made({In(m, "a", idx), In(m, "b", idy)}))))

grad_checkpoint(l, i, m) ==
  Below(i, l.size, Put("checkpoint", i, In(m, "input", i)) @@
                   Put("grad_input", i, In(m, "grad_checkpoint", i)))

\* kept: the indices whose pseudo-random number is below 1 - rate
One == Sym(<<"one">>)
dropout(l, i, m) ==
  Below(i, l.size,
    IF i \in l.kept
    THEN Put("output", i, Made({In(m, "input", i)})) @@ Put("mask", i, One)
    ELSE Put("output", i, Zero) @@ Put("mask", i, Zero))

dropout_residual(l, i, m) ==
  Below(i, l.size,
    IF i \in l.kept
    THEN Put("output", i, Plus(Made({In(m, "input", i)}), In(m, "residual", i)))
         @@ Put("mask", i, One)
    ELSE Put("output", i, In(m, "residual", i)) @@ Put("mask", i, Zero))

\* ----- the optimiser steps -----------------------------------------------

sgd_step(l, i, m) ==
  LET p == In(m, "param", i)
      g == Made({In(m, "grad", i), p})
      v == Made({In(m, "velocity", i), g})
  IN Below(i, l.size, IF l.momentum
                      THEN Put("velocity", i, v) @@ Put("param", i, Made({p, v}))
                      ELSE Put("param", i, Made({p, g})))

grad_accum_adamw(l, i, m) ==
  LET ag == Plus(In(m, "accum_grad", i), In(m, "grad", i))
      mv == Made({In(m, "m", i), ag})
      vv == Made({In(m, "v", i), ag})
  IN Below(i, l.size, Put("m", i, mv) @@ Put("v", i, vv) @@
                      Put("param", i, Made({In(m, "param", i), mv, vv})) @@
                      Put("accum_grad", i, Zero))

grad_clip(l, i, m) == Below(i, l.size, Put("grad", i, Made({In(m, "grad", i)})))

\* ----- positions of a batch of sequences of vectors ----------------------

Total(l) == l.batch * l.seq * l.dim
Position(l, i) == [b |-> i \div (l.seq * l.dim), s |-> (i \div l.dim) % l.seq, d |-> i % l.dim]
Flat(l, b, s, d) == b * l.seq * l.dim + s * l.dim + d

positional_embedding(l, i, m) ==
  LET p == Position(l, i)
      o == Flat(l, p.b, p.s, p.d)
  IN Below(i, Total(l), Put("output", o, Made({In(m, "input", o)})))

rope(l, i, m) ==
  LET half == l.dim \div 2
      pair == IF i % l.dim < half THEN i + half ELSE i - half
  IN Below(i, Total(l), Put("output", i, Made({In(m, "input", i), In(m, "input", pair)})))

\* in place: the thread of the first half stores both elements of the pair
rope_fused(l, i, m) ==
  LET half == l.dim \div 2
      both(a) == Made({In(m, a, i), In(m, a, i + half)})
  IN Below(i, Total(l), Below(i % l.dim, half,
       PutAll("q", {i, i + half}, LAMBDA j : both("q")) @@
       PutAll("k", {i, i + half}, LAMBDA j : both("k"))))

batch_norm_forward(l, i, m) ==
  LET c == (i \div l.spatial) % l.channels
  IN Below(i, l.batch * l.channels * l.spatial,
       Put("output", i, Made({In(m, "input", i)} \cup
                             {In(m, a, c) : a \in {"mean", "var", "weight", "bias"}})))

continuous_batching(l, i, m) ==
  LET p == Position(l, i)
  IN Below(i, Total(l), Below(p.s, l.lengths[p.b],
       Put("output", Flat(l, l.batch_indices[p.b], p.s, p.d),
                     In(m, "input", Flat(l, p.b, p.s, p.d)))))

prefix_lm(l, i, m) ==
  LET p == Position(l, i)
  IN Below(i, Total(l),
       IF p.s < l.lengths[p.b] THEN Put("output", i, In(m, "input", i)) ELSE Nothing)

\* sum / prefix_len, where prefix_len may be 0
glm_prefix(l, i, m) ==
  LET p == Position(l, i)
      prefix == IF l.lengths[p.b] = 0 THEN NaN
                ELSE Sum(0 .. l.lengths[p.b] - 1, LAMBDA j : In(m, "input", Flat(l, p.b, j, p.d)))
  IN Below(i, Total(l),
       Put("output", i, IF p.s < l.lengths[p.b] THEN In(m, "input", i)
                        ELSE Plus(In(m, "input", i), prefix)))

\* (b, h, s, d) with the heads between batch and position; seq is the stride
kv_cache_copy(l, i, m) ==
  LET s == (i \div l.dim) % l.seq
      at(offset) == i - s * l.dim + (s + offset) * l.dim
  IN Below(i, Total(l), Put("dst_k", at(l.dst_offset), In(m, "src_k", at(l.src_offset))) @@
                        Put("dst_v", at(l.dst_offset), In(m, "src_v", at(l.src_offset))))

\* logical: what page_indices holds; behind it lies any number at all
page_lookup(l, i, m) ==
  LET b == i \div l.seq
      s == i % l.seq
      index == b * l.num_pages + s \div l.block_size
  IN Below(i, l.batch * l.seq,
       Put("physical_pages", b * l.seq + s,
           Made({In(m, "page_indices", index)} \cup
                {In(m, "page_table", l.logical[p]) : p \in DOMAIN l.logical \cap {index}})))

\* ----- a row of the input for every element of the output ----------------

softmax(l, i, m) ==
  LET row == (i \div l.seq) * l.seq
  IN Below(i, l.batch * l.seq,
       Put("output", i, Made({In(m, "input", i),
                              Sum(row .. row + l.seq - 1, LAMBDA j : In(m, "input", j))})))

Square(v) == SetToBag({<<"square", x>> : x \in DOMAIN v})
SumOfSquares(m, first, S) == Sum(S, LAMBDA j : Square(In(m, "input", first + j)))

rms_norm(l, i, m) ==
  LET row == (i \div l.dim) * l.dim
  IN Below(i, Total(l),
       Put("output", i, Made({In(m, "input", i), SumOfSquares(m, row, 0 .. l.dim - 1),
                              In(m, "weight", i % l.dim)})))

Centred(m, i, mean) == Square(Made({In(m, "input", i), mean}))

layer_norm(l, i, m) ==
  LET row == (i \div l.dim) * l.dim
      mean == Sum(row .. row + l.dim - 1, LAMBDA j : In(m, "input", j))
      var == Sum(row .. row + l.dim - 1, LAMBDA j : Centred(m, j, mean))
  IN Below(i, Total(l),
       Put("output", i, Made({In(m, "input", i), mean, var,
                              In(m, "weight", i % l.dim), In(m, "bias", i % l.dim)})))

\* one block per row, the threads stride over the row
loss_backward(l, t, m) ==
  LET row == t.bx * l.vocab
  IN PutAll("grad_logits", {row + j : j \in Strided(t.tx, l.vocab, l.block[1])},
            LAMBDA i : Made(Row(m, "logits", row, l.vocab) \cup
                            IF i - row = l.targets[t.bx] THEN {One} ELSE {}))

rwkv_attn(l, i, m) ==
  LET p == Position(l, i)
  IN Below(i, Total(l),
       Put("output", i, Sum(0 .. p.s, LAMBDA j :
         Made({In(m, "input", Flat(l, p.b, j, p.d)),
               In(m, IF j = p.s THEN "time_first" ELSE "time_decay", p.d)}))))

\* d is taken modulo seq, not modulo dim
retnet_retention(l, i, m) ==
  LET b == (i \div l.dim) \div l.seq
      s == (i \div l.dim) % l.seq
      d == i % l.seq
      rw(j) == In(m, "retention_weights", j % l.seq)
      term(j) == Made({In(m, "input", Flat(l, b, j, (j + s) % l.dim))} \cup
                      IF j = s THEN {} ELSE {rw(j + d)})
  IN Below(i, Total(l),
       Put("output", i, Made({In(m, "input", i), rw(l.seq - s + d),
                              Sum(0 .. l.seq - 1, term)})))

\* ----- products with weights ---------------------------------------------

\* sum over j of input[first + j] * w[j * width + h]
Column(m, first, n, w, width, h) ==
  Sum(0 .. n - 1, LAMBDA j : Made({In(m, "input", first + j), In(m, w, j * width + h)}))
\* sum over j of input[first + j] * w[h * width + j]
WeightRow(m, first, n, w, width, h) ==
  Sum(0 .. n - 1, LAMBDA j : Made({In(m, "input", first + j), In(m, w, h * width + j)}))

Gated(l, i, m) ==
  LET first == (i \div l.dim) * l.dim
      h == i % l.dim
  IN Below(i, Total(l),
       Put("output", i, Made({Column(m, first, l.dim, "w1", l.dim, h),
                              Column(m, first, l.dim, "w3", l.dim, h)})))
geglu(l, i, m) == Gated(l, i, m)
reglu(l, i, m) == Gated(l, i, m)
swiglu(l, i, m) == Gated(l, i, m)

Hidden(l, m, first, w) == [j \in 0 .. l.intermediate - 1 |-> Made({WeightRow(m, first, l.dim, w, l.dim, j)})]
Mlp(l, m, temp, w, h) ==
  Sum(0 .. l.intermediate - 1,
      LAMBDA j : Made({temp[j], In(m, w, h * l.intermediate + j)}))

mlp_residual(l, t, m) ==
  LET i == Gid(l, t)
      first == (i \div l.dim) * l.dim
  IN Below(i, Total(l),
       Put("output", i, Plus(Mlp(l, m, Hidden(l, m, first, "w1"), "w2", i % l.dim),
                             In(m, "input", i)))
       @@ Spill("temp", t, l.intermediate, Temp))

mlp_glu(l, t, m) ==
  LET i == Gid(l, t)
      up == Hidden(l, m, i * l.dim, "w1")
      gate == Hidden(l, m, i * l.dim, "w3")
      temp == [j \in DOMAIN up |-> Made({up[j], gate[j]})]
  IN Below(i, l.batch * l.seq,
       PutAll("output", i * l.dim .. (i + 1) * l.dim - 1,
              LAMBDA o : Mlp(l, m, temp, "w2", o % l.dim))
       @@ Spill("temp", t, l.intermediate, Temp))

attn_mlp(l, t, m) ==
  LET i == Gid(l, t)
      first == (i \div l.dim) * l.dim
      h == i % l.dim
  IN Below(i, Total(l),
       Put("output", i, Plus(Plus(Column(m, first, l.dim, "o_weight", l.dim, h),
                                  Mlp(l, m, Hidden(l, m, first, "w1"), "w2", h)),
                             In(m, "input", i)))
       @@ Spill("temp", t, l.intermediate, Temp))

\* heads is 32 in the code.  q[pair] is read before anybody stores it.
qkv_rope(l, i, m) ==
  LET token == i \div l.hidden
      h == i % l.hidden
      base == token * l.dim
      hd == l.dim \div l.heads
      pair == base + (h \div hd) * hd + (h % hd) + hd \div 2
      val(w) == Column(m, token * l.hidden, l.hidden, w, l.hidden, h)
      rotated(a, w) == Put(a, base + h, Made({val(w), In(m, a, pair)}))
      second(a, w) == Put(a, pair, Made({val(w)}))
  IN Below(i, l.batch * l.seq * l.hidden,
       Put("v", base + h, val("v_weight")) @@
       IF h % hd < hd \div 2
       THEN second("q", "q_weight") @@ rotated("q", "q_weight") @@
            second("k", "k_weight") @@ rotated("k", "k_weight")
       ELSE Nothing)

\* ----- sparse and dense products -----------------------------------------

matmul_naive(l, t, m) ==
  LET row == t.by * l.block[2] + t.ty
      col == t.bx * l.block[1] + t.tx
  IN Below(row, l.M, Below(col, l.N,
       Put("C", row * l.N + col,
           Sum(0 .. l.K - 1, LAMBDA k : Made({In(m, "A", row * l.K + k),
                                              In(m, "B", k * l.N + col)})))))

gemv(l, i, m) ==
  Below(i, l.M, Put("y", i, Sum(0 .. l.N - 1,
    LAMBDA j : Made({In(m, "A", i * l.N + j), In(m, "x", j)}))))

csr_matmul(l, i, m) ==
  Below(i, l.rows,
    Put("output", i, Sum(l.row_ptr[i] .. l.row_ptr[i + 1] - 1, LAMBDA j :
      Made({In(m, "values", j), In(m, "dense", l.col_indices[j])}))))

\* what atomicAdd adds to output[row]
coo_matmul(l, i, m) ==
  Below(i, l.nnz, Put("output", l.row_indices[i],
    Made({In(m, "values", i), In(m, "dense", l.col_indices[i])})))

\* ----- windows over images; one row of blocks along the width ------------

conv1d(l, t, m) ==
  LET x == Gid(l, t)
      from == x * l.stride - l.padding
      taps == {k \in 0 .. l.kernel_size - 1 : from + k \in 0 .. l.width - 1}
      term(c, k) == Made({In(m, "input", (t.bz * l.in_channels + c) * l.width + from + k),
                          In(m, "kernel", (t.by * l.in_channels + c) * l.kernel_size + k)})
  IN Below(x, l.width,
       Put("output", (t.bz * l.out_channels + t.by) * l.width + x,
           Sum((0 .. l.in_channels - 1) \X taps, LAMBDA ck : term(ck[1], ck[2]))))

\* out_h and out_w of a thread, and the taps of its window that lie in the image
OutH(l, t) == t.bx \div CeilDiv(l.width, l.block[1])
OutW(l, t) == (t.bx % CeilDiv(l.width, l.block[1])) * l.block[1] + t.tx
Taps(l, t) ==
  {k \in (0 .. l.window - 1) \X (0 .. l.window - 1) :
     /\ OutH(l, t) * l.stride - l.pad + k[1] \in 0 .. l.height - 1
     /\ OutW(l, t) * l.stride - l.pad + k[2] \in 0 .. l.width - 1}
Pixel(l, t, c, k) ==
  ((t.bz * l.channels + c) * l.height + OutH(l, t) * l.stride - l.pad + k[1]) * l.width
  + OutW(l, t) * l.stride - l.pad + k[2]
PutPixel(l, t, channels, v) ==
  Below(OutH(l, t), l.height, Below(OutW(l, t), l.width,
    Put("output", ((t.bz * channels + t.by) * l.height + OutH(l, t)) * l.width + OutW(l, t), v)))

conv2d(l, t, m) ==
  LET tap(c, k) == ((t.by * l.channels + c) * l.window + k[1]) * l.window + k[2]
  IN PutPixel(l, t, l.out_channels,
       Sum((0 .. l.channels - 1) \X Taps(l, t), LAMBDA ck :
         Made({In(m, "input", Pixel(l, t, ck[1], ck[2])), In(m, "kernel", tap(ck[1], ck[2]))})))

\* -INFINITY where no tap lies in the image
maxpool2d(l, t, m) ==
  PutPixel(l, t, l.channels, IF Taps(l, t) = {} THEN NaN ELSE Made({In(m, "input", Pixel(l, t, t.by, k)) : k \in Taps(l, t)}))

\* sum / count, where count may be 0
avgpool2d(l, t, m) ==
  PutPixel(l, t, l.channels,
    IF Taps(l, t) = {} THEN NaN
    ELSE Sum(Taps(l, t), LAMBDA k : In(m, "input", Pixel(l, t, t.by, k))))
=============================================================================
