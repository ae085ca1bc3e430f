---------------------------- MODULE GpuAttention ----------------------------
(***************************************************************************)
(* The attention kernels of src/kernel/ that stage queries, keys and       *)
(* values in shared memory, and the fused kernels around them.             *)
(***************************************************************************)
EXTENDS GpuReduce

\* BLOCK_SIZE of the flash attention kernels, 64 or 128
CONSTANT FlashBlock
ASSUME FlashBlockAssumption == FlashBlock \in Nat \ {0}

HeadDim(l) == l.dim \div l.heads
Base(l, t) == (t.by * l.heads + t.bz) * l.seq * HeadDim(l)
ShRow(m, t, first, n) == {Sh(m, t, x) : x \in first .. first + n - 1}

\* Element d of softmax(q K) V: the query row starts at q, keys and values at k
\* and v in rows of n elements.
Attend(m, t, q, k, v, n, keys, d) ==
  LET p == Made(ShRow(m, t, q, n) \cup UNION {ShRow(m, t, k + j * n, n) : j \in keys})
  IN Sum(keys, LAMBDA j : Made({p, Sh(m, t, v + j * n + d)}))

\* ----- one block per head: thread (tx, ty) stages element tx of row ty ----

HeadShape(l, t) ==
  [rows |-> l.seq, width |-> HeadDim(l), kv_width |-> HeadDim(l),
   q |-> Base(l, t), kv |-> Base(l, t), keys |-> 0 .. l.seq - 1, masked |-> FALSE]

\* and, behind the barrier, computes and stores the whole row ty
HeadAttention(l, t, i, m, h) ==
  LET room == h.rows * h.kv_width
      kv == t.ty * h.kv_width + t.tx
      staged == Below(t.tx, h.width, PutSh(t, t.ty * h.width + t.tx,
                                           In(m, "Q", h.q + t.ty * h.width + t.tx))) @@
                Below(t.tx, h.kv_width, PutSh(t, room + kv, In(m, "K", h.kv + kv)) @@
                                        PutSh(t, 2 * room + kv, In(m, "V", h.kv + kv)))
      first == h.q + t.ty * h.width
      row == PutAll("O", first .. first + h.width - 1, LAMBDA o :
               Attend(m, t, t.ty * h.width, room, 2 * room, h.kv_width, h.keys, o - first))
  IN IF i = 0 THEN Go(Below(t.ty, h.rows, staged))
     ELSE End(Below(t.ty, h.rows, Below(t.tx, h.rows, IF h.masked THEN Nothing ELSE row)))

mha(l, t, i, m) == HeadAttention(l, t, i, m, HeadShape(l, t))

mqa(l, t, i, m) ==
  HeadAttention(l, t, i, m, [HeadShape(l, t) EXCEPT !.kv = t.by * l.seq * HeadDim(l)])

\* keys and values are wider than the queries, and so is the product
gqa(l, t, i, m) ==
  LET width == l.dim \div l.kv_heads
      kv_head == t.bz \div (l.heads \div l.kv_heads)
  IN HeadAttention(l, t, i, m, [HeadShape(l, t) EXCEPT
       !.kv_width = width, !.kv = (t.by * l.kv_heads + kv_head) * l.seq * width])

causal_attention(l, t, i, m) ==
  HeadAttention(l, t, i, m, [HeadShape(l, t) EXCEPT !.keys = 0 .. t.ty])

sliding_window_attention(l, t, i, m) ==
  HeadAttention(l, t, i, m, [HeadShape(l, t) EXCEPT
    !.keys = {j \in 0 .. l.seq - 1 : j \in t.ty - l.window .. t.ty + l.window}])

\* A thread returns if its own block of scores is masked.
sparse_attention(l, t, i, m) ==
  HeadAttention(l, t, i, m, [HeadShape(l, t) EXCEPT
    !.masked = l.mask[t.ty \div l.block_size][t.tx \div l.block_size] = 0])

ulysses_attention(l, t, i, m) ==
  LET local == l.seq \div l.parallel
  IN HeadAttention(l, t, i, m, [HeadShape(l, t) EXCEPT !.rows = local, !.keys = 0 .. local - 1])

\* Pairs of queries and of keys are rotated in shared memory.
fused_rope_attn(l, t, i, m) ==
  LET half == HeadDim(l) \div 2
      x == t.ty * HeadDim(l) + t.tx
      both(s) == Made({Sh(m, t, s), Sh(m, t, s + half)})
      rotated(s) == PutSh(t, s, both(s)) @@ PutSh(t, s + half, both(s))
  IN IF i = 1
     THEN Go(Below(t.ty, l.seq, Below(t.tx, half, rotated(x) @@ rotated(l.seq * HeadDim(l) + x))))
     ELSE HeadAttention(l, t, i, m, HeadShape(l, t))

\* The rows and columns of the grid; of the sum over the values only the last
\* row is kept, and its elements are added.
single_head_attention(l, t, i, m) ==
  LET row == t.by * l.block[2] + t.ty
      col == t.bx * l.block[1] + t.tx
      x == row * l.dim + col
      room == l.seq * l.dim
      staged == PutSh(t, x, In(m, "Q", x)) @@ PutSh(t, room + x, In(m, "K", x)) @@
                PutSh(t, 2 * room + x, In(m, "V", x))
      p == Made(ShRow(m, t, row * l.dim, l.dim) \cup ShRow(m, t, room, room))
      result == Sum(0 .. l.dim - 1, LAMBDA j :
                  Made({p, Sh(m, t, 2 * room + (l.seq - 1) * l.dim + j)}))
  IN IF i = 0 THEN Go(Below(row, l.seq, Below(col, l.dim, staged)))
     ELSE End(Below(row, l.seq, Below(col, l.seq, Put("O", x, result))))

\* ----- flash attention: thread (tx, ty) works on row tx -------------------

Exp(v, max) == Apply("exp", Made({v, max}))

LoadTile(t, m, a, bs, n, at, from) ==
  Below(t.tx, bs, Below(t.ty, n,
    PutSh(t, at * bs * n + t.tx * n + t.ty, In(m, a, from + t.tx * n + t.ty))))
ScoreAt(bs, n, row, key) == 3 * bs * n + row * bs + key
Score(m, t, bs, n) == Made(ShRow(m, t, t.tx * n, n) \cup ShRow(m, t, bs * n + t.ty * n, n))
Scores(m, t, bs, n) == ShRow(m, t, ScoreAt(bs, n, t.tx, 0), bs)
\* every thread of row tx exponentiates the whole row
Exponentiate(m, t, bs, n) ==
  [x \in {Shared(t, ScoreAt(bs, n, t.tx, j)) : j \in 0 .. bs - 1} |->
     Exp(Get(m, x), Made(Scores(m, t, bs, n)))]

\* no row is compared with seq
Flash(l, t, i, m, bs, n, q_start, kv_start) ==
  CASE i = 0 -> Go(LoadTile(t, m, "Q", bs, n, 0, q_start * n) @@
                   LoadTile(t, m, "K", bs, n, 1, kv_start * n) @@
                   LoadTile(t, m, "V", bs, n, 2, kv_start * n))
    [] i = 1 -> Go(Below(t.tx, bs, Below(t.ty, bs,
                     PutSh(t, ScoreAt(bs, n, t.tx, t.ty), Score(m, t, bs, n)))))
    [] i = 2 -> Go(Below(t.tx, bs, Below(t.ty, bs, Exponentiate(m, t, bs, n))))
    [] OTHER -> End(Below(t.tx, bs, Below(t.ty, n, Put("O", (q_start + t.tx) * n + t.ty,
                  Sum(0 .. bs - 1, LAMBDA j : Made({Sh(m, t, ScoreAt(bs, n, t.tx, j)),
                                                    Sh(m, t, 2 * bs * n + j * n + t.ty)}))))))

flash_attention(l, t, i, m) ==
  Flash(l, t, i, m, FlashBlock, l.dim, t.bx * FlashBlock, t.by * FlashBlock)
flash_attention_block(l, t, i, m) ==
  Flash(l, t, i, m, l.block_size, l.dim, l.q_start, l.kv_start)

\* three intervals for each block of keys; O_block, of block_size columns, is
\* never set to zero
flash_attention_online(l, t, i, m) ==
  LET bs == FlashBlock
      n == l.dim
      b == (i - 1) \div 3
      from == b * bs * n
      row_max == Made(Scores(m, t, bs, n))
      held(a) == IF b = 0 THEN Zero ELSE Reg(m, t, a)
      scaled(v) == Made({v, held("max"), row_max})
      weight(j) == Exp(Sh(m, t, ScoreAt(bs, n, t.tx, j)), row_max)
      O_block == Get(m, Local("O_block", t, t.ty))
      added == Sum(0 .. bs - 1, LAMBDA j : Made({weight(j), Sh(m, t, 2 * bs * n + j * n + t.ty)}))
      accumulate == PutReg(t, "max", Made({held("max"), row_max})) @@
                    PutReg(t, "sum", Plus(scaled(held("sum")), Sum(0 .. bs - 1, weight))) @@
                    Below(t.ty, n, Local("O_block", t, t.ty) :> Plus(scaled(O_block), added)
                                   @@ Spill("O_block", t, t.ty + 1, bs))
  IN CASE i = 0 -> Go(LoadTile(t, m, "Q", bs, n, 0, t.bx * bs * n))
       [] b >= CeilDiv(l.seq, bs) ->
            End(Below(t.tx, bs, Below(t.ty, n,
              Put("O", (t.bx * bs + t.tx) * n + t.ty, Made({O_block, held("sum")})))))
       [] i % 3 = 1 -> Go(LoadTile(t, m, "K", bs, n, 1, from) @@ LoadTile(t, m, "V", bs, n, 2, from))
       [] i % 3 = 2 -> Go(Below(t.tx, bs, Below(t.ty, bs,
                            PutSh(t, ScoreAt(bs, n, t.tx, t.ty), Score(m, t, bs, n)))))
       [] OTHER -> Go(Below(t.tx, bs, accumulate @@ Exponentiate(m, t, bs, n)))
paged_attention(l, t, i, m) == flash_attention_online(l, t, i, m)

\* The head is also the offset of the keys: the first loads[t] blocks are
\* loaded, each in an interval of its own.  A thread adds up its own key only,
\* in the elements of O_vals, the first block_size of which it has set to zero.
flash_attn2_forward(l, t, i, m) ==
  LET bs == FlashBlock
      n == HeadDim(l)
      blocks == CeilDiv(l.seq, bs)
      loads == IF blocks > t.by THEN blocks - t.by ELSE 0
      base == ((t.bx \div blocks) * l.heads + t.by) * l.seq * n
      first == i = IF loads = 0 THEN 1 ELSE 2
      held(x) == IF first THEN Zero ELSE Get(m, x)
      max == Made({Score(m, t, bs, n), held(Local("max", t, 0))})
      O_val(d) == Local("O_vals", t, d)
      add == Local("max", t, 0) :> max @@
             Local("sum", t, 0) :> Plus(held(Local("sum", t, 0)), max) @@
             [x \in {O_val(d) : d \in 0 .. n - 1} |->
                Plus(IF x[3] < bs THEN held(x) ELSE Get(m, x),
                     Made({max, Sh(m, t, 2 * bs * n + t.ty * n + x[3])}))] @@
             Spill("O_vals", t, n, bs)
      load(q, kv) == LoadTile(t, m, "K", bs, n, 1, base + kv * n) @@
                     LoadTile(t, m, "V", bs, n, 2, base + kv * n) @@ q
  IN CASE i = 0 -> Go(load(LoadTile(t, m, "Q", bs, n, 0, base + t.bx * bs * n), t.by * bs))
       [] i > blocks + loads ->
            End(Below(t.tx, bs, Below(t.ty, n, Put("O", base + (t.bx * bs + t.tx) * n + t.ty,
              Made({Get(m, O_val(t.ty)), Reg(m, t, "sum")})))))
       [] i <= 2 * loads /\ i % 2 = 1 -> Go(load(Nothing, ((i - 1) \div 2) * bs))
       [] OTHER -> Go(Below(t.tx, bs, Below(t.ty, bs, add)))

\* ----- fused: a block per token, local arrays filled by strides ------------

\* sum over i of norm[i] * w[i * dim + h], norm being this thread's own array
Projected(l, t, m, norm, w, h) ==
  Sum(0 .. l.hidden - 1, LAMBDA x :
    Made({Get(m, Local(norm, t, x)), In(m, w, x * l.dim + h)}))
Own(l, t) == Strided(t.tx, l.hidden, l.block[1])
PutLocals(a, t, S, v(_), room) ==
  [x \in {Local(a, t, j) : j \in S} |-> v(x[3])] @@
  [x \in {Local("behind", <<a, t>>, j) : j \in {k \in S : k >= room}} |-> Zero]
Token(l, t) == t.bx * l.hidden
Normed(l, t, m, norm, x(_), w) ==
  Go(PutLocals(norm, t, Own(l, t), LAMBDA j : Made({x(j), Sh(m, t, 0), In(m, w, j)}), Room))

fused_rmsnorm_attn(l, t, i, m) ==
  LET x(j) == In(m, "input", Token(l, t) + j)
      result(o) == Sum({"q_weight", "k_weight", "v_weight"},
                       LAMBDA w : Projected(l, t, m, "norm_input", w, o - Token(l, t)))
  IN Reduction(l, t, i, m, 1,
       LAMBDA n : PutSh(t, t.tx, Sum(Own(l, t), LAMBDA j : Square(x(j)))),
       LAMBDA n : IF n = 0 THEN Normed(l, t, m, "norm_input", x, "norm_weight")
                  ELSE End(PutAll("output", Token(l, t) .. Token(l, t) + l.dim - 1, result)))

fused_transformer_block(l, t, i, m) ==
  LET x(j) == In(m, "input", Token(l, t) + j)
      attn_out(j) == Get(m, Local("attn_out", t, j))
      sum(y(_)) == PutSh(t, t.tx, Sum(Own(l, t), LAMBDA j : Square(y(j))))
      attention(h) == Plus(Made({Projected(l, t, m, "norm_input1", w, h) :
                                   w \in {"q_weight", "k_weight", "v_weight"}}), x(h))
      temp(u) == Made({Sum(0 .. l.hidden - 1, LAMBDA j :
        Made({Get(m, Local("norm_input2", t, j)), In(m, "mlp_w1", u * l.hidden + j)}))})
      mlp_out(h) == Sum(0 .. l.intermediate - 1, LAMBDA u :
        Made({Get(m, Local("temp", t, u)), In(m, "mlp_w2", h * l.intermediate + u)}))
      output(o) == Plus(attn_out(o - Token(l, t)), Get(m, Local("mlp_out", t, o - Token(l, t))))
      second(n) == Reduction(l, t, n, m, 1, LAMBDA j : sum(attn_out), LAMBDA j :
        CASE j = 0 -> Normed(l, t, m, "norm_input2", attn_out, "norm_weight2")
          [] j = 1 -> Go(PutLocals("temp", t, 0 .. l.intermediate - 1, temp, Temp))
          [] j = 2 -> Go(PutLocals("mlp_out", t, 0 .. l.hidden - 1, mlp_out, Room))
          [] OTHER -> End(PutAll("output", {Token(l, t) + y : y \in Own(l, t)}, output)))
  IN Reduction(l, t, i, m, 1, LAMBDA j : sum(x), LAMBDA j :
       CASE j = 0 -> Normed(l, t, m, "norm_input1", x, "norm_weight1")
         [] j = 1 -> Go(PutLocals("attn_out", t, 0 .. l.dim - 1, attention, Room))
         [] OTHER -> second(j - 2))
=============================================================================
