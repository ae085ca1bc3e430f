------------------------------ MODULE GpuReduce ------------------------------
(***************************************************************************)
(* The kernels of src/kernel/ in which the threads of a block reduce an    *)
(* array in shared memory.  k(l, t, i, m) is the interval i of thread t:   *)
(* what it does between the barrier i and the next one.                    *)
(***************************************************************************)
EXTENDS GpuPointwise

Go(st) == [put |-> st, last |-> FALSE]      \* __syncthreads() follows
End(st) == [put |-> st, last |-> TRUE]      \* the thread returns

Sh(m, t, i) == Get(m, Shared(t, i))
PutSh(t, i, v) == Shared(t, i) :> v
Reg(m, t, a) == Get(m, Local(a, t, 0))
PutReg(t, a, v) == Local(a, t, 0) :> v

\* for (stride = n / 2; stride > 0; stride >>= 1): the strides, first to last
Rounds(n) == CHOOSE r \in 0 .. n : 2 ^ r <= n /\ n < 2 ^ (r + 1)

\* Mutated form: the last active thread of a round stays idle.
TreeStepShort(l, t, k, m, base) ==
  LET stride == l.block[1] \div 2 ^ k
  IN Below(t.tx, stride - 1,
       PutSh(t, base + t.tx, Plus(Sh(m, t, base + t.tx), Sh(m, t, base + t.tx + stride))))

TreeStep(l, t, k, m, base) ==
  LET stride == l.block[1] \div 2 ^ k
  IN Below(t.tx, stride,
       PutSh(t, base + t.tx, Plus(Sh(m, t, base + t.tx), Sh(m, t, base + t.tx + stride))))

\* n loads, each followed by a tree over the block, and what comes after them
Reduction(l, t, i, m, n, load(_), after(_)) ==
  LET period == Rounds(l.block[1]) + 1
      r == i % period
  IN IF i >= n * period THEN after(i - n * period)
     ELSE Go(IF r = 0 THEN load(i \div period) ELSE TreeStep(l, t, r, m, 0))

\* ----- one value per block -----------------------------------------------

OneElement(l, t, m, a, f(_)) ==
  PutSh(t, t.tx, Below(Gid(l, t), l.size, f(In(m, a, Gid(l, t)))))
First(t, a, v) == End(Below(t.tx, 1, Put(a, t.bx, v)))

Itself(v) == v
reduce_sum(l, t, i, m) ==
  Reduction(l, t, i, m, 1, LAMBDA j : OneElement(l, t, m, "input", Itself),
            LAMBDA j : First(t, "output", Sh(m, t, 0)))
\* of a maximum only what enters it matters
reduce_max_min(l, t, i, m) == reduce_sum(l, t, i, m)
grad_norm(l, t, i, m) ==
  Reduction(l, t, i, m, 1, LAMBDA j : OneElement(l, t, m, "grad", Square),
            LAMBDA j : First(t, "norm", Sh(m, t, 0)))

\* warpSize, 32; the shuffles of a warp are one step of its lane 0
CONSTANT Warp
ASSUME WarpAssumption == Warp \in Nat \ {0}
Lanes(l, t) == {u \in Threads(l) : Block(u) = Block(t) /\ u.tx \div Warp = t.tx \div Warp}
Element1(l, m, u) == Below(Gid(l, u), l.size, In(m, "input", Gid(l, u)))

reduce_sum_warps(l, t, i, m) ==
  IF i = 0
  THEN Go(IF t.tx % Warp = 0
          THEN PutSh(t, t.tx \div Warp, Sum(Lanes(l, t), LAMBDA u : Element1(l, m, u)))
          ELSE Nothing)
  ELSE First(t, "output", Sum(0 .. l.block[1] \div Warp - 1, LAMBDA w : Sh(m, t, w)))

\* two trees side by side: shared_mem[tid] and shared_mem[tid + blockDim.x]
moe_aux_loss(l, t, i, m) ==
  LET n == l.block[1]
      mine == {tk \in Strided(t.tx, l.tokens, n) \X (1 .. l.top_k) : l.experts[tk[1]][tk[2]] = t.bx}
      score(tk) == In(m, "scores", tk[1] * l.top_k + tk[2] - 1)
  IN CASE i = 0 -> Go(PutSh(t, t.tx, Sum(mine, LAMBDA tk : One)) @@
                      PutSh(t, t.tx + n, Sum(mine, score)))
       [] i \in 1 .. Rounds(n) -> Go(TreeStep(l, t, i, m, 0) @@ TreeStep(l, t, i, m, n))
       [] OTHER -> First(t, "aux_loss", Made({Sh(m, t, 0), Sh(m, t, n)}))

\* every thread computes the loss of the whole row, and the tree adds them;
\* the target is not compared with vocab
cross_entropy(l, t, i, m) ==
  LET row == t.bx * l.vocab
      loss == Made(Row(m, "logits", row, l.vocab) \cup {In(m, "logits", row + l.targets[t.bx])})
  IN Reduction(l, t, i, m, 1, LAMBDA j : PutSh(t, t.tx, loss),
               LAMBDA j : First(t, "loss", Sh(m, t, 0)))
cross_entropy_fp16(l, t, i, m) == cross_entropy(l, t, i, m)

\* a scale, also where it is made of no element at all
Largest(v) == Apply("largest", v)

\* block bid takes the elements bid * size .. min(bid * size + size, size) - 1
quantize_int8_per_tensor(l, t, i, m) ==
  LET mine == Strided(t.bx * l.size + t.tx, l.size, l.block[1])
      output(j) == Made({In(m, "input", j), In(m, "scale", t.bx)})
  IN Reduction(l, t, i, m, 1,
       LAMBDA j : PutSh(t, t.tx, Made({In(m, "input", x) : x \in mine})),
       LAMBDA j : IF j = 0 THEN Go(Below(t.tx, 1, Put("scale", t.bx, Largest(Sh(m, t, 0)))))
                  ELSE End(PutAll("output", mine, output)))

\* ----- prefix sums -------------------------------------------------------

\* Mutated form: the neighbour is read behind the barrier, where it is added.
ScanReadLate(l, t, i, m) ==
  LET n == l.block[1]
      strides == Rounds(n) + IF 2 ^ Rounds(n) < n THEN 1 ELSE 0
      stride == 2 ^ (i - 1)
      add == IF t.tx >= stride THEN PutSh(t, t.tx, Plus(Sh(m, t, t.tx), Sh(m, t, t.tx - stride)))
             ELSE Nothing
  IN CASE i = 0 -> Go(PutSh(t, t.tx, Element1(l, m, t)))
       [] i \in 1 .. strides -> Go(add)
       [] OTHER -> End(Below(Gid(l, t), l.size, Put("output", Gid(l, t), Sh(m, t, t.tx))))

\* stride 1, 2, 4, ... below blockDim; val is read before the first barrier
scan(l, t, i, m) ==
  LET n == l.block[1]
      strides == Rounds(n) + IF 2 ^ Rounds(n) < n THEN 1 ELSE 0
      stride == 2 ^ ((i - 1) \div 2)
      read == IF t.tx >= stride THEN Sh(m, t, t.tx - stride) ELSE Zero
      add == IF t.tx >= stride THEN PutSh(t, t.tx, Plus(Sh(m, t, t.tx), Reg(m, t, "val")))
             ELSE Nothing
  IN CASE i = 0 -> Go(PutSh(t, t.tx, Element1(l, m, t)))
       [] i \in 1 .. 2 * strides -> Go(IF i % 2 = 1 THEN PutReg(t, "val", read) ELSE add)
       [] OTHER -> End(Below(Gid(l, t), l.size, Put("output", Gid(l, t), Sh(m, t, t.tx))))

\* after the shuffles lane k of a warp holds k + 1 times its warp's sum
scan_warps(l, t, i, m) ==
  LET lane == t.tx % Warp
      warps == l.block[1] \div Warp
      sum == IF t.tx \div Warp < warps THEN Sh(m, t, t.tx \div Warp) ELSE Zero
      val == Sum({u \in Lanes(l, t) : u.tx <= t.tx}, LAMBDA u : Element1(l, m, u))
      total == IF t.tx < warps THEN Plus(Reg(m, t, "val"), Sh(m, t, t.tx)) ELSE Reg(m, t, "val")
  IN CASE i = 0 -> Go(PutReg(t, "val", val) @@
                      IF lane = Warp - 1 THEN PutSh(t, t.tx \div Warp, val) ELSE Nothing)
       [] i = 1 -> Go(Below(t.tx, Warp, PutSh(t, t.tx, Sum(0 .. lane, LAMBDA k : sum))))
       [] OTHER -> End(Below(Gid(l, t), l.size, Put("output", Gid(l, t), total)))

\* ----- normalisation of a row per block ----------------------------------

Mine(l, t) == Strided(t.tx, l.dim, l.block[1])
RowOf(l, t) == t.bx * l.dim

\* Mutated form: a thread behind the row returns before the first barrier.
SoftmaxReturning(l, t, i, m) ==
  LET s == t.tx
      row == t.bx * l.seq
      max == Made({Sh(m, t, j) : j \in 0 .. l.seq - 1})
      weight == Made({Sh(m, t, s), max})
      sum == Sum(0 .. l.seq - 1, LAMBDA j : IF j = s THEN weight ELSE Sh(m, t, j))
  IN CASE s >= l.seq -> End(Nothing)
       [] i = 0 -> Go(PutSh(t, s, In(m, "input", row + s)))
       [] i = 1 -> Go(PutReg(t, "sum", sum) @@ PutSh(t, s, weight))
       [] OTHER -> End(Put("output", row + s, Made({Sh(m, t, s), Reg(m, t, "sum")})))

softmax_shared(l, t, i, m) ==
  LET s == t.tx
      row == t.bx * l.seq
      max == Made({Sh(m, t, j) : j \in 0 .. l.seq - 1})
      weight == Made({Sh(m, t, s), max})
      sum == Sum(0 .. l.seq - 1, LAMBDA j : IF j = s THEN weight ELSE Sh(m, t, j))
  IN CASE i = 0 -> Go(Below(s, l.seq, PutSh(t, s, In(m, "input", row + s))))
       [] i = 1 -> Go(PutReg(t, "sum", sum) @@ Below(s, l.seq, PutSh(t, s, weight)))
       [] OTHER -> End(Below(s, l.seq,
                     Put("output", row + s, Made({Sh(m, t, s), Reg(m, t, "sum")}))))

RmsNormRow(l, t, i, m) ==
  Reduction(l, t, i, m, 1,
    LAMBDA j : PutSh(t, t.tx, SumOfSquares(m, RowOf(l, t), Mine(l, t))),
    LAMBDA j : End(PutAll("output", {RowOf(l, t) + x : x \in Mine(l, t)},
      LAMBDA o : Made({In(m, "input", o), Sh(m, t, 0), In(m, "weight", o % l.dim)}))))
rms_norm_fused(l, t, i, m) == RmsNormRow(l, t, i, m)
rms_norm_fp16(l, t, i, m) == RmsNormRow(l, t, i, m)

\* The row is that of the thread's flat index; the elements, not their
\* squares, go to shared memory, and only blockDim of them into the tree.
rms_norm_shared(l, t, i, m) ==
  LET row == (Gid(l, t) \div l.dim) * l.dim
  IN IF Gid(l, t) >= Total(l) THEN End(Nothing)
     ELSE Reduction(l, t, i, m, 1,
       LAMBDA j : [x \in {Shared(t, y) : y \in Mine(l, t)} |-> In(m, "input", row + x[3])],
       LAMBDA j : End(PutAll("output", {row + x : x \in Mine(l, t)},
         LAMBDA o : Made({In(m, "input", o), Sh(m, t, 0), In(m, "weight", o % l.dim)}))))

\* Thread 0 stores its partial variance where the others still read the sum.
LayerNormRow(l, t, i, m, a) ==
  LET x(j) == In(m, a, RowOf(l, t) + j)
      mean == Made({Sh(m, t, 0)})
      load(n) == IF n = 0 THEN PutSh(t, t.tx, Sum(Mine(l, t), x))
                 ELSE PutReg(t, "mean", mean) @@
                      PutSh(t, t.tx, Sum(Mine(l, t), LAMBDA j : Square(Made({x(j), mean}))))
      output(o) == Made({In(m, a, o), Reg(m, t, "mean"), Sh(m, t, 0),
                         In(m, "weight", o % l.dim), In(m, "bias", o % l.dim)})
  IN Reduction(l, t, i, m, 2, load,
       LAMBDA j : End(PutAll("output", {RowOf(l, t) + y : y \in Mine(l, t)}, output)))
layer_norm_forward(l, t, i, m) == LayerNormRow(l, t, i, m, "input")

add_layernorm(l, t, i, m) ==
  IF i = 0 THEN Go(PutAll("output", {RowOf(l, t) + y : y \in Mine(l, t)},
                          LAMBDA o : Plus(In(m, "input1", o), In(m, "input2", o))))
  ELSE LayerNormRow(l, t, i - 1, m, "output")

\* The row itself lies in shared memory, and both trees run over it.
layer_norm_fused(l, t, i, m) ==
  LET mean == Made({Sh(m, t, 0)})
      cells == {Shared(t, y) : y \in Mine(l, t)}
      load(n) == IF n = 0 THEN [c \in cells |-> In(m, "input", RowOf(l, t) + c[3])]
                 ELSE [c \in cells |-> Apply("less", Made({Get(m, c), mean}))]
      output(o) == Made({Sh(m, t, o % l.dim), Sh(m, t, 0),
                         In(m, "weight", o % l.dim), In(m, "bias", o % l.dim)})
  IN Reduction(l, t, i, m, 2, load,
       LAMBDA j : End(PutAll("output", {RowOf(l, t) + y : y \in Mine(l, t)}, output)))
=============================================================================
