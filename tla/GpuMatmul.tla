------------------------------ MODULE GpuMatmul ------------------------------
(***************************************************************************)
(* The kernels of src/kernel/ that stage tiles of their operands in shared *)
(* memory.                                                                 *)
(***************************************************************************)
EXTENDS GpuReduce

\* TILE_SIZE, 16; the block is Tile by Tile
CONSTANT Tile
ASSUME TileAssumption == Tile \in Nat \ {0}

\* the grid the hosts launch for a result of M rows and N columns
TileGrid(M, N) == <<CeilDiv(N, Tile), CeilDiv(M, Tile), 1>>
RowT(t) == t.by * Tile + t.ty
ColT(t) == t.bx * Tile + t.tx
InA(t) == t.ty * Tile + t.tx                        \* As[ty][tx]
InB(t) == Tile * Tile + t.ty * Tile + t.tx          \* Bs[ty][tx]

\* A tile is loaded, a barrier, its products are added, a barrier.  a(row, k)
\* and b(k, col) are the operands, tail what a thread outside of them stages,
\* part(v, k) the operand k in what was staged, c the index of the result.
Tiled(l, t, i, m, a(_, _), b(_, _), tail(_), part(_, _), c) ==
  LET k == (i \div 2) * Tile
      load == (IF RowT(t) < l.M /\ k + t.tx < l.K THEN PutSh(t, InA(t), a(RowT(t), k + t.tx))
               ELSE tail(InA(t))) @@
              (IF ColT(t) < l.N /\ k + t.ty < l.K THEN PutSh(t, InB(t), b(k + t.ty, ColT(t)))
               ELSE tail(InB(t)))
      product(j) == Made({part(Sh(m, t, t.ty * Tile + j), k + j),
                          part(Sh(m, t, Tile * Tile + j * Tile + t.tx), k + j)})
      before == IF i = 1 THEN Zero ELSE Reg(m, t, "sum")
  IN CASE i >= 2 * CeilDiv(l.K, Tile) ->
            End(Below(RowT(t), l.M, Below(ColT(t), l.N, Put("C", c, Reg(m, t, "sum")))))
       [] i % 2 = 0 -> Go(load)
       [] OTHER -> Go(PutReg(t, "sum", Plus(before, Sum(0 .. Tile - 1, product))))

Whole(v, k) == v
Skipped(x) == Nothing
A(l, m, base, row, k) == In(m, "A", base + row * l.K + k)
B(l, m, base, k, col) == In(m, "B", base + k * l.N + col)
C(l, t, base) == base + RowT(t) * l.N + ColT(t)

\* at distance stride_x behind each other, one matrix per blockIdx.z
Batched(l, t, i, m, stride_a, stride_b, stride_c) ==
  Tiled(l, t, i, m, LAMBDA row, k : A(l, m, t.bz * stride_a, row, k),
                    LAMBDA k, col : B(l, m, t.bz * stride_b, k, col),
                    LAMBDA x : PutSh(t, x, Zero), Whole, C(l, t, t.bz * stride_c))
matmul_shared(l, t, i, m) == Batched(l, t, i, m, 0, 0, 0)
batched_matmul(l, t, i, m) == Batched(l, t, i, m, l.M * l.K, l.K * l.N, l.M * l.N)
strided_batched_matmul(l, t, i, m) == Batched(l, t, i, m, l.stride_a, l.stride_b, l.stride_c)

\* A thread outside of the operands leaves the tile as it is.
Unfilled(l, t, i, m) ==
  Tiled(l, t, i, m, LAMBDA row, k : A(l, m, 0, row, k), LAMBDA k, col : B(l, m, 0, k, col),
                    Skipped, Whole, C(l, t, 0))
matmul_fp16(l, t, i, m) == Unfilled(l, t, i, m)
matmul_bf16(l, t, i, m) == Unfilled(l, t, i, m)
matmul_int8(l, t, i, m) == Unfilled(l, t, i, m)

\* two operands along K in a byte
Nibble(v, k) == SetToBag({<<"nibble", x, k % 2>> : x \in DOMAIN v})
matmul_int4(l, t, i, m) ==
  Tiled(l, t, i, m, LAMBDA row, k : In(m, "A", row * (l.K \div 2) + k \div 2),
                    LAMBDA k, col : In(m, "B", (k \div 2) * l.N + col),
                    Skipped, Nibble, C(l, t, 0))

\* A thread behind the last row returns without loading its part of x.
gemv_shared(l, t, i, m) ==
  LET row == Gid(l, t)
      x == (i \div 2) * l.block[1]
      load == Below(x + t.tx, l.N, PutSh(t, t.tx, In(m, "x", x + t.tx)))
      before == IF i = 1 THEN Zero ELSE Reg(m, t, "sum")
      product(j) == Below(x + j, l.N, Made({In(m, "A", row * l.N + x + j), Sh(m, t, j)}))
  IN CASE row >= l.M -> End(Nothing)
       [] i >= 2 * CeilDiv(l.N, l.block[1]) -> End(Put("y", row, Reg(m, t, "sum")))
       [] i % 2 = 0 -> Go(load)
       [] OTHER -> Go(PutReg(t, "sum", Plus(before, Sum(0 .. l.block[1] - 1, product))))

\* One barrier per element of the row, between staging the element and its
\* use; none between its use and the staging of the next one.
block_csr_matmul(l, t, i, m) ==
  LET row == t.bx * Tile + t.ty
      n == l.row_ptr[row] + i                     \* the element to be staged
      stage == IF t.tx = 0 THEN PutSh(t, t.ty, In(m, "dense", l.col_indices[n])) ELSE Nothing
      sum == Plus(IF i = 1 THEN Zero ELSE Reg(m, t, "sum"),
                  Made({In(m, "values", n - 1), Sh(m, t, t.ty)}))
  IN IF row >= l.M THEN End(Nothing)
     ELSE LET more == n < l.row_ptr[row + 1]
          IN CASE i = 0 /\ more -> Go(stage)
               [] i = 0 /\ ~more -> End(Put("output", row, Zero))
               [] i > 0 /\ more -> Go(PutReg(t, "sum", sum) @@ stage)
               [] OTHER -> End(Put("output", row, sum))
=============================================================================
