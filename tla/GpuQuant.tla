------------------------------ MODULE GpuQuant ------------------------------
(***************************************************************************)
(* The quantising kernels of src/kernel/.  A byte that holds several codes *)
(* is an array of the parts the codes are made of: two nibbles, or eight   *)
(* bits.  A store of the byte stores all of them, and what a thread did    *)
(* not compute it stores as it has read it.                                *)
(***************************************************************************)
EXTENDS GpuThreads

Scale(row) == Sym(<<"row scale", row>>)

\* ----- one code per element ----------------------------------------------

\* every thread below size computes the scale; the loop strides over the grid
quantize_int8(l, i, m) ==
  LET scale == Made(Row(m, "input", 0, l.size))
  IN Below(i, l.size,
       Put("scale", 0, scale) @@
       PutAll("output", Strided(i, l.size, l.grid[1] * l.block[1]),
              LAMBDA j : Made({In(m, "input", j), scale})))

dequantize_int8(l, i, m) == Below(i, l.size, Put("decoded", i, Made({In(m, "output", i)})))

\* the scale of the block the thread is in
dequantize_int8_per_tensor(l, t, m) ==
  LET i == Gid(l, t)
  IN Below(i, l.size, Put("decoded", i, Made({In(m, "output", i), In(m, "scale", t.bx)})))

\* one row of blocks per row of the matrix
Col(l, t) == t.by * l.block[1] + t.tx
InMatrix(l, t, st) == Below(t.bx, l.rows, Below(Col(l, t), l.cols, st))
Element(l, t) == t.bx * l.cols + Col(l, t)
Group(l, t) == t.bx * (l.cols \div l.group_size) + Col(l, t) \div l.group_size

quant_gptq(l, t, m) ==
  InMatrix(l, t, Put("output", Element(l, t),
    Made({In(m, "input", Element(l, t)), In(m, "scale", Group(l, t)), In(m, "zero_point", Group(l, t))})))
dequant_gptq(l, t, m) ==
  InMatrix(l, t, Put("decoded", Element(l, t),
    Made({In(m, "output", Element(l, t)), In(m, "scale", Group(l, t)), In(m, "zero_point", Group(l, t))})))

awq_quant(l, t, m) ==
  LET first == (Col(l, t) \div l.group_size) * l.group_size
      members == {j \in first .. first + l.group_size - 1 : j < l.cols}
      scale == Made({In(m, "input", t.bx * l.cols + j) : j \in members})
  IN InMatrix(l, t, Put("scale", Group(l, t), scale) @@
                    Put("output", Element(l, t), Made({In(m, "input", Element(l, t)), scale})))

smoothquant(l, i, m) ==
  LET row == i \div l.cols
      s == Made(Row(m, "input", row * l.cols, l.cols))
  IN Below(i, l.rows * l.cols,
       Put("scale", row, s) @@ Put("output", i, Made({In(m, "input", i), s})))

\* the scale is not stored
ggml_q8_0(l, t, m) ==
  InMatrix(l, t, Put("output", Element(l, t), Made(Row(m, "input", t.bx * l.cols, l.cols))))

\* ----- packed codes ------------------------------------------------------

\* a byte keeps the nibbles the thread does not compute
quantize_int4(l, i, m) ==
  LET scale == Scale(0)
      mine == Strided(i, l.size, l.grid[1] * l.block[1])
      nibbles == UNION {{j - (j % 2), j - (j % 2) + 1} : j \in mine}
  IN Below(i, l.size,
       Put("scale", 0, scale) @@
       PutAll("output", nibbles, LAMBDA n :
         IF n \in mine THEN Made({In(m, "input", n), scale}) ELSE In(m, "output", n)))

\* The scale goes to the byte of the code, then the nibble over it.
Nibbles(l, t, v) ==
  LET byte == t.bx * (l.cols \div 2) + Col(l, t) \div 2
      scale == Scale(t.bx)
  IN InMatrix(l, t, PutAll("output", {2 * byte, 2 * byte + 1},
       LAMBDA n : IF n % 2 = Col(l, t) % 2 THEN Made({v, scale}) ELSE scale))

ggml_q4_0(l, t, m) == Nibbles(l, t, In(m, "input", Element(l, t)))

\* the least value goes to a byte behind the codes
ggml_q4_1(l, t, m) ==
  LET behind == t.bx * (l.cols \div 2) + Col(l, t) \div 2 + (l.rows * l.cols) \div 2
      least == Sym(<<"row minimum", t.bx>>)
  IN Nibbles(l, t, Made({In(m, "input", Element(l, t)), least})) @@
     InMatrix(l, t, PutAll("output", {2 * behind, 2 * behind + 1}, LAMBDA n : least))

\* Five bits per code: the bits that do not fit into the byte are lost.
ggml_q5_0(l, t, m) ==
  LET code == Made({In(m, "input", Element(l, t)), Scale(t.bx)})
      byte == t.bx * ((l.cols * 5) \div 8) + (Col(l, t) * 5) \div 8
      from == 8 * byte + ((Col(l, t) * 5) % 8)
      bits(b) == 8 * b .. 8 * b + 7
      scaled == PutAll("output", bits(t.bx * (l.cols \div 2) + Col(l, t) \div 2),
                       LAMBDA b : Scale(t.bx))
  IN InMatrix(l, t,
       PutAll("output", bits(byte),
              LAMBDA b : IF b \in from .. from + 4 THEN code ELSE In(scaled @@ m, "output", b))
       @@ scaled)
=============================================================================
