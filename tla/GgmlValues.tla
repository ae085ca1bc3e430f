----------------------------- MODULE GgmlValues -----------------------------
(***************************************************************************)
(* What the tensors of GgmlBackward are worth, to compare a gradient with  *)
(* the derivative it stands for.  Numbers are those of the field of the    *)
(* integers modulo the prime P, in which the rules of differentiation are  *)
(* exact; a function such as exp() is any function, together with the one  *)
(* its derivative is known to be.  The kernels that compute the operations *)
(* are not in the repository; they are modelled by what the declarations   *)
(* and the backward pass take them to compute.                             *)
(*                                                                         *)
(* The derivative is computed forwards, with a tangent beside every value, *)
(* and shares nothing with the backward pass.  A tensor is read from the   *)
(* memory it lies in through its strides, so that a view of the wrong      *)
(* place or in the wrong order shows.                                      *)
(***************************************************************************)
EXTENDS GgmlBackward, FiniteSetsExt

P == 10007

RECURSIVE Power(_, _)
Power(x, n) == IF n = 0 THEN 1
               ELSE LET h == Power(x, n \div 2)
                    IN  IF n % 2 = 0 THEN (h * h) % P ELSE (((h * h) % P) * x) % P
Reciprocal(x) == Power(x, P - 2)
Times(x, y) == (x * y) % P
Over(x, y) == Times(x, Reciprocal(y))
Minus(x) == (P - x) % P

(* Any function of a number, never 0; one for each name.                   *)
Names == <<"leaf", "direction", "sqrt", "log", "sin", "cos", "sgn", "step", "abs",
           "relu", "silu", "silu'", "exp", "softplus", "sigmoid", "norm", "gelu",
           "geglu", "mask", "softmax", "rms", "entropy", "labels">>
Some(name, x) ==
    LET salt == CHOOSE k \in DOMAIN Names : Names[k] = name
        mixed == (Times((x + 17 * salt) % P, (x + 131) % P) + 2917 * salt) % P
    IN  IF mixed = 0 THEN 1 ELSE mixed
-----------------------------------------------------------------------------
(* The coordinates of element k of a shape, and back.                      *)
Coord(ne, k) == <<k % ne[1], (k \div ne[1]) % ne[2],
                  (k \div (ne[1] * ne[2])) % ne[3], k \div (ne[1] * ne[2] * ne[3])>>
Coords(ne) == {Coord(ne, k) : k \in 0 .. Product(ne) - 1}
Wrap(c, ne) == [d \in Dims |-> c[d] % ne[d]]

(* Numbers by coordinate, in the order of the elements.                    *)
Numbers(ne, F(_)) == <<>> \o [k \in 1 .. Product(ne) |-> F(Coord(ne, k - 1))]
Nth(x, ne, c) == x[Address(Packed(ne), c) + 1]
Total(S, F(_)) == MapThenSumSet(F, S) % P

Read(t, memory) == Numbers(t.ne, LAMBDA c : memory[t.offs + Address(t.nb, c) + 1])
Write(t, memory, numbers) ==
    <<>> \o [m \in DOMAIN memory |->
        IF \E c \in Coords(t.ne) : t.offs + Address(t.nb, c) + 1 = m
        THEN Nth(numbers, t.ne, CHOOSE c \in Coords(t.ne) :
                                    t.offs + Address(t.nb, c) + 1 = m)
        ELSE memory[m]]

Row(c, n) == {[c EXCEPT ![1] = m] : m \in 0 .. n - 1}
-----------------------------------------------------------------------------
LinearOps == {"dup", "cont", "cpy", "add", "sub", "add1", "acc", "set", "neg", "scale",
              "sum", "sum_rows", "mean", "repeat", "repeat_back", "diag_mask_zero",
              "get_rows", "get_rows_back"}

(* An operation that is linear in its sources x and y (y holds the row     *)
(* numbers of get_rows).  A copy keeps the order of the elements.          *)
LinearAt(e, x, y, c) ==
    LET xs == e.src[1].ne
        ys == e.src[2].ne
        Here == Nth(x, xs, c)
    IN
    CASE e.op = "add" -> (Here + Nth(y, ys, Wrap(c, ys))) % P
      [] e.op = "sub" -> (Here + Minus(Nth(y, ys, Wrap(c, ys)))) % P
      [] e.op = "add1" -> (Here + y[1]) % P
      [] e.op = "neg" -> Minus(Here)
      [] e.op = "scale" -> Times(Here, Over(e.arg[1], e.arg[2]))
      [] e.op = "sum" -> Total(1 .. Product(xs), LAMBDA k : x[k])
      [] e.op = "sum_rows" -> Total(Row(c, xs[1]), LAMBDA s : Nth(x, xs, s))
      [] e.op = "mean" -> Over(Total(Row(c, xs[1]), LAMBDA s : Nth(x, xs, s)), xs[1])
      [] e.op = "repeat" -> Nth(x, xs, Wrap(c, xs))
      [] e.op = "repeat_back" -> Total({s \in Coords(xs) : Wrap(s, e.ne) = c},
                                       LAMBDA s : Nth(x, xs, s))
      [] e.op = "diag_mask_zero" -> IF c[1] > e.arg[1] + c[2] THEN 0 ELSE Here
      [] e.op = "get_rows" ->
           Nth(x, xs, <<c[1], Nth(y, ys, <<c[2], c[3], c[4], 0>>), c[3], c[4]>>)
      [] e.op = "get_rows_back" ->
           Total({r \in 0 .. xs[2] - 1 : y[r + 1] = c[2]},
                 LAMBDA r : Nth(x, xs, <<c[1], r, 0, 0>>))
      [] OTHER -> x[Address(Packed(e.ne), c) + 1]

(* acc and set write y into x where their argument says.                   *)
Placed(e, x, y) ==
    LET nb == <<1, e.arg[1], e.arg[2], e.arg[3]>>
        ys == e.src[2].ne
        into(m) == {c \in Coords(ys) : e.arg[4] + Address(nb, c) + 1 = m}
    IN  <<>> \o [m \in DOMAIN x |->
            (IF e.op = "set" /\ into(m) # {} THEN 0 ELSE x[m])
            + Total(into(m), LAMBDA c : Nth(y, ys, c))]

Linear(e, x, y) ==
    IF e.op \in {"acc", "set"} THEN [m \in DOMAIN x |-> Placed(e, x, y)[m] % P]
    ELSE Numbers(e.ne, LAMBDA c : LinearAt(e, x, y, c))

(* The batch of the first source of a matrix product that batch c of the   *)
(* second is multiplied with.                                              *)
Batch(e, c) == <<c[3] \div (e.ne[3] \div e.src[1].ne[3]),
                 c[4] \div (e.ne[4] \div e.src[1].ne[4])>>

BilinearOps == {"mul", "mul_mat", "out_prod"}
Bilinear(e, x, y) ==
    LET xs == e.src[1].ne
        ys == e.src[2].ne
        Entry(c) ==
          CASE e.op = "mul" -> Times(Nth(x, xs, c), Nth(y, ys, Wrap(c, ys)))
            [] e.op = "mul_mat" ->
                 Total(0 .. xs[1] - 1, LAMBDA m :
                    Times(Nth(x, xs, <<m, c[1], Batch(e, c)[1], Batch(e, c)[2]>>),
                          Nth(y, ys, <<m, c[2], c[3], c[4]>>)))
            [] e.op = "out_prod" ->
                 Total(0 .. xs[2] - 1, LAMBDA m :
                    Times(Nth(x, xs, <<c[1], m, Batch(e, c)[1], Batch(e, c)[2]>>),
                          Nth(y, ys, <<c[2], m, c[3], c[4]>>)))
    IN  Numbers(e.ne, Entry)
-----------------------------------------------------------------------------
(* Functions of one number, and their derivatives.                         *)
FunctionNames == {"sqr", "sqrt", "log", "sin", "cos", "norm"} \cup Unary
Function(op, v) ==
    CASE op = "sqr" -> Times(v, v)
      [] op = "neg" -> Minus(v)
      [] op = "expm1" -> (Some("exp", v) + P - 1) % P
      [] OTHER -> Some(op, v)
Derivative(op, v) ==
    CASE op = "sqr" -> Times(2, v)
      [] op = "sqrt" -> Over(1, Times(2, Some("sqrt", v)))
      [] op = "log" -> Over(1, v)
      [] op = "sin" -> Some("cos", v)
      [] op = "cos" -> Minus(Some("sin", v))
      [] op = "abs" -> Some("sgn", v)
      [] op = "neg" -> Minus(1)
      [] op = "relu" -> Some("step", v)
      [] op = "silu" -> Some("silu'", v)
      [] op \in {"exp", "expm1"} -> Some("exp", v)
      [] op = "softplus" -> Some("sigmoid", v)
      [] OTHER -> 0

(* rms_norm divides a row by the root of a function of its squares; the    *)
(* derivative is its own transpose, and so is that of soft_max.            *)
RootMeanSquare(x, ne, c) == Some("rms", Total(Row(c, ne[1]), LAMBDA s :
                                            Times(Nth(x, ne, s), Nth(x, ne, s))))
RmsNormTimes(x, g, ne) ==
    Numbers(ne, LAMBDA c :
        LET r == Over(1, RootMeanSquare(x, ne, c))
            along == Total(Row(c, ne[1]), LAMBDA s : Times(Nth(x, ne, s), Nth(g, ne, s)))
        IN  (Times(r, Nth(g, ne, c))
             + Minus(Over(Times(Times(Nth(x, ne, c), Times(r, Times(r, r))), along), ne[1]))) % P)
SoftMaxTimes(y, g, ne, scaled) ==
    Numbers(ne, LAMBDA c :
        LET along == Total(Row(c, ne[1]), LAMBDA s : Times(Nth(y, ne, s), Nth(g, ne, s)))
        IN  Times(scaled, Times(Nth(y, ne, c), (Nth(g, ne, c) + Minus(along)) % P)))
Scale(e) == Over(e.arg[1], e.arg[2])

(* softmax(logits) - labels, element by element.                           *)
Surprise(x, y) == <<>> \o [k \in DOMAIN x |-> (Some("softmax", x[k]) + Minus(y[k])) % P]

(* The numbers of a tensor from those of its sources, z[1], z[2], z[3].    *)
Compute(e, z) ==
    LET Each(F(_)) == <<>> \o [k \in DOMAIN z[1] |-> F(k)]
    IN
    CASE e.op = "scale" ->
           LET scaled == Linear(e, z[1], <<>>)
           IN  Each(LAMBDA k : (scaled[k] + e.arg[3]) % P)
      [] e.op \in LinearOps \ {"scale"} -> Linear(e, z[1], z[2])
      [] e.op \in BilinearOps -> Bilinear(e, z[1], z[2])
      [] e.op = "div" ->
           Numbers(e.ne, LAMBDA c : Over(Nth(z[1], e.ne, c),
                                         Nth(z[2], e.src[2].ne, Wrap(c, e.src[2].ne))))
      [] e.op = "diag_mask_inf" ->
           Numbers(e.ne, LAMBDA c : IF c[1] > e.arg[1] + c[2] THEN Some("mask", 0)
                                    ELSE Nth(z[1], e.ne, c))
      [] e.op \in FunctionNames \ {"neg"} -> Each(LAMBDA k : Function(e.op, z[1][k]))
      [] e.op = "swiglu" -> Each(LAMBDA k : Times(Some("silu", z[1][k]), z[2][k]))
      [] e.op = "geglu" -> Each(LAMBDA k : Some("geglu", z[1][k]))
      [] e.op = "rms_norm" ->
           Numbers(e.ne, LAMBDA c :
               Over(Nth(z[1], e.ne, c), RootMeanSquare(z[1], e.ne, c)))
      [] e.op = "soft_max" -> Each(LAMBDA k : Some("softmax", Times(Scale(e), z[1][k])))
      [] e.op = "cross_entropy_loss" ->
           <<Some("entropy", Total(DOMAIN z[1], LAMBDA k : Times(z[1][k], z[2][k])))>>
      [] e.op = "silu_back" -> Each(LAMBDA k : Times(z[1][k], Some("silu'", z[2][k])))
      [] e.op = "rms_norm_back" -> RmsNormTimes(z[2], z[1], e.ne)
      [] e.op = "soft_max_back" -> SoftMaxTimes(z[2], z[1], e.ne, Scale(e))
      [] e.op = "cross_entropy_loss_back" ->
           LET surprise == Surprise(z[2], z[3])
           IN  <<>> \o [k \in DOMAIN z[2] |-> Times(z[1][1], surprise[k])]

(* Their tangents, from the numbers and the tangents d of the sources; y   *)
(* are the numbers of the tensor itself.                                   *)
Tangent(e, z, d, y) ==
    LET Each(F(_)) == <<>> \o [k \in DOMAIN z[1] |-> F(k)]
        Sum2(a, b) == <<>> \o [k \in DOMAIN a |-> (a[k] + b[k]) % P]
        second(c) == e.src[2].ne
    IN
    CASE e.op = "get_rows" -> Linear(e, d[1], z[2])
      [] e.op \in LinearOps \ {"get_rows"} -> Linear(e, d[1], d[2])
      [] e.op \in BilinearOps -> Sum2(Bilinear(e, d[1], z[2]), Bilinear(e, z[1], d[2]))
      [] e.op = "div" ->
           Numbers(e.ne, LAMBDA c :
               LET b == Wrap(c, e.src[2].ne)
                   ne2 == e.src[2].ne
               IN  Over((Nth(d[1], e.ne, c) + Minus(Times(Nth(y, e.ne, c), Nth(d[2], ne2, b)))) % P,
                        Nth(z[2], ne2, b)))
      [] e.op = "diag_mask_inf" -> Linear([e EXCEPT !.op = "diag_mask_zero"], d[1], <<>>)
      [] e.op \in FunctionNames \ {"neg"} ->
           Each(LAMBDA k : Times(Derivative(e.op, z[1][k]), d[1][k]))
      [] e.op = "swiglu" ->
           Each(LAMBDA k : (Times(Times(Some("silu'", z[1][k]), d[1][k]), z[2][k])
                            + Times(Some("silu", z[1][k]), d[2][k])) % P)
      [] e.op = "geglu" -> Each(LAMBDA k : 0)
      [] e.op = "rms_norm" -> RmsNormTimes(z[1], d[1], e.ne)
      [] e.op = "soft_max" -> SoftMaxTimes(y, d[1], e.ne, Scale(e))
      [] e.op = "cross_entropy_loss" ->
           LET surprise == Surprise(z[1], z[2])
           IN  <<Total(DOMAIN z[1], LAMBDA k : Times(surprise[k], d[1][k]))>>
-----------------------------------------------------------------------------
Alias == {"view", "reshape", "permute", "transpose"}

(* A tensor in the memory of another one is written there.                 *)
Home(e) == IF e.op = "cpy" THEN 2 ELSE 1

LeafNumbers(i) ==
    IF tensors[i].op = "index" THEN [k \in 1 .. nelements(tensors[i]) |-> k % 2]
    ELSE [k \in 1 .. nelements(tensors[i]) |-> Some("leaf", 29 * i + k)]
Direction(i) == [k \in 1 .. nelements(tensors[i]) |-> Some("direction", 31 * i + k)]
Zeros(n) == [k \in 1 .. n |-> 0]

(* What is in the memory of e after its numbers are computed; home is the  *)
(* memory of another tensor, for one that lies there.                      *)
Kept(e, home, numbers) == IF e.view THEN Write(e, home, numbers) ELSE numbers

Worth(e, home, z, d, y) ==
    [v |-> Kept(e, home.v, y), d |-> Kept(e, home.d, Tangent(e, z, d, y))]

(* The memory of the first n tensors, numbers v and tangents d, when only  *)
(* parameter p is varied.                                                  *)
RECURSIVE Forward(_, _)
Forward(n, p) ==
    IF n = 0 THEN <<>>
    ELSE LET before == Forward(n - 1, p)
             e == tensors[n]
             V(k) == Read(e.src[k], before[Source(n, k)].v)
             D(k) == Read(e.src[k], before[Source(n, k)].d)
             z == <<>> \o [k \in DOMAIN e.src |-> V(k)]
             d == <<>> \o [k \in DOMAIN e.src |-> D(k)]
             pad == <<<<>>, <<>>, <<>>>>
         IN  Append(before,
               CASE e.op \in LeafKinds ->
                      [v |-> LeafNumbers(n),
                       d |-> IF n = p THEN Direction(n) ELSE Zeros(nelements(e))]
                 [] e.op \in Alias -> before[Source(n, 1)]
                 [] OTHER -> Worth(e, before[Source(n, Home(e))], z \o pad, d \o pad,
                                   Compute(e, z \o pad)))

(* ggml_graph_reset() puts a 1 into the accumulator of a loss and zeros    *)
(* into the others.                                                        *)
AfterReset == [i \in accs |-> IF i \in losses THEN <<1>>
                              ELSE Zeros(nelements(tensors[i]))]

(* The memory a gradient lies in once it is computed, given that of the    *)
(* tensors and that of the accumulators.                                   *)
RECURSIVE Memory(_, _, _)
Memory(e, forward, held) ==
    LET of == <<>> \o [k \in DOMAIN e.src |-> Memory(e.src[k], forward, held)]
        z == <<>> \o [k \in DOMAIN e.src |-> Read(e.src[k], of[k])]
    IN  CASE e.op = "ref" -> forward[e.arg[1]].v
          [] e.op = "accumulator" -> held[e.arg[1]]
          [] e.op \in Alias -> of[1]
          [] OTHER -> Kept(e, of[Home(e)], Compute(e, z \o <<<<>>, <<>>, <<>>>>))

Gradient(i, forward, held) ==
    IF i \in DOMAIN grads THEN Read(grads[i], Memory(grads[i], forward, held))
    ELSE Zeros(nelements(tensors[i]))

(* The tensor whose memory a tensor lies in.                               *)
RECURSIVE Root(_)
Root(e) == IF e.view /\ e.op # "ref" THEN Root(e.src[Home(e)]) ELSE e

(* The accumulators after an evaluation of the graph.                      *)
AfterEvaluation(forward, held) ==
    [i \in accs |-> IF Root(grads[i]) = Accumulator(i)
                    THEN Memory(grads[i], forward, held) ELSE held[i]]
-----------------------------------------------------------------------------
(* What the backward pass says the losses together change by when p moves  *)
(* in its direction, and what they do change by.                           *)
ByGradient(p, forward) ==
    LET g == Gradient(p, forward, AfterReset)
    IN  Total(DOMAIN g, LAMBDA k : Times(g[k], Direction(p)[k]))
ByDerivative(forward) ==
    Total(losses, LAMBDA l : Read(tensors[l], forward[l].d)[1])
Agrees(p, forward) == ByGradient(p, forward) = ByDerivative(forward)

(* Nodes at which the code is known to go wrong.  The place of a view in a *)
(* tensor, and that of the block of acc and set, is one in its memory; it  *)
(* is used as a place in a gradient that is packed otherwise.  And to the  *)
(* second source of add1 goes the mean of what should be summed.           *)
ViewOfGaps(i) == tensors[i].op = "view" /\ ~is_contiguous(X(i))
BlockOfMovedGradient(i) ==
    tensors[i].op \in {"acc", "set"} /\ i \in DOMAIN grads /\ ~is_contiguous(grads[i])
MeanForSum(i) ==
    tensors[i].op = "add1" /\ Source(i, 2) \in needed /\ tensors[i].ne[1] > 1
Sound(i) == ~(ViewOfGaps(i) \/ BlockOfMovedGradient(i) \/ MeanForSum(i))

(* The gradient ggml_build_backward_expand() builds for a parameter is the *)
(* derivative of the sum of the losses, whatever the graph, the broadcasts *)
(* in it and the views, if all of its nodes are sound.                     *)
GradientIsDerivative ==
    Finished /\ (\A i \in Tensors : Sound(i)) =>
        \A p \in Params \cap needed : Agrees(p, Forward(Len(tensors), p))

Doubles(forward, once) ==
    LET twice == AfterEvaluation(forward, once)
    IN  \A p \in (accs \cap Params) \ losses :
           /\ Read(grads[p], once[p]) = Gradient(p, forward, AfterReset)
           /\ \A k \in DOMAIN once[p] : twice[p][k] = (2 * once[p][k]) % P

(* Evaluating the graph twice without a reset between leaves twice the     *)
(* gradient in the accumulator of a parameter: what is added to a tensor   *)
(* that has one is added in its memory, and that of a loss keeps its 1.    *)
(* It does not when a loss is computed from another loss, whose            *)
(* accumulator then takes up what comes from the first.                    *)
FeedsALoss(l) == \E t \in Tensors : l \in Sources(t) /\ t \in needed
GradientsAddUp ==
    Finished /\ (\A l \in losses : ~FeedsALoss(l)) =>
        LET forward == Forward(Len(tensors), 0)
        IN  Doubles(forward, AfterEvaluation(forward, AfterReset))
=============================================================================
