----------------------------- MODULE GpuThreads -----------------------------
(***************************************************************************)
(* What the kernels of src/kernel/ are written with: the threads of a      *)
(* launch, the memory they share, and numbers.                             *)
(*                                                                         *)
(* A number is abstracted to the bag of the inputs it is made of: at the   *)
(* launch every location holds itself, an addition adds the bags, any      *)
(* other function (a product, exp, a maximum, a rounding) is made of every *)
(* input that enters it once.  The algebra tells apart what goes wrong in  *)
(* a kernel: an input that is missing, that enters a sum twice, that is    *)
(* taken from the wrong place or from a place nobody has written yet.      *)
(*                                                                         *)
(* A location is <<array, index>> in the memory of the device, with the    *)
(* flat index the code computes, <<"shared", block, index>> in the shared  *)
(* memory of a block and <<variable, thread, index>> in a register or a    *)
(* local array of a thread.                                                *)
(***************************************************************************)
EXTENDS Integers, Bags, TLC, FiniteSetsExt

Nothing == <<>>                     \* no location is stored to
Zero == EmptyBag
Sym(x) == SetToBag({x})             \* the input at x
NaN == Sym(<<"NaN">>)                \* no number, or infinity
Made(vs) == SetToBag(UNION {DOMAIN v : v \in vs})

Apply(f, v) == Sym(<<f, v>>)        \* where f twice is not f once
Plus(v, w) == v (+) w

\* The sum of f(i) over the indices in S.
Sum(S, f(_)) ==
  MapThenFoldSet(Plus, Zero, f, LAMBDA T : CHOOSE i \in T : TRUE, S)

Get(m, x) == IF x \in DOMAIN m THEN m[x] ELSE Sym(x)
In(m, a, i) == Get(m, <<a, i>>)
Row(m, a, first, n) == {In(m, a, j) : j \in first .. first + n - 1}

Put(a, i, v) == <<a, i>> :> v
PutAll(a, S, v(_)) == [x \in {<<a, i>> : i \in S} |-> v(x[2])]
Below(i, n, st) == IF i < n THEN st ELSE Nothing

\* gridDim and blockDim of a launch, and the threads it starts
Threads(l) ==
  [bx : 0 .. l.grid[1] - 1, by : 0 .. l.grid[2] - 1, bz : 0 .. l.grid[3] - 1,
   tx : 0 .. l.block[1] - 1, ty : 0 .. l.block[2] - 1]
Block(t) == <<t.bx, t.by, t.bz>>
Gid(l, t) == t.bx * l.block[1] + t.tx
CeilDiv(n, k) == (n + k - 1) \div k

Shared(t, i) == <<"shared", Block(t), i>>
Local(a, t, i) == <<a, t, i>>

\* float[4096 * 4] and float[4096], in elements of the model
CONSTANTS Temp, Room
ASSUME LocalArrayAssumption == Temp \in Nat /\ Room \in Nat

\* A local array of room elements that is written up to index n - 1: what the
\* thread stores behind it.
Spill(a, t, n, room) ==
  [x \in {Local("behind", <<a, t>>, i) : i \in room .. n - 1} |-> Zero]

\* for (i = first; i < n; i += step)
Strided(first, n, step) == {i \in first .. n - 1 : (i - first) % step = 0}
=============================================================================
