---------------------------- MODULE GgmlBackward ----------------------------
(***************************************************************************)
(* ggml_build_backward_expand() of src/main/remaining/ggml.c: given a      *)
(* graph of tensors it marks the tensors a gradient is needed for, then    *)
(* walks the nodes from the last to the first, and at each adds to the     *)
(* gradients of its sources an expression of ggml operations.              *)
(*                                                                         *)
(* Tensors are numbered as they are made.  The nodes of a graph are in an  *)
(* order that puts a tensor after its sources (SourcesComeFirst of         *)
(* GgmlGraph); every such order is an order in which the tensors could     *)
(* have been made, so the nodes are taken in the order of the numbers.     *)
(* A tensor names a source by a reference to its number; a gradient is an  *)
(* expression whose leaves are references and accumulators.                *)
(*                                                                         *)
(* Left out are forward operations in place, ggml_cast(), rope, im2col and *)
(* pool_2d.                                                                *)
(***************************************************************************)
EXTENDS GgmlOps, FiniteSets

CONSTANT Programs    (* bound: what graphs are made of; a set of records of *)
                     (* leaves, a sequence of pairs of a kind ("param",     *)
                     (* "input", "index", "target") and a shape, ops, the   *)
                     (* operations, how many of them there are at most, and *)
                     (* how many losses                                     *)

LeafKinds == {"param", "input", "index", "target"}

ASSUME ProgramAssumption ==
    \A p \in Programs :
        /\ p.leaves \in Seq(LeafKinds \X [Dims -> Nat \ {0}])
        /\ p.max_ops \in Nat /\ p.max_losses \in Nat

VARIABLES
    program,    (* what the graph is made of                                *)
    tensors,
    losses,     (* tensors flagged GGML_TENSOR_FLAG_LOSS                    *)
    accs,       (* tensors that have a gradient accumulator                 *)
    needed,     (* grads_needed                                             *)
    grads,      (* the gradient of every tensor that has one                *)
    cursor,     (* the node ggml_compute_backward() is next called on       *)
    phase       (* "forward", "backward" or "aborted"                       *)

flags == <<losses, accs, needed>>
vars == <<program, tensors, flags, grads, cursor, phase>>

Tensors == 1 .. Len(tensors)
Params == {i \in Tensors : tensors[i].op = "param"}

(* A reference to tensor i, and the accumulator of its gradient.           *)
Ref(i) ==
    [op |-> "ref", src |-> <<>>, arg |-> <<i>>, type |-> tensors[i].type,
     ne |-> tensors[i].ne, nb |-> tensors[i].nb, offs |-> tensors[i].offs,
     room |-> tensors[i].room, view |-> tensors[i].view, ok |-> TRUE]
Accumulator(i) == NewTensor("accumulator", <<>>, <<i>>, tensors[i].ne, TRUE)

Source(i, k) == tensors[i].src[k].arg[1]
Sources(i) == {Source(i, k) : k \in DOMAIN tensors[i].src}

Leaf(leaf) == [NewTensor(leaf[1], <<>>, <<>>, leaf[2], TRUE)
                 EXCEPT !.type = IF leaf[1] = "index" THEN "i32" ELSE "f32"]

Init ==
    /\ program \in Programs
    /\ tensors = [k \in DOMAIN program.leaves |-> Leaf(program.leaves[k])]
    /\ losses = {} /\ accs = {} /\ needed = {}
    /\ grads = <<>>
    /\ cursor = 0
    /\ phase = "forward"
-----------------------------------------------------------------------------
Usable == {i \in Tensors : tensors[i].type = "f32" /\ tensors[i].op # "target"}

(* The program makes a tensor.  The last of a graph is one of its losses,  *)
(* so the last that can be made has to be a scalar.                        *)
OpsMade == Len(tensors) - Len(program.leaves)
MayMake ==
    /\ phase = "forward"
    /\ OpsMade < program.max_ops
    /\ UNCHANGED <<program, flags, grads, cursor, phase>>
Make(e) ==
    /\ e.op \in program.ops
    /\ e.ok
    /\ OpsMade + 1 = program.max_ops => is_scalar(e)
    /\ tensors' = Append(tensors, e)

MakePointwise ==
    /\ MayMake
    /\ \E i \in Usable :
          \/ \E op \in Plain : Make(plain(op, Ref(i)))
          \/ \E op \in Unary : Make(unary(op, Ref(i)))
          \/ \E op \in DiagMask : Make(diag_mask(op, Ref(i), 0))
          \/ Make(scale_impl(Ref(i), <<3, 1>>, 1))
          \/ Make(soft_max(Ref(i)))

MakeElementwise ==
    /\ MayMake
    /\ \E i, j \in Usable :
          \/ \E op \in Elementwise :
                Make(elementwise(op, Ref(i), Ref(j), FALSE))
          \/ \E op \in Glu : Make(glu(op, Ref(i), Ref(j)))
          \/ Make(add1_impl(Ref(i), Ref(j), FALSE))
          \/ Make(soft_max_ext(Ref(i), Ref(j), <<3, 1>>))

MakeReduction ==
    /\ MayMake
    /\ \/ \E i \in Usable :
             Make(sum(Ref(i))) \/ Make(sum_rows(Ref(i))) \/ Make(mean(Ref(i)))
       \/ \E i, j \in Usable : Make(cross_entropy_loss(Ref(i), Ref(j)))

MakeRepeat ==
    /\ MayMake
    /\ \E i, j \in Usable :
          \/ Make(repeat(Ref(i), tensors[j]))
          \/ Make(repeat_back(Ref(i), tensors[j]))

MakeProduct ==
    /\ MayMake
    /\ \E i, j \in Usable : Make(mul_mat(Ref(i), Ref(j)))

(* The row numbers are 0 and 1: there have to be two rows.                 *)
MakeGetRows ==
    /\ MayMake
    /\ \E i \in Usable, j \in Tensors :
          tensors[i].ne[2] > 1 /\ Make(get_rows(Ref(i), Ref(j)))

(* A block of the rows and columns of a shape laid out with some strides:  *)
(* its shape, and its place as an argument of acc, set and view.           *)
Blocks(ne, nb) ==
    LET starts == (0 .. ne[1] - 1) \X (0 .. ne[2] - 1)
        sizes(at) == (1 .. ne[1] - at[1]) \X (1 .. ne[2] - at[2])
        blocks(at) ==
          {<<<<size[1], size[2], ne[3], ne[4]>>,
             SubSeq(nb, 2, 4) \o <<at[1] * nb[1] + at[2] * nb[2]>>>> : size \in sizes(at)}
    IN  UNION {blocks(at) : at \in starts}

MakeWithBlock ==
    /\ MayMake
    /\ \E i, j \in Usable :
       \E block \in Blocks(tensors[i].ne, Packed(tensors[i].ne)) :
          /\ block[1] = tensors[j].ne
          /\ \/ Make(acc_impl(Ref(i), Ref(j), block[2], FALSE))
             \/ Make(set(Ref(i), Ref(j), block[2]))

(* The memory of a "target" is only ever written, by one copy into it.     *)
Untouched(j) == /\ tensors[j].op = "target"
                /\ \A t \in Tensors : j \notin Sources(t)

MakeMoved ==
    /\ MayMake
    /\ \E i \in Usable :
          \/ Make(cont(Ref(i)))
          \/ Make(transpose(Ref(i)))
          \/ Make(permute(Ref(i), <<2, 3, 1, 4>>))
          \/ Make(reshape(Ref(i), <<nelements(tensors[i]), 1, 1, 1>>))
          \/ \E block \in Blocks(tensors[i].ne, tensors[i].nb) :
                /\ tensors[i].nb[1] = 1 \/ block[1][1] = 1
                /\ Make(view_4d(Ref(i), block[1], block[2]))
          \/ \E j \in Tensors : Untouched(j) /\ Make(cpy(Ref(i), Ref(j)))

(* ggml_set_loss()                                                         *)
SetLoss ==
    /\ phase = "forward"
    /\ \E i \in Tensors : /\ i = Len(tensors)
                          /\ is_scalar(tensors[i])
                          /\ tensors[i].op \notin LeafKinds \ {"param"}
                          /\ i \notin losses
                          /\ losses' = losses \cup {i}
    /\ Cardinality(losses) < program.max_losses
    /\ UNCHANGED <<program, tensors, accs, needed, grads, cursor, phase>>
-----------------------------------------------------------------------------
(* The graph is built from its losses: the smallest set of tensors that    *)
(* has the losses and the sources of what is in it.                        *)
InGraph ==
    LET built(S) == losses \subseteq S /\ \A i \in S : Sources(i) \subseteq S
    IN  {i \in Tensors : \A S \in SUBSET Tensors : built(S) => i \in S}

IgnoredSources(i) ==
    CASE tensors[i].op \in {"sgn", "step"} -> {1}
      [] tensors[i].op \in {"cpy", "get_rows"} -> {2}
      [] OTHER -> {}

(* A node needs a gradient if a source that it does not ignore does.       *)
HandsOn(i, S) ==
    \E k \in DOMAIN tensors[i].src \ IgnoredSources(i) : Source(i, k) \in S

NeedsGradient ==
    LET marked(S) == /\ Params \cup losses \subseteq S
                     /\ \A i \in Tensors : HandsOn(i, S) => i \in S
    IN  {i \in InGraph : \A S \in SUBSET Tensors : marked(S) => i \in S}

(* ggml_build_backward_expand() up to its second loop.  The caller hands   *)
(* in accumulators for some parameters; a loss gets one in any case.       *)
BackwardExpand ==
    /\ phase = "forward"
    /\ Tensors \subseteq InGraph \cup {i \in Tensors : tensors[i].op \in LeafKinds}
    /\ losses # {} /\ Params \cap InGraph # {}
    /\ phase' = "backward"
    /\ needed' = NeedsGradient
    /\ \E given \in SUBSET (Params \cap InGraph) :
          /\ accs' = given \cup losses
          /\ grads' = [i \in given \cup losses |-> Accumulator(i)]
    /\ cursor' = Len(tensors)
    /\ UNCHANGED <<program, tensors, losses>>

(* The assertions it begins with: there is a parameter and there is a loss.*)
NothingToTrain ==
    /\ phase = "forward"
    /\ OpsMade > 0
    /\ losses = {} \/ Params \cap InGraph = {}
    /\ phase' = "aborted"
    /\ UNCHANGED <<program, tensors, flags, grads, cursor>>
-----------------------------------------------------------------------------
(* What a node adds to the gradient of a source: how, and which tensor.    *)
(* A node that adds nothing to a source it was to add to leaves the source *)
(* without the gradient the last assertions look at.                       *)
Nothing == [how |-> "nothing"]
Add(e) == [how |-> "add", e |-> e, at |-> <<>>]
Sub(e) == [how |-> "sub", e |-> e, at |-> <<>>]
Add1(e) == [how |-> "add1", e |-> e, at |-> <<>>]
Acc(e, at) == [how |-> "acc", e |-> e, at |-> at]

Asserting(e, condition) == [e EXCEPT !.ok = @ /\ condition]

(* Mutated form: the sum is left to the broadcast.                         *)
NotSummedTo(e, a, b) == e

(* Summed over what was repeated to the shape of b.                        *)
SummedTo(e, a, b) == IF are_same_shape(a, b) THEN e ELSE repeat_back(e, b)

Op(i) == tensors[i].op
Arg(i) == tensors[i].arg
X(i) == Ref(Source(i, 1))
Y(i) == Ref(Source(i, 2))

(* Each of the following is the part of the switch in                      *)
(* ggml_compute_backward() for some operations: what node i, whose         *)
(* gradient is g, adds to the gradient of its source, or of its two.       *)
ArithmeticBack(i, g) ==
    CASE Op(i) = "dup" -> <<Add(g), Nothing>>
      [] Op(i) = "add" -> <<Add(g), Add(SummedTo(g, X(i), Y(i)))>>
      [] Op(i) = "add1" -> <<Add(g), Add(mean(g))>>
      [] Op(i) = "sub" -> <<Add(g), Sub(g)>>
      [] Op(i) = "mul" -> <<Add(mul(g, Y(i))), Add(SummedTo(mul(X(i), g), X(i), Y(i)))>>
      [] Op(i) = "div" -> <<Add(div(g, Y(i))), Sub(mul(g, div(Ref(i), Y(i))))>>

FunctionBack(i, g) ==
    CASE Op(i) = "sqr" -> Add(scale(mul(X(i), g), <<2, 1>>))
      [] Op(i) = "sqrt" -> Add(scale(div(g, Ref(i)), <<1, 2>>))
      [] Op(i) = "log" -> Add(div(g, X(i)))
      [] Op(i) = "sin" -> Add(mul(g, plain("cos", X(i))))
      [] Op(i) = "cos" -> Sub(mul(g, plain("sin", X(i))))
      [] Op(i) = "rms_norm" -> Add(rms_norm_back(g, X(i)))
      [] Op(i) = "scale" -> Add(scale(g, <<Arg(i)[1], Arg(i)[2]>>))

UnaryBack(i, g) ==
    CASE Op(i) = "abs" -> Add(mul(unary("sgn", X(i)), g))
      [] Op(i) \in {"sgn", "step"} -> Nothing
      [] Op(i) = "neg" -> Sub(g)
      [] Op(i) = "relu" -> Add(mul(unary("step", X(i)), g))
      [] Op(i) = "silu" -> Add(silu_back(g, X(i)))
      [] Op(i) = "exp" -> Add(mul(Ref(i), g))
      [] Op(i) = "expm1" -> Add(mul(g, unary("exp", X(i))))
      [] Op(i) = "softplus" -> Add(mul(g, unary("sigmoid", X(i))))

ReductionBack(i, g) ==
    CASE Op(i) = "sum" -> Add1(g)
      [] Op(i) \in {"sum_rows", "repeat_back"} -> Add(repeat(g, X(i)))
      [] Op(i) = "mean" -> Add1(scale(g, <<1, X(i).ne[1]>>))
      [] Op(i) = "repeat" -> Add(repeat_back(g, X(i)))

(* x was broadcast over dimensions 3 and 4 of y: of the product of y and g *)
(* the matrices that belong to one of x are brought side by side.          *)
(* Mutated form: with the number of matrices for that in a group.          *)
GroupedByAll(product, x) ==
    LET nr2 == product.ne[3] \div x.ne[3]
    IN  view_4d(product, <<x.ne[1], x.ne[2], x.ne[3], nr2>>,
                <<product.nb[2], product.nb[3] * product.ne[3], product.nb[3], 0>>)

Grouped(product, x) ==
    LET nr2 == product.ne[3] \div x.ne[3]
    IN  view_4d(product, <<x.ne[1], x.ne[2], x.ne[3], nr2>>,
                <<product.nb[2], product.nb[3] * nr2, product.nb[3], 0>>)

MulMatBack0(g, x, y) ==
    LET product == out_prod(y, g)
    IN  IF are_same_shape(product, x) THEN product
        ELSE Asserting(repeat_back(Grouped(product, x), x),
                       /\ product.ne[1] = x.ne[1] /\ product.ne[2] = x.ne[2]
                       /\ product.ne[4] = 1)

ProductBack(i, g) ==
    CASE Op(i) = "mul_mat" ->
           <<Add(Asserting(MulMatBack0(g, X(i), Y(i)), g.ne[3] = Y(i).ne[3] /\ g.ne[4] = Y(i).ne[4])),
             Add(out_prod(X(i), transpose(g)))>>
      [] Op(i) = "get_rows" -> <<Add(get_rows_back(g, Y(i), X(i))), Nothing>>
      [] Op(i) = "swiglu" -> <<Add(silu_back(mul(g, Y(i)), X(i))), Add(mul(unary("silu", X(i)), g))>>

BlockBack(i, g) ==
    LET block == view_4d(g, Y(i).ne, Arg(i))
    IN  <<IF Op(i) = "acc" THEN Add(g)
          ELSE Add(acc_impl(g, unary("neg", block), Arg(i), FALSE)),
          Add(reshape(cont(block), Y(i).ne))>>

LossBack(i, g) ==
    CASE Op(i) \in DiagMask ->
           Add(diag_mask("diag_mask_zero", g, Arg(i)[1]))
      [] Op(i) = "soft_max" -> Add(soft_max_ext_back(g, Ref(i), Arg(i)))
      [] Op(i) = "cross_entropy_loss" -> Add(cross_entropy_loss_back(g, X(i), Y(i)))

MovedBack(i, g) ==
    CASE Op(i) = "cpy" -> Add(reshape(g, X(i).ne))
      [] Op(i) = "cont" ->
           Add(Asserting(IF are_same_shape(tensors[i], X(i)) THEN g ELSE reshape(g, X(i).ne),
                         is_contiguous(g)))
      [] Op(i) = "reshape" ->
           Add(reshape(IF is_contiguous(g) THEN g ELSE cont(g), X(i).ne))
      [] Op(i) = "view" -> Acc(g, SubSeq(tensors[i].nb, 2, 4) \o <<Arg(i)[4]>>)
      [] Op(i) = "permute" ->
           Add(permute(g, [j \in Dims |-> CHOOSE k \in Dims : Arg(i)[k] = j]))
      [] Op(i) = "transpose" -> Add(transpose(g))

FunctionOps == {"sqr", "sqrt", "log", "sin", "cos", "rms_norm", "scale"}
UnaryOps == {"abs", "sgn", "step", "neg", "relu", "silu", "exp", "expm1", "softplus"}
ReductionOps == {"sum", "sum_rows", "mean", "repeat", "repeat_back"}
LossOps == DiagMask \cup {"soft_max", "cross_entropy_loss"}
MovedOps == {"cpy", "cont", "reshape", "view", "permute", "transpose"}
Unsupported == {"norm", "gelu", "geglu", "sigmoid"}

Contributions(i, g) ==
    CASE Op(i) \in LeafKinds -> <<>>
      [] Op(i) \in {"dup"} \cup Elementwise \cup {"add1"} -> ArithmeticBack(i, g)
      [] Op(i) \in {"mul_mat", "get_rows", "swiglu"} -> ProductBack(i, g)
      [] Op(i) \in {"acc", "set"} -> BlockBack(i, g)
      [] Op(i) \in FunctionOps -> <<FunctionBack(i, g), Nothing>>
      [] Op(i) \in UnaryOps -> <<UnaryBack(i, g), Nothing>>
      [] Op(i) \in ReductionOps -> <<ReductionBack(i, g), Nothing>>
      [] Op(i) \in LossOps -> <<LossBack(i, g), Nothing>>
      [] Op(i) \in MovedOps -> <<MovedBack(i, g), Nothing>>

WithGradient(gs, i, e) == [j \in DOMAIN gs \cup {i} |-> IF j = i THEN e ELSE gs[j]]

(* ggml_add_or_set() and its siblings: in place iff the gradient so far is *)
(* that of a tensor with an accumulator.                                   *)
add_or_set(gs, i, e) ==
    IF i \in DOMAIN gs THEN add_impl(gs[i], e, i \in accs) ELSE e

(* Mutated form: the first gradient of a tensor keeps its sign.            *)
sub_or_set_plain(gs, i, e) ==
    IF i \in DOMAIN gs THEN sub_impl(gs[i], e, i \in accs) ELSE e

sub_or_set(gs, i, e) ==
    IF i \in DOMAIN gs THEN sub_impl(gs[i], e, i \in accs) ELSE unary("neg", e)

(* Mutated form: the sum gets memory of its own.                           *)
add1_or_set_apart(gs, i, e) ==
    IF i \in DOMAIN gs THEN add1_impl(gs[i], e, FALSE) ELSE repeat(e, tensors[i])

add1_or_set(gs, i, e) ==
    IF i \in DOMAIN gs THEN add1_impl(gs[i], e, i \in accs) ELSE repeat(e, tensors[i])

acc_or_set(gs, i, e, at) ==
    IF i \in DOMAIN gs THEN acc_impl(gs[i], e, at, i \in accs)
    ELSE acc_impl(scale(Ref(i), <<0, 1>>), e, at, FALSE)

Contribute(gs, i, c) ==
    CASE c.how = "add" -> WithGradient(gs, i, add_or_set(gs, i, c.e))
      [] c.how = "sub" -> WithGradient(gs, i, sub_or_set(gs, i, c.e))
      [] c.how = "add1" -> WithGradient(gs, i, add1_or_set(gs, i, c.e))
      [] c.how = "acc" -> WithGradient(gs, i, acc_or_set(gs, i, c.e, c.at))
      [] OTHER -> gs

AfterSource(gs, i, k) ==
    IF k \in DOMAIN tensors[i].src /\ Source(i, k) \in needed
    THEN Contribute(gs, Source(i, k), Contributions(i, grads[i])[k])
    ELSE gs

(* Mutated form: the gradient of the node takes up what a source gets.     *)
GradsAfterWithNode(i) ==
    LET after == AfterSource(AfterSource(grads, i, 1), i, 2)
    IN  IF AfterSource(grads, i, 1) # grads
        THEN Contribute(after, i, Contributions(i, grads[i])[1]) ELSE after

GradsAfter(i) == AfterSource(AfterSource(grads, i, 1), i, 2)

(* What a node asserts besides what the constructors do: no gradient for   *)
(* a mask or for labels, a packed gradient for what was made packed.       *)
NodeAssertions(i) ==
    /\ Op(i) \notin Unsupported
    /\ Op(i) \in {"soft_max", "cross_entropy_loss"} =>
          \A k \in DOMAIN tensors[i].src : k = 2 => Source(i, k) \notin needed
    /\ Op(i) = "cont" /\ Source(i, 1) \in needed /\ Source(i, 1) \in DOMAIN grads =>
          is_contiguous(grads[Source(i, 1)])

SourcesHaveGradients(i, gs) ==
    \A s \in Sources(i) \cap needed :
        s \in DOMAIN gs /\ gs[s].ok /\ are_same_shape(tensors[s], gs[s])

(* ggml_compute_backward() for the node at the cursor.                     *)
Succeeds ==
    /\ NodeAssertions(cursor)
    /\ SourcesHaveGradients(cursor, GradsAfter(cursor))

PassBy ==
    /\ phase = "backward" /\ cursor > 0
    /\ cursor \notin DOMAIN grads
    /\ cursor' = cursor - 1
    /\ UNCHANGED <<program, tensors, flags, grads, phase>>

ComputeBackward ==
    /\ phase = "backward" /\ cursor > 0
    /\ cursor \in DOMAIN grads
    /\ Succeeds
    /\ grads' = GradsAfter(cursor)
    /\ cursor' = cursor - 1
    /\ UNCHANGED <<program, tensors, flags, phase>>

Abort ==
    /\ phase = "backward" /\ cursor > 0
    /\ cursor \in DOMAIN grads
    /\ ~Succeeds
    /\ phase' = "aborted"
    /\ UNCHANGED <<program, tensors, flags, grads, cursor>>

Next ==
    \/ MakePointwise \/ MakeElementwise \/ MakeReduction \/ MakeRepeat
    \/ MakeProduct \/ MakeGetRows \/ MakeWithBlock \/ MakeMoved
    \/ SetLoss \/ BackwardExpand \/ NothingToTrain
    \/ PassBy \/ ComputeBackward \/ Abort

Spec == Init /\ [][Next]_vars
-----------------------------------------------------------------------------
(* What ends the process in the backward pass of a graph that the          *)
(* constructors accepted.                                                  *)
NeedsSource(i, k) == k \in DOMAIN tensors[i].src /\ Source(i, k) \in needed
NoBackwardPass(i) == Op(i) \in Unsupported \/ Op(i) \in {"sgn", "step"}
GradientForConstant(i) ==
    Op(i) \in {"soft_max", "cross_entropy_loss"} /\ NeedsSource(i, 2)
(* sub and div, unlike add and mul, do not sum over what was repeated, and *)
(* add1 takes the mean of every row.                                       *)
RepeatedOperand(i) ==
    /\ NeedsSource(i, 2)
    /\ \/ Op(i) \in {"sub", "div"} /\ ~are_same_shape(X(i), Y(i))
       \/ Op(i) = "add1" /\ ~is_vector(X(i))
RowsIntoGradient(i) ==
    Op(i) = "mean" /\ ~is_vector(X(i)) /\ Source(i, 1) \in DOMAIN grads
RowsOfSeveralMatrices(i) == Op(i) = "get_rows" /\ ~is_matrix(X(i))
(* What a matrix was broadcast over is one dimension, the third.           *)
BroadcastOverTwo(i) ==
    /\ Op(i) = "mul_mat" /\ NeedsSource(i, 1)
    /\ Y(i).ne[4] # 1
    /\ X(i).ne[3] # Y(i).ne[3] \/ X(i).ne[4] # Y(i).ne[4]
MovedGradient(i) ==
    \E t \in ({i} \cup Sources(i)) \cap DOMAIN grads :
        grads[t].nb # Packed(grads[t].ne)
MovedSource(i) ==
    \/ Op(i) = "mul_mat" /\ is_transposed(Y(i))
    \/ Op(i) = "view" /\ ~is_padded_1d(X(i))

Refuses(i) ==
    \/ NoBackwardPass(i) \/ GradientForConstant(i) \/ RepeatedOperand(i)
    \/ RowsIntoGradient(i) \/ RowsOfSeveralMatrices(i)
    \/ BroadcastOverTwo(i) \/ MovedGradient(i) \/ MovedSource(i)

(* The backward pass ends the process only at such a node: a graph without *)
(* one gets its gradients.                                                 *)
AbortsAreForeseen == phase = "aborted" /\ cursor > 0 => Refuses(cursor)
-----------------------------------------------------------------------------
TypeOK ==
    /\ program \in Programs
    /\ losses \subseteq Tensors /\ accs \subseteq needed /\ needed \subseteq Tensors
    /\ accs \subseteq DOMAIN grads /\ DOMAIN grads \subseteq needed
    /\ cursor \in 0 .. Len(tensors)
    /\ phase \in {"forward", "backward", "aborted"}

(* A tensor is made from tensors made before.                              *)
SourcesComeFirst == \A i \in Tensors : \A s \in Sources(i) : s \in 1 .. i - 1

(* ggml_compute_backward() hands on the gradient of a node and, where that *)
(* is in place, the memory of an accumulator; both are right only if       *)
(* nothing is added to the gradient any more.  No step changes the         *)
(* gradient of a node the walk has come to.                                *)
GradientsAreFinal ==
    [][phase = "backward" =>
          \A i \in DOMAIN grads : i >= cursor => grads'[i] = grads[i]]_vars
-----------------------------------------------------------------------------
(* Where the elements of a tensor lie.                                     *)
Indices(ne) == (0 .. ne[1] - 1) \X (0 .. ne[2] - 1) \X (0 .. ne[3] - 1) \X (0 .. ne[4] - 1)
Address(nb, c) == c[1] * nb[1] + c[2] * nb[2] + c[3] * nb[3] + c[4] * nb[4]
Within(e) ==
    \A c \in Indices(e.ne) : e.offs + Address(e.nb, c) \in 0 .. e.room - 1

(* What e is made from in at most h steps, itself included.                *)
WithSources(e) == {e} \cup {e.src[k] : k \in DOMAIN e.src}
Parts(e, h) ==
    LET upto[k \in 0 .. h] ==
          IF k = 0 THEN {e} ELSE UNION {WithSources(x) : x \in upto[k - 1]}
    IN  upto[h]

(* A node puts at most five tensors on top of a gradient.                  *)
Height == 5 * Len(tensors)

Finished == phase = "backward" /\ cursor = 0

(* Every tensor of a gradient reads and writes inside the memory it lies   *)
(* in, also those with the strides ggml_view_4d() was handed.              *)
GradientsInside ==
    Finished => \A i \in DOMAIN grads : \A e \in Parts(grads[i], Height) : Within(e)
=============================================================================
