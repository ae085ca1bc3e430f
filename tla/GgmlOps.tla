------------------------------ MODULE GgmlOps -------------------------------
(***************************************************************************)
(* Tensors of ggml (src/main/remaining/ggml.c) and the functions that make *)
(* them, as far as the shape, the strides, the memory a tensor lies in and *)
(* the assertions of a constructor go.  Strides, offsets and sizes count   *)
(* elements, not bytes.                                                    *)
(*                                                                         *)
(* A failed GGML_ASSERT ends the process; here it makes a tensor that is   *)
(* not ok, and whatever is made from one is not ok.  Types other than f32  *)
(* and the i32 of row numbers, quantized blocks and empty tensors are left *)
(* out, and so are the contexts tensors are allocated in.                  *)
(***************************************************************************)
EXTENDS Integers, Sequences

Dims == 1 .. 4
Product(ne) == ne[1] * ne[2] * ne[3] * ne[4]

(* The strides new_tensor_impl() computes.                                 *)
Packed(ne) == <<1, ne[1], ne[1] * ne[2], ne[1] * ne[2] * ne[3]>>

AllOk(src) == \A k \in DOMAIN src : src[k].ok

(* ggml_new_tensor() with an operation: the tensor has memory of its own.  *)
NewTensor(op, src, arg, ne, guard) ==
    [op |-> op, src |-> src, arg |-> arg, type |-> "f32", ne |-> ne,
     nb |-> Packed(ne), offs |-> 0, room |-> Product(ne), view |-> FALSE,
     ok |-> guard /\ AllOk(src)]

(* ggml_new_tensor_impl() with a view_src: the tensor lies in the memory   *)
(* of the tensor that `of' is itself a view of, and its packed size has to *)
(* fit behind the offset; a caller then writes other strides.              *)
NewView(op, src, arg, of, ne, nb, offset, guard) ==
    [op |-> op, src |-> src, arg |-> arg, type |-> of.type, ne |-> ne,
     nb |-> nb, offs |-> of.offs + offset, room |-> of.room, view |-> TRUE,
     ok |-> /\ guard /\ AllOk(src)
            /\ Product(ne) + of.offs + offset <= of.room]

(* inplace ? ggml_view_tensor(a) : ggml_dup_tensor(a)                      *)
Like(op, src, arg, inplace, guard) ==
    IF inplace
    THEN NewView(op, src, arg, src[1], src[1].ne, src[1].nb, 0, guard)
    ELSE NewTensor(op, src, arg, src[1].ne, guard)
-----------------------------------------------------------------------------
nelements(a) == Product(a.ne)
is_scalar(a) == a.ne = <<1, 1, 1, 1>>
is_vector(a) == a.ne[2] = 1 /\ a.ne[3] = 1 /\ a.ne[4] = 1
is_matrix(a) == a.ne[3] = 1 /\ a.ne[4] = 1
is_transposed(a) == a.nb[1] > a.nb[2]

(* is_contiguous_n(), for 0 and 1 as n: every dimension above n that has   *)
(* more than one element starts where the dimensions below it end.         *)
is_contiguous_n(a, n) ==
    LET end2 == a.ne[2] * (IF n = 1 THEN a.nb[2] ELSE a.ne[1])
    IN  /\ a.ne[1] = 1 \/ a.nb[1] = 1
        /\ n = 1 \/ a.ne[2] = 1 \/ a.nb[2] = a.ne[1]
        /\ a.ne[3] = 1 \/ a.nb[3] = end2
        /\ a.ne[4] = 1 \/ a.nb[4] = end2 * a.ne[3]

is_contiguous(a) == is_contiguous_n(a, 0)
is_contiguous_1(a) == is_contiguous_n(a, 1)
is_contiguous_rows(a) == a.ne[1] = 1 \/ a.nb[1] = 1
is_padded_1d(a) == /\ a.nb[1] = 1
                   /\ a.nb[3] = a.nb[2] * a.ne[2]
                   /\ a.nb[4] = a.nb[3] * a.ne[3]

are_same_shape(a, b) == a.ne = b.ne
can_repeat(a, b) == \A i \in Dims : b.ne[i] % a.ne[i] = 0
-----------------------------------------------------------------------------
(* Operations element by element.                                          *)
Plain == {"dup", "sqr", "sqrt", "log", "sin", "cos", "rms_norm", "norm"}
Unary == {"abs", "sgn", "neg", "step", "relu", "silu", "exp", "expm1",
          "softplus", "sigmoid", "gelu"}

plain(op, a) == Like(op, <<a>>, <<>>, FALSE, TRUE)
unary(op, a) == Like(op, <<a>>, <<>>, FALSE, is_contiguous_rows(a))

(* s = <<numerator, denominator>> times the element, plus b.               *)
scale_impl(a, s, b) == Like("scale", <<a>>, s \o <<b>>, FALSE, is_padded_1d(a))
scale(a, s) == scale_impl(a, s, 0)
DiagMask == {"diag_mask_inf", "diag_mask_zero"}
diag_mask(op, a, n_past) == Like(op, <<a>>, <<n_past>>, FALSE, TRUE)

(* add, sub, mul and div repeat b to the shape of a.                       *)
Elementwise == {"add", "sub", "mul", "div"}
elementwise(op, a, b, inplace) == Like(op, <<a, b>>, <<>>, inplace, can_repeat(b, a))
add_impl(a, b, inplace) == elementwise("add", a, b, inplace)
sub_impl(a, b, inplace) == elementwise("sub", a, b, inplace)
mul(a, b) == elementwise("mul", a, b, FALSE)
div(a, b) == elementwise("div", a, b, FALSE)

add1_impl(a, b, inplace) ==
    Like("add1", <<a, b>>, <<>>, inplace, is_scalar(b) /\ is_padded_1d(a))

(* at = <<nb1, nb2, nb3, offset>>: where b lies in a.                      *)
acc_impl(a, b, at, inplace) ==
    Like("acc", <<a, b>>, at, inplace, nelements(b) <= nelements(a) /\ is_contiguous(a))
set(a, b, at) == Like("set", <<a, b>>, at, FALSE, nelements(a) >= nelements(b))

(* Only the form of GLU that has its two halves in two tensors.            *)
Glu == {"swiglu", "geglu"}
glu(op, a, b) ==
    Like(op, <<a, b>>, <<>>, FALSE,
         is_contiguous_1(a) /\ is_contiguous_1(b) /\ are_same_shape(a, b))

(* Without the slopes of ALiBi: max_bias is 0.                             *)
soft_max(a) == Like("soft_max", <<a>>, <<1, 1>>, FALSE, is_contiguous(a))
soft_max_ext(a, mask, s) ==
    Like("soft_max", <<a, mask>>, s, FALSE,
         /\ is_contiguous(a) /\ is_contiguous(mask)
         /\ mask.ne[1] = a.ne[1] /\ mask.ne[2] >= a.ne[2]
         /\ a.ne[3] % mask.ne[3] = 0 /\ a.ne[4] % mask.ne[4] = 0)

(* Kernels that only the backward pass uses.                               *)
silu_back(a, b) == Like("silu_back", <<a, b>>, <<>>, FALSE, TRUE)
rms_norm_back(a, b) == Like("rms_norm_back", <<a, b>>, <<>>, FALSE, TRUE)
soft_max_ext_back(a, b, s) == Like("soft_max_back", <<a, b>>, s, FALSE, TRUE)
-----------------------------------------------------------------------------
(* Operations that change the shape.                                       *)
sum(a) == NewTensor("sum", <<a>>, <<>>, <<1, 1, 1, 1>>, TRUE)
sum_rows(a) == NewTensor("sum_rows", <<a>>, <<>>, [a.ne EXCEPT ![1] = 1], TRUE)
mean(a) == NewTensor("mean", <<a>>, <<>>, [a.ne EXCEPT ![1] = 1], TRUE)
repeat(a, b) == NewTensor("repeat", <<a>>, <<>>, b.ne, can_repeat(a, b))
repeat_back(a, b) == NewTensor("repeat_back", <<a>>, <<>>, b.ne, can_repeat(b, a))

BroadcastOver(a, b) == b.ne[3] % a.ne[3] = 0 /\ b.ne[4] % a.ne[4] = 0

mul_mat(a, b) ==
    NewTensor("mul_mat", <<a, b>>, <<>>, <<a.ne[2], b.ne[2], b.ne[3], b.ne[4]>>,
              a.ne[1] = b.ne[1] /\ BroadcastOver(a, b) /\ ~is_transposed(a))
out_prod(a, b) ==
    NewTensor("out_prod", <<a, b>>, <<>>, <<a.ne[1], b.ne[1], b.ne[3], b.ne[4]>>,
              a.ne[2] = b.ne[2] /\ BroadcastOver(a, b) /\ ~is_transposed(a))

get_rows(a, b) ==
    NewTensor("get_rows", <<a, b>>, <<>>, <<a.ne[1], b.ne[1], b.ne[2], b.ne[3]>>,
              /\ a.ne[3] = b.ne[2] /\ a.ne[4] = b.ne[3] /\ b.ne[4] = 1
              /\ b.type = "i32")
get_rows_back(a, b, c) ==
    NewTensor("get_rows_back", <<a, b>>, <<>>, <<c.ne[1], c.ne[2], 1, 1>>,
              /\ is_matrix(a) /\ is_vector(b) /\ b.type = "i32"
              /\ is_matrix(c) /\ a.ne[1] = c.ne[1])

cross_entropy_loss(a, b) ==
    NewTensor("cross_entropy_loss", <<a, b>>, <<>>, <<1, 1, 1, 1>>, are_same_shape(a, b))
cross_entropy_loss_back(a, b, c) ==
    NewTensor("cross_entropy_loss_back", <<a, b, c>>, <<>>, b.ne,
              is_scalar(a) /\ are_same_shape(b, c))
-----------------------------------------------------------------------------
(* Operations on where the elements lie.                                   *)
cont(a) == Like("cont", <<a>>, <<>>, FALSE, TRUE)
cpy(a, b) == NewView("cpy", <<a, b>>, <<>>, b, b.ne, b.nb, 0, nelements(a) = nelements(b))

reshape(a, ne) ==
    NewView("reshape", <<a>>, <<>>, a, ne, Packed(ne), 0,
            is_contiguous(a) /\ nelements(a) = Product(ne))

(* at = <<nb1, nb2, nb3, offset>>: the rows of a view are without gaps.    *)
view_4d(a, ne, at) ==
    NewView("view", <<a>>, at, a, ne, <<1, at[1], at[2], at[3]>>, at[4], TRUE)

(* Dimension i of a becomes dimension axis[i].                             *)
permute(a, axis) ==
    LET from == [j \in Dims |-> CHOOSE i \in Dims : axis[i] = j]
    IN  NewView("permute", <<a>>, axis, a, [j \in Dims |-> a.ne[from[j]]],
                [j \in Dims |-> a.nb[from[j]]], 0, TRUE)

transpose(a) ==
    NewView("transpose", <<a>>, <<>>, a, <<a.ne[2], a.ne[1], a.ne[3], a.ne[4]>>,
            <<a.nb[2], a.nb[1], a.nb[3], a.nb[4]>>, 0, TRUE)
=============================================================================
