--------------------------- MODULE MCGgmlBackward ---------------------------
(* Small instances of GgmlBackward.                                        *)
EXTENDS GgmlValues

AllOps == Plain \cup Unary \cup Elementwise \cup Glu \cup DiagMask
    \cup {"scale", "soft_max", "add1", "sum", "sum_rows", "mean",
          "cross_entropy_loss", "repeat", "repeat_back", "mul_mat", "get_rows",
          "acc", "set", "cont", "transpose", "permute", "reshape", "view", "cpy"}
Moving == {"mul", "mean", "sum", "acc", "transpose", "permute", "reshape", "view"}

Program(leaves, ops, max_ops, max_losses) ==
    [leaves |-> leaves, ops |-> ops, max_ops |-> max_ops, max_losses |-> max_losses]
Of(kind, ne0, ne1, ne2) == <<kind, <<ne0, ne1, ne2, 1>>>>

MCPrograms == {
    Program(<<Of("param", 2, 2, 1), Of("param", 2, 1, 1)>>, AllOps, 2, 1),
    Program(<<Of("param", 2, 2, 1), Of("input", 1, 1, 1)>>, AllOps, 2, 1),
    Program(<<Of("param", 2, 2, 1), Of("index", 3, 1, 1), Of("target", 4, 1, 1)>>,
            AllOps, 2, 1),
    Program(<<Of("param", 2, 1, 2), Of("param", 2, 2, 2), Of("index", 1, 2, 1)>>,
            AllOps, 2, 1),
    Program(<<Of("param", 2, 1, 2), Of("param", 2, 1, 4)>>, AllOps, 2, 1),
    Program(<<<<"param", <<1, 2, 1, 2>>>>, <<"param", <<1, 1, 2, 2>>>>>>,
            {"mul_mat", "sum", "mul"}, 2, 1),
    Program(<<Of("param", 2, 2, 1), Of("input", 2, 1, 1)>>, Moving, 3, 1),
    Program(<<Of("param", 2, 2, 2)>>, {"permute", "transpose", "mul", "sum"}, 3, 1),
    Program(<<Of("param", 2, 2, 1), Of("input", 2, 2, 1), Of("param", 2, 1, 1)>>,
            {"acc", "set", "transpose", "cross_entropy_loss"}, 3, 1),
    Program(<<Of("param", 2, 1, 1)>>, {"sum", "mul", "sub", "add1", "view"}, 3, 2) }
=============================================================================
