---------------------------- MODULE MCGpuKernels ----------------------------
(***************************************************************************)
(* Small launches of the kernels of src/kernel/.                           *)
(***************************************************************************)
EXTENDS GpuReference

\* length: array -> number of elements; out: the arrays that are to be filled
L(kernel, grid, block, length, out, args) ==
  args @@ [kernel |-> kernel, grid |-> grid, block |-> block, length |-> length,
           out |-> out, num_experts |-> 0]

\* size threads in blocks of two, one element of every array for each
Flat1(kernel, size, in, out, args) ==
  L(kernel, <<CeilDiv(size, 2), 1, 1>>, <<2, 1>>, [a \in in \cup out |-> size], out,
    args @@ [size |-> size])
Unaries == <<"silu", "relu", "gelu", "cast", "bf16_convert", "fp16_convert", "fp8_quant", "fp8_dequant">>
UnaryStreams == [n \in DOMAIN Unaries |-> <<Flat1(Unaries[n], 3, {"input"}, {"output"}, Nothing)>>]

\* a batch of sequences of vectors, one thread per element
Batch(kernel, batch, seq, dim, in, out, args) ==
  Flat1(kernel, batch * seq * dim, in, out, args @@ [batch |-> batch, seq |-> seq, dim |-> dim])

\* Weights of the given length, for an intermediate layer as wide as the vectors.
Gates(kernel, seq, dim, weights) ==
  Batch(kernel, 1, seq, dim, {"input", "w1", "w2", "w3"}, {"output"},
    [intermediate |-> dim,
     length |-> [a \in {"input", "output"} |-> seq * dim] @@ [a \in {"w1", "w2", "w3"} |-> weights]])
\* pages of two positions, num_pages of them for each sequence, a table of three
Pages(batch, seq, num_pages, logical) ==
  Batch("page_lookup", batch, seq, 1, {}, {"physical_pages"},
    [num_pages |-> num_pages, block_size |-> 2, logical |-> logical,
     length |-> [page_indices |-> batch * num_pages, page_table |-> 3, physical_pages |-> batch * seq]])
PointwiseStreams == <<
  <<Flat1("vec_add", 3, {"a", "b"}, {"c"}, Nothing)>>,
  <<Flat1("elementwise_ops", 3, {"a", "b"}, {"c"}, [binary |-> TRUE])>>,
  <<Flat1("elementwise_ops", 2, {"a"}, {"c"}, [binary |-> FALSE])>>,
  <<Flat1("fp16_to_fp32_vectorized", 2, {"input"}, {"output"}, [length |-> [input |-> 4, output |-> 4]])>>,
  <<Flat1("fp16_to_fp32_vectorized", 4, {"input"}, {"output"}, Nothing)>>,
  <<Flat1("grad_checkpoint", 3, {"input", "grad_checkpoint"}, {"checkpoint", "grad_input"}, Nothing)>>,
  <<Flat1("dropout", 3, {"input"}, {"output", "mask"}, [kept |-> {0, 2}])>>,
  <<Flat1("dropout_residual", 3, {"input", "residual"}, {"output", "mask"}, [kept |-> {1}])>>,
  <<Flat1("sgd_step", 3, {"grad", "velocity"}, {"param"}, [momentum |-> TRUE])>>,
  <<Flat1("sgd_step", 2, {"grad", "velocity"}, {"param"}, [momentum |-> FALSE])>>,
  <<Flat1("grad_accum_adamw", 3, {"grad", "m", "v"}, {"param", "accum_grad"}, Nothing),
    Flat1("grad_accum_adamw", 3, {"grad", "m", "v"}, {"param", "accum_grad"}, Nothing)>>,
  <<Flat1("grad_clip", 3, {}, {"grad"}, Nothing)>>,
  <<L("outer_product", <<1, 2, 1>>, <<2, 1>>, [a |-> 2, b |-> 2, c |-> 4], {"c"}, [size |-> 2])>>,
  <<Batch("positional_embedding", 1, 2, 2, {"input"}, {"output"}, Nothing)>>,
  <<Batch("rope", 1, 2, 2, {"input"}, {"output"}, Nothing)>>,
  <<Batch("rope", 1, 1, 3, {"input"}, {"output"}, Nothing)>>,
  <<Batch("rope_fused", 1, 2, 2, {"q", "k"}, {}, Nothing)>>,
  <<Batch("rope_fused", 1, 1, 3, {"q", "k"}, {}, Nothing)>>,
  <<Flat1("batch_norm_forward", 4, {"input", "mean", "var", "weight", "bias"}, {"output"},
          [batch |-> 1, channels |-> 2, spatial |-> 2])>>,
  <<Batch("continuous_batching", 2, 2, 1, {"input"}, {"output"},
          [lengths |-> (0 :> 2 @@ 1 :> 2), batch_indices |-> (0 :> 1 @@ 1 :> 0)])>>,
  <<Batch("continuous_batching", 2, 2, 1, {"input"}, {},
          [lengths |-> (0 :> 1 @@ 1 :> 2), batch_indices |-> (0 :> 0 @@ 1 :> 0)])>>,
  <<Batch("prefix_lm", 1, 3, 1, {"input"}, {}, [lengths |-> (0 :> 2)])>>,
  <<Batch("glm_prefix", 1, 3, 1, {"input"}, {"output"}, [lengths |-> (0 :> 2)])>>,
  <<Batch("glm_prefix", 2, 2, 1, {"input"}, {"output"}, [lengths |-> (0 :> 1 @@ 1 :> 1)])>>,
  <<Batch("glm_prefix", 1, 2, 1, {"input"}, {"output"}, [lengths |-> (0 :> 0)])>>,
  <<Batch("kv_cache_copy", 1, 2, 2, {"src_k", "src_v"}, {"dst_k", "dst_v"}, [dst_offset |-> 0, src_offset |-> 0])>>,
  <<Batch("kv_cache_copy", 1, 2, 2, {"src_k", "src_v", "dst_k", "dst_v"}, {}, [dst_offset |-> 1, src_offset |-> 0, out |-> {}])>>,
  <<Batch("kv_cache_copy", 2, 2, 1, {"src_k", "src_v"}, {"dst_k", "dst_v"}, [dst_offset |-> 0, src_offset |-> 1])>>,
  <<Batch("kv_cache_copy", 2, 2, 1, {"src_k", "src_v", "dst_k", "dst_v"}, {}, [dst_offset |-> 1, src_offset |-> 0, out |-> {}])>>,
  <<Pages(1, 4, 2, 0 :> 2 @@ 1 :> 0)>>, <<Pages(2, 3, 1, 0 :> 1 @@ 1 :> 1)>>, <<Pages(1, 4, 2, 0 :> 1 @@ 1 :> 3)>>,
  <<Batch("softmax", 2, 2, 1, {"input"}, {"output"}, Nothing)>>,
  <<Batch("rms_norm", 1, 2, 2, {"input", "weight"}, {"output"}, Nothing)>>,
  <<Batch("layer_norm", 1, 2, 2, {"input", "weight", "bias"}, {"output"}, Nothing)>>,
  <<L("loss_backward", <<2, 1, 1>>, <<2, 1>>, [logits |-> 6, grad_logits |-> 6], {"grad_logits"},
      [vocab |-> 3, targets |-> (0 :> 2 @@ 1 :> 0)])>>,
  <<Batch("rwkv_attn", 1, 2, 2, {"input", "time_first", "time_decay"}, {"output"}, Nothing)>>,
  <<Batch("retnet_retention", 1, 2, 2, {"input", "retention_weights"}, {"output"}, Nothing)>>,
  <<Batch("retnet_retention", 1, 3, 1, {"input", "retention_weights"}, {"output"}, Nothing)>>,
  <<Batch("retnet_retention", 1, 1, 1, {"input", "retention_weights"}, {"output"}, Nothing)>>,
  <<Gates("geglu", 1, 2, 4)>>, <<Gates("reglu", 1, 2, 2)>>, <<Gates("swiglu", 2, 1, 1)>>,
  <<Batch("mlp_residual", 1, 1, 2, {"input", "w1", "w2"}, {"output"},
          [intermediate |-> 2, length |-> [input |-> 2, output |-> 2, w1 |-> 4, w2 |-> 4]])>>,
  <<Batch("mlp_residual", 1, 1, 1, {"input", "w1", "w2"}, {"output"},
          [intermediate |-> 3, length |-> [input |-> 1, output |-> 1, w1 |-> 3, w2 |-> 3]])>>,
  <<Batch("mlp_glu", 1, 2, 1, {"input", "w1", "w2", "w3"}, {"output"}, [intermediate |-> 2])>>,
  <<Batch("attn_mlp", 1, 1, 2, {"input"}, {"output"},
          [intermediate |-> 2, hidden |-> 2, length |-> [a \in {"input", "output"} |-> 2] @@
             [a \in {"q_weight", "k_weight", "v_weight", "o_weight", "w1", "w2"} |-> 4]])>>,
  <<Batch("attn_mlp", 1, 1, 1, {"input"}, {"output"},
          [intermediate |-> 3, hidden |-> 1, length |-> [a \in {"w1", "w2"} |-> 3] @@
             [a \in {"input", "output", "q_weight", "k_weight", "v_weight", "o_weight"} |-> 1]])>>,
  <<Batch("mlp_glu", 1, 1, 1, {"input"}, {"output"},
          [intermediate |-> 3, length |-> [a \in {"input", "output"} |-> 1] @@ [a \in {"w1", "w2", "w3"} |-> 3]])>>,
  <<Batch("qkv_rope", 1, 1, 4, {"input", "q_weight", "k_weight", "v_weight"}, {"q", "k", "v"},
          [hidden |-> 4, heads |-> 1, length |-> [a \in {"input", "q", "k", "v"} |-> 4] @@
             [a \in {"q_weight", "k_weight", "v_weight"} |-> 16]])>>
  >>

Sparse == [rows |-> 2, nnz |-> 3, row_ptr |-> (0 :> 0 @@ 1 :> 2 @@ 2 :> 3),
           row_indices |-> (0 :> 0 @@ 1 :> 0 @@ 2 :> 1), col_indices |-> (0 :> 0 @@ 1 :> 1 @@ 2 :> 0)]
SparseLength == [values |-> 3, dense |-> 2, output |-> 2]
Image1(kernel, blocks, arrays, args) ==
  L(kernel, blocks, <<2, 1>>, arrays, {"output"}, args)
ProductStreams == <<
  <<L("matmul_naive", <<1, 2, 1>>, <<2, 1>>, [A |-> 4, B |-> 4, C |-> 4], {"C"}, [M |-> 2, N |-> 2, K |-> 2])>>,
  <<Flat1("gemv", 2, {"A", "x"}, {"y"}, [M |-> 2, N |-> 2, length |-> [A |-> 4, x |-> 2, y |-> 2]])>>,
  <<L("csr_matmul", <<1, 1, 1>>, <<3, 1>>, SparseLength, {"output"}, Sparse)>>,
  <<L("csr_matmul", <<1, 1, 1>>, <<2, 1>>, SparseLength, {"output"},
      [col_indices |-> (0 :> 0 @@ 1 :> 2 @@ 2 :> 0)] @@ Sparse)>>,
  <<L("coo_matmul", <<2, 1, 1>>, <<2, 1>>, SparseLength, {"output"}, Sparse)>>,
  <<Image1("conv1d", <<2, 1, 1>>, [input |-> 3, kernel |-> 3, output |-> 3],
      [width |-> 3, in_channels |-> 1, out_channels |-> 1, kernel_size |-> 3, stride |-> 1, padding |-> 1])>>,
  <<Image1("conv1d", <<1, 2, 1>>, [input |-> 4, kernel |-> 8, output |-> 4],
      [width |-> 2, in_channels |-> 2, out_channels |-> 2, kernel_size |-> 2, stride |-> 2, padding |-> 0])>>,
  <<Image1("conv2d", <<2, 1, 1>>, [input |-> 4, kernel |-> 9, output |-> 4],
      [width |-> 2, height |-> 2, channels |-> 1, out_channels |-> 1, window |-> 3, stride |-> 1, pad |-> 1])>>,
  <<Image1("maxpool2d", <<2, 2, 1>>, [input |-> 8, output |-> 8],
      [width |-> 2, height |-> 2, channels |-> 2, window |-> 2, stride |-> 1, pad |-> 0])>>,
  <<Image1("avgpool2d", <<2, 1, 1>>, [input |-> 4, output |-> 4],
      [width |-> 2, height |-> 2, channels |-> 1, window |-> 2, stride |-> 1, pad |-> 1])>>,
  <<Image1("avgpool2d", <<2, 1, 1>>, [input |-> 4, output |-> 4],
      [width |-> 2, height |-> 2, channels |-> 1, window |-> 1, stride |-> 2, pad |-> 0])>>,
  <<Image1("avgpool2d", <<2, 1, 1>>, [input |-> 4, output |-> 4],
      [width |-> 2, height |-> 2, channels |-> 1, window |-> 1, stride |-> 1, pad |-> 0])>>,
  <<Image1("maxpool2d", <<2, 1, 1>>, [input |-> 2, output |-> 2],
      [width |-> 2, height |-> 1, channels |-> 1, window |-> 1, stride |-> 2, pad |-> 0])>>,
  <<Image1("maxpool2d", <<3, 1, 1>>, [input |-> 3, output |-> 3],
      [width |-> 1, height |-> 3, channels |-> 1, window |-> 3, stride |-> 1, pad |-> 1])>>
  >>

\* two ranks of two elements
Ranks(kernel, args) ==
  L(kernel, <<1, 1, 1>>, <<2, 1>>, [input |-> 4, output |-> 4], {},
    args @@ [ranks |-> 2, size |-> 2, rank |-> 1])
Indexed(kernel, a, b, c, out) == Flat1(kernel, 3, {"input"}, out, [indices |-> (0 :> a @@ 1 :> b @@ 2 :> c)])
\* two tokens of one element, two experts, the experts chosen for each token
Experts(kernel, first, second) ==
  L(kernel, <<1, 1, 1>>, <<2, 1>>,
    [input |-> 2, expert |-> 4, output |-> 2, scores |-> 2 * Cardinality(DOMAIN first),
     expert_weights |-> 4, router_weights |-> 2, q_weight |-> 1, k_weight |-> 1, v_weight |-> 1], {},
    [tokens |-> 2, seq |-> 2, hidden |-> 1, intermediate |-> 1, num_experts |-> 2,
     top_k |-> Cardinality(DOMAIN first), experts |-> (0 :> first @@ 1 :> second)])
Routing(dispatch, combine, first, second) ==
  <<Experts(dispatch, first, second), Experts(combine, first, second)>>
OneToken(kernel, expert) ==
  [Experts(kernel, <<expert>>, <<expert>>) EXCEPT !.tokens = 1, !.block = <<1, 1>>, !.length["expert"] = 2]
Router(experts, top_k) ==
  L("moe_router", <<1, 1, 1>>, <<2, 1>>,
    [input |-> 2, router_weights |-> experts, expert_indices |-> 2 * top_k, expert_weights |-> 2 * top_k],
    {"expert_indices", "expert_weights"},
    [tokens |-> 2, hidden |-> 1, num_experts |-> experts, top_k |-> top_k])
ExchangeStreams == <<
  <<Indexed("gather", 2, 0, 0, {"output"})>>,
  <<Indexed("scatter", 2, 0, 1, {"output"})>>,
  <<Indexed("scatter", 1, 0, 1, {"output"})>>,
  <<Ranks("tensor_parallel_allgather", Nothing)>>,
  <<Ranks("context_parallel_allgather", Nothing)>>, <<Ranks("context_parallel_allgather", [ranks |-> 1])>>,
  <<Ranks("tensor_parallel_allreduce", Nothing)>>,
  <<Ranks("data_parallel_grad_sync", [rank |-> 0])>>,
  <<Ranks("context_parallel_allreduce", Nothing)>>,
  <<Ranks("ring_allreduce", Nothing)>>,
  <<Ranks("pipeline_sendrecv", [send_stage |-> 0, recv_stage |-> 1])>>,
  <<Ranks("ulysses_alltoall", [counts |-> (0 :> 1 @@ 1 :> 1), send_offsets |-> (0 :> 0 @@ 1 :> 1),
                               recv_offsets |-> (0 :> 1 @@ 1 :> 0)])>>,
  Routing("moe_alltoall_dispatch", "moe_alltoall_combine", <<0>>, <<1>>),
  Routing("moe_alltoall_dispatch", "moe_alltoall_combine", <<0>>, <<0>>),
  <<OneToken("moe_alltoall_dispatch", 1), OneToken("moe_alltoall_combine", 1)>>,
  <<OneToken("expert_parallel_dispatch", 1), OneToken("expert_parallel_combine", 1)>>,
  <<OneToken("expert_parallel_dispatch", 0), OneToken("expert_parallel_combine", 0)>>,
  Routing("moe_alltoall_dispatch", "moe_alltoall_combine", <<0, 1>>, <<1, 0>>),
  Routing("expert_parallel_dispatch", "expert_parallel_combine", <<0>>, <<1>>),
  <<Router(2, 1)>>, <<Router(2, 3)>>, <<Router(3, 2)>>,
  <<Indexed("gather", 2, 3, 0, {"output"})>>, <<[Indexed("scatter", 0, 3, 1, {"output"}) EXCEPT !.out = {}]>>,
  <<Experts("moe_expert_forward", <<0>>, <<1>>)>>,
  <<[Experts("moe_expert_forward", <<0>>, <<1>>) EXCEPT !.intermediate = 3, !.length["expert_weights"] = 12]>>,
  <<Experts("fused_moe_attn", <<0, 1>>, <<1, 0>>)>>,
  <<[Experts("fused_moe_attn", <<0>>, <<1>>) EXCEPT !.seq = 1]>>
  >>

\* a row of blocks of two threads per row
Matrix(kernel, rows, cols, arrays, args) ==
  L(kernel, <<rows, CeilDiv(cols, 2), 1>>, <<2, 1>>, arrays, {},
    args @@ [rows |-> rows, cols |-> cols, size |-> rows * cols])
Gptq(rows, cols, groups) ==
  LET length == [input |-> rows * cols, output |-> rows * cols, decoded |-> rows * cols,
                 scale |-> rows * CeilDiv(cols, groups), zero_point |-> rows * CeilDiv(cols, groups)]
  IN <<Matrix("quant_gptq", rows, cols, length, [group_size |-> groups]),
       Matrix("dequant_gptq", rows, cols, length, [group_size |-> groups])>>
Codes(rows, cols) == [input |-> rows * cols, output |-> 2 * CeilDiv(rows * cols, 2)]
PerTensor(blocks, size, threads) ==
  LET l(kernel) == L(kernel, <<blocks, 1, 1>>, <<threads, 1>>,
                     [input |-> size, output |-> size, decoded |-> size, scale |-> blocks], {},
                     [rows |-> 1, cols |-> size, size |-> size])
  IN <<l("quantize_int8_per_tensor"), l("dequantize_int8_per_tensor")>>
QuantStreams == <<
  <<Matrix("quantize_int8", 1, 2, [input |-> 2, output |-> 2, scale |-> 1], Nothing),
    Matrix("dequantize_int8", 1, 2, [output |-> 2, decoded |-> 2], Nothing)>>,
  PerTensor(1, 2, 2), PerTensor(2, 4, 2), <<Head(PerTensor(1, 3, 3))>>,
  Gptq(2, 2, 2), Gptq(2, 2, 1), Gptq(1, 3, 2), Gptq(2, 3, 2),
  <<Matrix("awq_quant", 2, 2, [input |-> 4, output |-> 4, scale |-> 2], [group_size |-> 2])>>,
  <<Matrix("awq_quant", 2, 3, [input |-> 6, output |-> 6, scale |-> 4], [group_size |-> 2])>>,
  <<L("smoothquant", <<2, 1, 1>>, <<2, 1>>, [input |-> 4, output |-> 4, scale |-> 2], {}, [rows |-> 2, cols |-> 2])>>,
  <<Matrix("ggml_q8_0", 2, 2, [input |-> 4, output |-> 4], [out |-> {"output"}])>>,
  <<Matrix("quantize_int4", 1, 1, [input |-> 1, output |-> 2, scale |-> 1], Nothing)>>,
  <<Matrix("quantize_int4", 1, 3, [input |-> 3, output |-> 4, scale |-> 1], [grid |-> <<2, 1, 1>>])>>,
  <<Matrix("ggml_q4_0", 1, 1, Codes(1, 1), Nothing)>>,
  <<Matrix("ggml_q4_0", 1, 2, Codes(1, 2), Nothing)>>,
  <<Matrix("ggml_q4_0", 1, 3, Codes(1, 3), Nothing)>>,
  <<Matrix("ggml_q4_1", 1, 1, [input |-> 1, output |-> 4], Nothing)>>,
  <<Matrix("ggml_q4_1", 1, 2, [input |-> 2, output |-> 4], Nothing)>>,
  <<Matrix("ggml_q5_0", 1, 1, [input |-> 1, output |-> 8], Nothing)>>,
  <<Matrix("ggml_q5_0", 1, 2, [input |-> 2, output |-> 16], Nothing)>>
  >>

\* size elements in blocks of the given number of threads
Blocks(kernel, size, threads, out) ==
  L(kernel, <<CeilDiv(size, threads), 1, 1>>, <<threads, 1>>,
    [input |-> size, grad |-> size] @@ [a \in {out} |-> IF out = "output" /\ kernel \in {"scan", "scan_warps"}
                                                   THEN size ELSE CeilDiv(size, threads)],
    {out}, [size |-> size])
\* one block for each of the rows of dim elements
Rows(kernel, rows, dim, threads) ==
  L(kernel, <<rows, 1, 1>>, <<threads, 1>>,
    [a \in {"input", "input1", "input2", "output"} |-> rows * dim] @@ [weight |-> dim, bias |-> dim],
    {"output"}, [batch |-> 1, seq |-> rows, dim |-> dim])
SoftmaxRows(rows, n, threads) ==
  [Rows("softmax_shared", rows, n, threads) EXCEPT !.batch = rows, !.seq = n]
LossRows(kernel, threads, first, second) ==
  L(kernel, <<2, 1, 1>>, <<threads, 1>>, [logits |-> 4, loss |-> 2], {"loss"},
    [vocab |-> 2, targets |-> (0 :> first @@ 1 :> second)])
Aux(threads) ==
  L("moe_aux_loss", <<2, 1, 1>>, <<threads, 1>>, [scores |-> 6, aux_loss |-> 2], {"aux_loss"},
    [tokens |-> 3, top_k |-> 2, num_experts |-> 2,
     experts |-> (0 :> <<0, 1>> @@ 1 :> <<1, 0>> @@ 2 :> <<1, 1>>)])
ReduceStreams == <<
  <<Blocks("reduce_sum", 3, 2, "output")>>, <<Blocks("reduce_sum", 4, 4, "output")>>,
  <<Blocks("reduce_sum", 3, 3, "output")>>, <<Blocks("reduce_sum", 5, 5, "output")>>,
  <<Blocks("reduce_max_min", 4, 2, "output")>>, <<Blocks("grad_norm", 4, 4, "norm")>>,
  <<Blocks("grad_norm", 3, 3, "norm")>>,
  <<Blocks("reduce_sum_warps", 4, 4, "output")>>, <<Blocks("reduce_sum_warps", 3, 3, "output")>>,
  <<Aux(2)>>, <<Aux(3)>>,
  <<LossRows("cross_entropy", 1, 1, 0)>>, <<LossRows("cross_entropy", 2, 1, 0)>>,
  <<LossRows("cross_entropy_fp16", 1, 0, 1)>>, <<LossRows("cross_entropy", 1, 2, 0)>>,
  <<LossRows("cross_entropy", 1, 0, 2)>>, <<LossRows("cross_entropy_fp16", 1, -100, 0)>>,
  <<Blocks("scan", 4, 4, "output")>>, <<Blocks("scan", 3, 3, "output")>>, <<Blocks("scan", 3, 2, "output")>>,
  <<Blocks("scan_warps", 1, 1, "output")>>, <<Blocks("scan_warps", 2, 2, "output")>>,
  <<Blocks("scan_warps", 3, 3, "output")>>, <<Blocks("scan_warps", 4, 4, "output")>>,
  <<SoftmaxRows(2, 1, 1)>>, <<SoftmaxRows(2, 1, 2)>>, <<SoftmaxRows(1, 2, 2)>>, <<SoftmaxRows(1, 2, 1)>>,
  <<Rows("rms_norm_fused", 2, 3, 2)>>, <<Rows("rms_norm_fused", 1, 3, 3)>>, <<Rows("rms_norm_fp16", 1, 2, 4)>>,
  <<Rows("rms_norm_shared", 1, 1, 1)>>, <<Rows("rms_norm_shared", 1, 2, 2)>>, <<Rows("rms_norm_shared", 1, 3, 4)>>,
  <<Rows("layer_norm_forward", 2, 2, 1)>>, <<Rows("layer_norm_forward", 1, 2, 2)>>,
  <<Rows("add_layernorm", 1, 2, 1)>>, <<Rows("add_layernorm", 1, 3, 2)>>,
  <<Rows("layer_norm_fused", 1, 2, 1)>>, <<Rows("layer_norm_fused", 1, 2, 2)>>
  >>

\* M by N threads in tiles
Product(kernel, M, N, K) ==
  L(kernel, TileGrid(M, N), <<Tile, Tile>>,
    [A |-> M * K, B |-> K * N, C |-> M * N], {"C"}, [M |-> M, N |-> N, K |-> K])
GemvShared(M, N, threads) ==
  L("gemv_shared", <<CeilDiv(M, threads), 1, 1>>, <<threads, 1>>,
    [A |-> M * N, x |-> N, y |-> M], {"y"}, [M |-> M, N |-> N])
BlockCsr(rows, row_ptr, threads) ==
  L("block_csr_matmul", <<CeilDiv(rows, Tile), 1, 1>>, <<threads, Tile>>,
    [values |-> row_ptr[rows], dense |-> 2, output |-> rows], {"output"},
    [rows |-> rows, M |-> rows, row_ptr |-> row_ptr, col_indices |-> (0 :> 1 @@ 1 :> 0 @@ 2 :> 1 @@ 3 :> 0)])
MatmulStreams == <<
  <<Product("matmul_shared", 2, 2, 3)>>, <<Product("matmul_shared", 1, 2, 2)>>,
  <<[Product("batched_matmul", 1, 2, 2) EXCEPT !.grid = <<1, 1, 2>>, !.length = [A |-> 4, B |-> 8, C |-> 4]]>>,
  <<[stride_a |-> 0, stride_b |-> 2, stride_c |-> 2] @@
    [Product("strided_batched_matmul", 2, 1, 2) EXCEPT !.grid = <<1, 1, 2>>, !.length = [A |-> 4, B |-> 4, C |-> 4]]>>,
  <<Product("matmul_fp16", 2, 2, 2)>>, <<Product("matmul_fp16", 2, 2, 3)>>, <<Product("matmul_fp16", 2, 1, 1)>>,
  <<Product("matmul_bf16", 2, 2, 3)>>, <<Product("matmul_int8", 1, 1, 4)>>, <<Product("matmul_int8", 1, 1, 3)>>,
  <<Product("matmul_int4", 2, 2, 2)>>, <<Product("matmul_int4", 2, 1, 4)>>,
  <<GemvShared(2, 3, 2)>>, <<GemvShared(3, 1, 2)>>, <<GemvShared(3, 2, 2)>>, <<GemvShared(1, 2, 2)>>,
  <<BlockCsr(2, (0 :> 0 @@ 1 :> 1 @@ 2 :> 2), 2)>>, <<BlockCsr(2, (0 :> 0 @@ 1 :> 2 @@ 2 :> 4), 1)>>,
  <<BlockCsr(2, (0 :> 0 @@ 1 :> 2 @@ 2 :> 4), 2)>>, <<BlockCsr(2, (0 :> 0 @@ 1 :> 2 @@ 2 :> 3), 1)>>,
  <<BlockCsr(1, (0 :> 0 @@ 1 :> 1), 1)>>
  >>

\* one block for each head of each batch
Attention(kernel, batch, heads, seq, width, kv_heads, args) ==
  LET cells == batch * heads * seq * width
      n == IF seq > width THEN seq ELSE width
  IN args @@ L(kernel, <<1, batch, heads>>, <<IF kv_heads < heads THEN n * (heads \div kv_heads) ELSE n, seq>>,
       [Q |-> cells, O |-> cells, K |-> cells, V |-> cells], {"O"},
       [batch |-> batch, heads |-> heads, kv_heads |-> kv_heads, seq |-> seq, dim |-> heads * width])
\* blocks of rows along the grid, width elements of each along the block
FlashRows(kernel, seq, width, rows, elements) ==
  L(kernel, <<CeilDiv(seq, FlashBlock), 1, 1>>, <<rows, elements>>,
    [a \in {"Q", "K", "V", "O"} |-> seq * width], {"O"},
    [batch |-> 1, heads |-> 1, seq |-> seq, dim |-> width,
     block_size |-> FlashBlock, q_start |-> 0, kv_start |-> 0])
Single(seq, dim) ==
  L("single_head_attention", <<1, 1, 1>>, <<IF seq > dim THEN seq ELSE dim, seq>>,
    [a \in {"Q", "K", "V", "O"} |-> seq * dim], {"O"}, [batch |-> 1, heads |-> 1, seq |-> seq, dim |-> dim])
Fused(kernel, batch, seq, hidden, dim, threads) ==
  LET rows == batch * seq
  IN L(kernel, <<rows, 1, 1>>, <<threads, 1>>,
       [a \in {"input", "output"} |-> rows * hidden] @@
       [a \in {"norm_weight", "norm_weight1", "norm_weight2", "mlp_w1", "mlp_w2"} |-> hidden] @@
       [a \in {"q_weight", "k_weight", "v_weight", "o_weight"} |-> hidden * dim], {"output"},
       [batch |-> batch, seq |-> seq, hidden |-> hidden, dim |-> dim, intermediate |-> 1])
AttentionStreams == <<
  <<Attention("mha", 1, 2, 1, 2, 2, Nothing)>>, <<Attention("mha", 1, 1, 2, 2, 1, Nothing)>>,
  <<Attention("mqa", 1, 2, 1, 2, 1, [block |-> <<2, 1>>, length |-> [Q |-> 4, O |-> 4, K |-> 2, V |-> 2]])>>,
  <<Attention("gqa", 1, 2, 1, 1, 2, Nothing)>>, <<Attention("gqa", 1, 2, 1, 1, 1, Nothing)>>,
  <<Attention("causal_attention", 1, 1, 2, 2, 1, Nothing)>>,
  <<Attention("sliding_window_attention", 1, 1, 3, 1, 1, [window |-> 1, block |-> <<1, 3>>])>>,
  <<Attention("sparse_attention", 1, 1, 2, 1, 1, [block_size |-> 1, mask |-> (0 :> (0 :> 1 @@ 1 :> 1) @@ 1 :> (0 :> 1 @@ 1 :> 1))])>>,
  <<Attention("sparse_attention", 1, 1, 2, 1, 1, [block_size |-> 1, mask |-> (0 :> (0 :> 1 @@ 1 :> 0) @@ 1 :> (0 :> 1 @@ 1 :> 1))])>>,
  <<Attention("sparse_attention", 1, 1, 2, 1, 1, [block_size |-> 2, mask |-> (0 :> (0 :> 0))])>>,
  <<Attention("ulysses_attention", 1, 1, 2, 1, 1, [parallel |-> 1])>>,
  <<Attention("ulysses_attention", 1, 1, 2, 1, 1, [parallel |-> 2])>>,
  <<Attention("fused_rope_attn", 1, 1, 2, 2, 1, Nothing)>>,
  <<Single(1, 1)>>, <<Single(1, 2)>>, <<Single(2, 2)>>, <<Single(2, 1)>>,
  <<FlashRows("flash_attention", 2, 1, 2, 1)>>, <<FlashRows("flash_attention", 2, 2, 2, 2)>>,
  <<FlashRows("flash_attention", 1, 1, 2, 1)>>,
  <<FlashRows("flash_attention_block", 2, 2, 1, 2)>>, <<FlashRows("flash_attention_block", 2, 1, 2, 1)>>,
  <<[FlashRows("flash_attention_block", 1, 1, 1, 1) EXCEPT !.block_size = 1]>>,
  <<FlashRows("flash_attention_online", 2, 1, 2, 1)>>, <<FlashRows("flash_attention_online", 2, 2, 1, 2)>>,
  <<FlashRows("flash_attention_online", 3, 1, 2, 1)>>, <<FlashRows("paged_attention", 2, 2, 2, 2)>>,
  <<FlashRows("flash_attn2_forward", 1, 1, 1, 1)>>, <<FlashRows("flash_attn2_forward", 2, 1, 2, 1)>>,
  <<FlashRows("flash_attn2_forward", 2, 2, 2, 2)>>, <<FlashRows("flash_attn2_forward", 3, 1, 2, 1)>>,
  <<[FlashRows("flash_attn2_forward", 2, 1, 2, 1) EXCEPT !.grid = <<1, 2, 1>>, !.heads = 2, !.dim = 2,
     !.length = [a \in {"Q", "K", "V", "O"} |-> 4]]>>,
  <<[FlashRows("flash_attn2_forward", 1, 1, 1, 1) EXCEPT !.grid = <<2, 1, 1>>, !.batch = 2,
     !.length = [a \in {"Q", "K", "V", "O"} |-> 2]]>>,
  <<FlashRows("flash_attention_online", 2, 3, 1, 3)>>, <<FlashRows("paged_attention", 2, 3, 1, 3)>>,
  <<FlashRows("flash_attn2_forward", 2, 3, 1, 2)>>,
  <<Fused("fused_rmsnorm_attn", 1, 2, 2, 2, 1)>>, <<Fused("fused_rmsnorm_attn", 1, 1, 2, 2, 2)>>,
  <<Fused("fused_rmsnorm_attn", 1, 1, 1, 2, 1)>>, <<Fused("fused_rmsnorm_attn", 1, 2, 1, 2, 1)>>,
  <<Fused("fused_rmsnorm_attn", 2, 1, 1, 1, 1)>>, <<Fused("fused_rmsnorm_attn", 1, 1, 3, 2, 1)>>,
  <<Fused("fused_transformer_block", 1, 2, 2, 2, 1)>>, <<Fused("fused_transformer_block", 1, 1, 2, 2, 2)>>,
  <<Fused("fused_transformer_block", 1, 1, 2, 1, 1)>>, <<Fused("fused_transformer_block", 1, 1, 3, 1, 1)>>,
  <<Fused("fused_transformer_block", 1, 1, 2, 3, 1)>>,
  <<[Fused("fused_transformer_block", 1, 1, 1, 1, 1) EXCEPT !.intermediate = 3,
     !.length["mlp_w1"] = 3, !.length["mlp_w2"] = 3]>>
  >>

\* the code on the host
Llama(batch, seq, heads, hidden, layers, tokens) ==
  LET cells == batch * seq * hidden
  IN L("llama_forward", <<1, 1, 1>>, <<1, 1>>,
       [output |-> batch * seq * 2, x |-> cells, residual |-> cells, norm_out |-> cells,
        embed_table |-> 2 * hidden, attn_norm_weight |-> layers * hidden, mlp_norm_weight |-> layers * hidden,
        mlp_gate_weight |-> layers * hidden, mlp_up_weight |-> layers * hidden,
        mlp_down_weight |-> layers * hidden, final_norm |-> hidden, lm_head |-> 2 * hidden], {"output"},
       [batch |-> batch, seq |-> seq, heads |-> heads, hidden |-> hidden, head_dim |-> hidden \div heads,
        layers |-> layers, vocab |-> 2, intermediate |-> 1, tokens |-> tokens])
HostExperts(tokens, dim, hidden, experts, top_k, weights) ==
  L("moe_forward", <<1, 1, 1>>, <<1, 1>>,
    [input |-> tokens * dim, output |-> tokens * dim, router_weights |-> 2 * hidden,
     w1 |-> weights, w2 |-> weights, scores |-> 2], {"output"},
    [batch |-> tokens, seq |-> 1, dim |-> dim, hidden |-> hidden, intermediate |-> 1,
     experts |-> experts, num_experts |-> 2, top_k |-> top_k])
SetExpert(expert, packed, size) ==
  L("set_expert_weights", <<1, 1, 1>>, <<1, 1>>,
    ("experts.w1" :> 4) @@ ("experts.w2" :> 4) @@
    ("w1" :> IF packed THEN 4 ELSE 2) @@ ("w2" :> 2), {},
    [expert |-> expert, packed |-> packed, size |-> size, hidden |-> 2, intermediate |-> 1,
     num_experts |-> 2])
FlashHost(kernel, batch, heads, seq, width, causal) ==
  LET arrays == IF kernel = "flash_attention_host" THEN {"Q", "K", "V", "O"} ELSE {"dQ", "dK", "dV"}
  IN L(kernel, <<1, 1, 1>>, <<1, 1>>, [a \in arrays |-> batch * heads * seq * width],
       IF kernel = "flash_attention_host" THEN {"O"} ELSE arrays,
       [batch |-> batch, heads |-> heads, seq |-> seq, head_dim |-> width, dim |-> heads * width,
        causal |-> causal])
Loss(targets, smoothing) ==
  LET rows == [i \in 0 .. Len(targets) - 1 |-> targets[i + 1]]
  IN L("cross_entropy_loss", <<1, 1, 1>>, <<1, 1>>,
       [predictions |-> 2 * Len(targets), grad |-> 2 * Len(targets), loss |-> 1, probs |-> 2],
       {"grad", "loss"}, [targets |-> rows, vocab |-> 2, smoothing |-> smoothing])
Reset == [Loss(<<0, 0>>, FALSE) EXCEPT !.kernel = "loss_reset"]
HostStreams == <<
  <<Llama(1, 1, 1, 1, 1, 0 :> 1)>>, <<Llama(1, 2, 1, 2, 2, 0 :> 1 @@ 1 :> 0)>>,
  <<Llama(2, 1, 2, 2, 1, 0 :> 0 @@ 1 :> 1)>>, <<Llama(1, 2, 2, 2, 1, 0 :> 0 @@ 1 :> 1)>>,
  <<Llama(1, 1, 1, 2, 1, 0 :> 0)>>, <<Llama(1, 2, 1, 1, 2, 0 :> 0 @@ 1 :> 1)>>,
  <<Llama(1, 1, 1, 1, 1, 0 :> 2)>>, <<[Llama(1, 1, 2, 1, 1, 0 :> 0) EXCEPT !.head_dim = 1]>>,
  <<HostExperts(2, 2, 2, 0 :> (1 :> 0 @@ 2 :> 1) @@ 1 :> (1 :> 1 @@ 2 :> 0), 2, 4)>>,
  <<HostExperts(2, 1, 2, 0 :> (1 :> 0) @@ 1 :> (1 :> 1), 1, 4)>>,
  <<HostExperts(1, 1, 1, 0 :> (1 :> 1 @@ 2 :> 0), 3, 2)>>,
  <<HostExperts(1, 1, 1, 0 :> (1 :> 1), 1, 0)>>,
  <<HostExperts(1, 2, 1, 0 :> (1 :> 0), 1, 2)>>,
  <<SetExpert(1, TRUE, 4)>>, <<SetExpert(0, FALSE, 4)>>, <<SetExpert(0, FALSE, 2)>>,
  <<SetExpert(2, TRUE, 4)>>,
  <<FlashHost("flash_attention_host", 1, 2, 2, 2, TRUE)>>,
  <<FlashHost("flash_attention_host", 2, 1, 2, 1, FALSE)>>,
  <<FlashHost("flash_attention_backward", 1, 1, 2, 1, TRUE)>>,
  <<FlashHost("flash_attention_backward", 1, 2, 2, 1, TRUE)>>,
  <<Loss(<<0, 1>>, FALSE)>>, <<Loss(<<0, -100>>, FALSE)>>, <<Loss(<<0, 1>>, TRUE)>>,
  <<Loss(<<-100, -100>>, TRUE)>>, <<Loss(<<0, 2>>, FALSE)>>, <<Loss(<<0, -1>>, FALSE)>>,
  <<Loss(<<0, 1>>, FALSE), Loss(<<0, -100>>, FALSE)>>,
  <<Loss(<<0, 1>>, FALSE), Reset, Loss(<<0, -100>>, FALSE)>>,
  <<Loss(<<0, -100>>, FALSE), Loss(<<1, -100>>, FALSE)>>
  >>

AllStreams ==
  UnaryStreams \o PointwiseStreams \o ProductStreams \o ExchangeStreams \o QuantStreams
  \o ReduceStreams \o MatmulStreams \o AttentionStreams \o HostStreams
=============================================================================
