----------------------------- MODULE GpuKernels -----------------------------
(***************************************************************************)
(* The device: a stream of launches of the kernels of src/kernel/, run one *)
(* after the other, each by threads that only the barriers of their block  *)
(* hold together.                                                          *)
(*                                                                         *)
(* A step is one interval of one thread: what it does between two barriers *)
(* of its block.  Whether the instructions of two threads in their current *)
(* intervals could interfere is recorded in raced, so that the steps need  *)
(* not be split any further: without interference every order of the       *)
(* instructions has the effect of some order of the steps.                 *)
(***************************************************************************)
EXTENDS GpuAttention, GpuExchange, GpuMatmul, GpuQuant, HostCode, Sequences

CONSTANT Streams    \* a sequence of sequences of launches

VARIABLES
  stream,     \* the index of the stream that is run
  launch,     \* the index of its launch that is being run
  memory,     \* what has been stored: location -> value
  at,         \* thread -> number of barriers it has passed
  ended,      \* the threads that have returned
  writer,     \* location of the device -> the block whose store is the last
  raced,      \* two threads could have interfered
  strayed     \* a thread has read or stored where an array has no element
vars == <<stream, launch, memory, at, ended, writer, raced, strayed>>

Launch == Streams[stream][launch]

\* ----- which kernel is launched ------------------------------------------

Elementwise(l, i, m) ==
  CASE l.kernel = "silu" -> silu(l, i, m)
    [] l.kernel = "relu" -> relu(l, i, m)
    [] l.kernel = "gelu" -> gelu(l, i, m)
    [] l.kernel = "cast" -> cast(l, i, m)
    [] l.kernel = "bf16_convert" -> bf16_convert(l, i, m)
    [] l.kernel = "fp16_convert" -> fp16_convert(l, i, m)
    [] l.kernel = "fp8_quant" -> fp8_quant(l, i, m)
    [] l.kernel = "fp8_dequant" -> fp8_dequant(l, i, m)
    [] l.kernel = "fp16_to_fp32_vectorized" -> fp16_to_fp32_vectorized(l, i, m)
    [] l.kernel = "vec_add" -> vec_add(l, i, m)
    [] l.kernel = "elementwise_ops" -> elementwise_ops(l, i, m)
    [] l.kernel = "grad_checkpoint" -> grad_checkpoint(l, i, m)
    [] l.kernel = "dropout" -> dropout(l, i, m)
    [] l.kernel = "dropout_residual" -> dropout_residual(l, i, m)
    [] l.kernel = "sgd_step" -> sgd_step(l, i, m)
    [] l.kernel = "grad_accum_adamw" -> grad_accum_adamw(l, i, m)
    [] l.kernel = "grad_clip" -> grad_clip(l, i, m)
    [] l.kernel = "positional_embedding" -> positional_embedding(l, i, m)
    [] l.kernel = "rope" -> rope(l, i, m)
    [] l.kernel = "rope_fused" -> rope_fused(l, i, m)
    [] l.kernel = "batch_norm_forward" -> batch_norm_forward(l, i, m)
    [] l.kernel = "continuous_batching" -> continuous_batching(l, i, m)
    [] l.kernel = "prefix_lm" -> prefix_lm(l, i, m)
    [] l.kernel = "glm_prefix" -> glm_prefix(l, i, m)
    [] l.kernel = "kv_cache_copy" -> kv_cache_copy(l, i, m)
    [] l.kernel = "page_lookup" -> page_lookup(l, i, m)
    [] l.kernel = "softmax" -> softmax(l, i, m)
    [] l.kernel = "rms_norm" -> rms_norm(l, i, m)
    [] l.kernel = "layer_norm" -> layer_norm(l, i, m)
    [] l.kernel = "rwkv_attn" -> rwkv_attn(l, i, m)
    [] l.kernel = "retnet_retention" -> retnet_retention(l, i, m)
    [] l.kernel = "geglu" -> geglu(l, i, m)
    [] l.kernel = "reglu" -> reglu(l, i, m)
    [] l.kernel = "swiglu" -> swiglu(l, i, m)
    [] l.kernel = "qkv_rope" -> qkv_rope(l, i, m)
    [] l.kernel = "gemv" -> gemv(l, i, m)
    [] l.kernel = "csr_matmul" -> csr_matmul(l, i, m)
    [] l.kernel = "coo_matmul" -> coo_matmul(l, i, m)
    [] l.kernel = "gather" -> gather(l, i, m)
    [] l.kernel = "scatter" -> scatter(l, i, m)
    [] l.kernel = "tensor_parallel_allgather" -> tensor_parallel_allgather(l, i, m)
    [] l.kernel = "context_parallel_allgather" -> context_parallel_allgather(l, i, m)
    [] l.kernel = "tensor_parallel_allreduce" -> tensor_parallel_allreduce(l, i, m)
    [] l.kernel = "data_parallel_grad_sync" -> data_parallel_grad_sync(l, i, m)
    [] l.kernel = "context_parallel_allreduce" -> context_parallel_allreduce(l, i, m)
    [] l.kernel = "ring_allreduce" -> ring_allreduce(l, i, m)
    [] l.kernel = "pipeline_sendrecv" -> pipeline_sendrecv(l, i, m)
    [] l.kernel = "ulysses_alltoall" -> ulysses_alltoall(l, i, m)
    [] l.kernel = "moe_alltoall_dispatch" -> moe_alltoall_dispatch(l, i, m)
    [] l.kernel = "expert_parallel_dispatch" -> expert_parallel_dispatch(l, i, m)
    [] l.kernel = "moe_alltoall_combine" -> moe_alltoall_combine(l, i, m)
    [] l.kernel = "expert_parallel_combine" -> expert_parallel_combine(l, i, m)
    [] l.kernel = "quantize_int8" -> quantize_int8(l, i, m)
    [] l.kernel = "dequantize_int8" -> dequantize_int8(l, i, m)
    [] l.kernel = "smoothquant" -> smoothquant(l, i, m)
    [] l.kernel = "quantize_int4" -> quantize_int4(l, i, m)

\* by coordinates of its own
Threadwise(l, t, m) ==
  CASE l.kernel = "outer_product" -> outer_product(l, t, m)
    [] l.kernel = "loss_backward" -> loss_backward(l, t, m)
    [] l.kernel = "mlp_residual" -> mlp_residual(l, t, m)
    [] l.kernel = "mlp_glu" -> mlp_glu(l, t, m)
    [] l.kernel = "attn_mlp" -> attn_mlp(l, t, m)
    [] l.kernel = "matmul_naive" -> matmul_naive(l, t, m)
    [] l.kernel = "conv1d" -> conv1d(l, t, m)
    [] l.kernel = "conv2d" -> conv2d(l, t, m)
    [] l.kernel = "maxpool2d" -> maxpool2d(l, t, m)
    [] l.kernel = "avgpool2d" -> avgpool2d(l, t, m)
    [] l.kernel = "moe_router" -> moe_router(l, t, m)
    [] l.kernel = "moe_expert_forward" -> moe_expert_forward(l, t, m)
    [] l.kernel = "fused_moe_attn" -> fused_moe_attn(l, t, m)
    [] l.kernel = "dequantize_int8_per_tensor" -> dequantize_int8_per_tensor(l, t, m)
    [] l.kernel = "quant_gptq" -> quant_gptq(l, t, m)
    [] l.kernel = "dequant_gptq" -> dequant_gptq(l, t, m)
    [] l.kernel = "awq_quant" -> awq_quant(l, t, m)
    [] l.kernel = "ggml_q8_0" -> ggml_q8_0(l, t, m)
    [] l.kernel = "ggml_q4_0" -> ggml_q4_0(l, t, m)
    [] l.kernel = "ggml_q4_1" -> ggml_q4_1(l, t, m)
    [] l.kernel = "ggml_q5_0" -> ggml_q5_0(l, t, m)
    [] OTHER -> Elementwise(l, Gid(l, t), m)

\* The code on the host is run by one thread, in one step.
HostCalls ==
  {"llama_forward", "moe_forward", "set_expert_weights", "flash_attention_host",
   "flash_attention_backward", "cross_entropy_loss", "loss_reset"}
Call(l, m) ==
  CASE l.kernel = "llama_forward" -> llama_forward(l, m)
    [] l.kernel = "moe_forward" -> moe_forward(l, m)
    [] l.kernel = "set_expert_weights" -> set_expert_weights(l, m)
    [] l.kernel = "flash_attention_host" -> flash_attention_host(l, m)
    [] l.kernel = "flash_attention_backward" -> flash_attention_backward(l, m)
    [] l.kernel = "cross_entropy_loss" -> cross_entropy_loss(l, m)
    [] l.kernel = "loss_reset" -> loss_reset(l, m)

\* The interval i of thread t: what it stores when the memory is m, and
\* whether it returns.
Interval(l, t, i, m) ==
  CASE l.kernel = "reduce_sum" -> reduce_sum(l, t, i, m)
    [] l.kernel = "reduce_max_min" -> reduce_max_min(l, t, i, m)
    [] l.kernel = "grad_norm" -> grad_norm(l, t, i, m)
    [] l.kernel = "reduce_sum_warps" -> reduce_sum_warps(l, t, i, m)
    [] l.kernel = "moe_aux_loss" -> moe_aux_loss(l, t, i, m)
    [] l.kernel = "cross_entropy" -> cross_entropy(l, t, i, m)
    [] l.kernel = "cross_entropy_fp16" -> cross_entropy_fp16(l, t, i, m)
    [] l.kernel = "quantize_int8_per_tensor" -> quantize_int8_per_tensor(l, t, i, m)
    [] l.kernel = "scan" -> scan(l, t, i, m)
    [] l.kernel = "scan_warps" -> scan_warps(l, t, i, m)
    [] l.kernel = "softmax_shared" -> softmax_shared(l, t, i, m)
    [] l.kernel = "rms_norm_fused" -> rms_norm_fused(l, t, i, m)
    [] l.kernel = "rms_norm_fp16" -> rms_norm_fp16(l, t, i, m)
    [] l.kernel = "rms_norm_shared" -> rms_norm_shared(l, t, i, m)
    [] l.kernel = "layer_norm_forward" -> layer_norm_forward(l, t, i, m)
    [] l.kernel = "add_layernorm" -> add_layernorm(l, t, i, m)
    [] l.kernel = "layer_norm_fused" -> layer_norm_fused(l, t, i, m)
    [] l.kernel = "matmul_shared" -> matmul_shared(l, t, i, m)
    [] l.kernel = "batched_matmul" -> batched_matmul(l, t, i, m)
    [] l.kernel = "strided_batched_matmul" -> strided_batched_matmul(l, t, i, m)
    [] l.kernel = "matmul_fp16" -> matmul_fp16(l, t, i, m)
    [] l.kernel = "matmul_bf16" -> matmul_bf16(l, t, i, m)
    [] l.kernel = "matmul_int8" -> matmul_int8(l, t, i, m)
    [] l.kernel = "matmul_int4" -> matmul_int4(l, t, i, m)
    [] l.kernel = "gemv_shared" -> gemv_shared(l, t, i, m)
    [] l.kernel = "block_csr_matmul" -> block_csr_matmul(l, t, i, m)
    [] l.kernel = "mha" -> mha(l, t, i, m)
    [] l.kernel = "mqa" -> mqa(l, t, i, m)
    [] l.kernel = "gqa" -> gqa(l, t, i, m)
    [] l.kernel = "causal_attention" -> causal_attention(l, t, i, m)
    [] l.kernel = "sliding_window_attention" -> sliding_window_attention(l, t, i, m)
    [] l.kernel = "sparse_attention" -> sparse_attention(l, t, i, m)
    [] l.kernel = "ulysses_attention" -> ulysses_attention(l, t, i, m)
    [] l.kernel = "fused_rope_attn" -> fused_rope_attn(l, t, i, m)
    [] l.kernel = "single_head_attention" -> single_head_attention(l, t, i, m)
    [] l.kernel = "flash_attention" -> flash_attention(l, t, i, m)
    [] l.kernel = "flash_attention_block" -> flash_attention_block(l, t, i, m)
    [] l.kernel = "flash_attention_online" -> flash_attention_online(l, t, i, m)
    [] l.kernel = "paged_attention" -> paged_attention(l, t, i, m)
    [] l.kernel = "flash_attn2_forward" -> flash_attn2_forward(l, t, i, m)
    [] l.kernel = "fused_rmsnorm_attn" -> fused_rmsnorm_attn(l, t, i, m)
    [] l.kernel = "fused_transformer_block" -> fused_transformer_block(l, t, i, m)
    [] OTHER -> End(IF l.kernel \in HostCalls THEN Call(l, m) ELSE Threadwise(l, t, m))

\* ----- the memory --------------------------------------------------------

OfDevice(x) == Len(x) = 2
Counters == {"expert_counts", "expert_offsets"}

\* sparse_matmul_coo adds atomically, every other kernel stores
Adds(l) == l.kernel = "coo_matmul"
Store(l, put, m) ==
  (IF Adds(l) THEN [x \in DOMAIN put |-> Plus(Get(m, x), put[x])] ELSE put) @@ m

\* What the host has set to zero before the launch, and what of the memory
\* the launch before it has left: registers and shared memory are gone.
Fresh(l, m) ==
  [x \in {y \in DOMAIN m : OfDevice(y)} |-> m[x]] @@
  [x \in Counters \X (0 .. l.num_experts - 1) |-> 0]

Running == Threads(Launch) \ ended
InStep(t) == \A u \in Running : Block(u) = Block(t) => at[u] >= at[t]

\* The threads whose current interval no barrier separates from that of t.
Concurrent(t) ==
  {u \in Running \ {t} : Block(u) = Block(t) => at[u] = at[t]}

\* One of the two reads what the other stores, or they store different values
\* to one place.
Interfere(t, u) ==
  LET put(v, m) == Interval(Launch, v, at[v], m).put
  IN \E a \in {put(t, memory)} : \E b \in {put(u, memory)} :
       \/ put(u, Store(Launch, a, memory)) # b
       \/ put(t, Store(Launch, b, memory)) # a
       \/ ~Adds(Launch) /\ \E x \in DOMAIN a \cap DOMAIN b : a[x] # b[x]

\* t stores to a place where another block has stored another value.
Overwrites(t, put) ==
  \E x \in DOMAIN put : /\ ~Adds(Launch)
                        /\ x \in DOMAIN writer
                        /\ writer[x] # Block(t)
                        /\ memory[x] # put[x]

\* The inputs of a value, also those under a function that is kept apart
Inputs(v) ==
  UNION {CASE x[1] \in {"square", "nibble"} -> {x[2]}
           [] x[1] \in {"exp", "largest", "less"} -> DOMAIN x[2]
           [] OTHER -> {x} : x \in DOMAIN v}

\* A location that an array of the launch does not have
Beyond(l, x) ==
  /\ OfDevice(x)
  /\ x[1] \in DOMAIN l.length
  /\ x[2] \notin 0 .. l.length[x[1]] - 1

\* A store leaves an array, or what is stored has been made of what lies there.
Strays(l, put) ==
  \E x \in DOMAIN put :
     \/ x[1] = "behind"
     \/ Beyond(l, x)
     \/ x[1] \notin Counters /\ \E y \in Inputs(put[x]) : Beyond(l, y)

\* ----- the steps ---------------------------------------------------------

Init ==
  /\ stream \in DOMAIN Streams
  /\ launch = 1
  /\ memory = Fresh(Launch, Nothing)
  /\ at = [t \in Threads(Launch) |-> 0]
  /\ ended = {}
  /\ writer = Nothing
  /\ raced = FALSE
  /\ strayed = FALSE

Step(t) ==
  /\ t \in Running
  /\ InStep(t)
  /\ \E done \in {Interval(Launch, t, at[t], memory)} :
       /\ memory' = Store(Launch, done.put, memory)
       /\ writer' = [x \in {y \in DOMAIN done.put : OfDevice(y)} |-> Block(t)] @@ writer
       /\ raced' = \/ raced
                   \/ \E u \in Concurrent(t) : Interfere(t, u)
                   \/ Overwrites(t, done.put)
       /\ strayed' = (strayed \/ Strays(Launch, done.put))
       /\ ended' = IF done.last THEN ended \cup {t} ELSE ended
       /\ at' = IF done.last THEN at ELSE [at EXCEPT ![t] = @ + 1]
  /\ UNCHANGED <<stream, launch>>

\* The kernels of a stream do not overlap.
NextLaunch ==
  /\ Running = {}
  /\ launch < Len(Streams[stream])
  /\ launch' = launch + 1
  /\ memory' = Fresh(Streams[stream][launch'], memory)
  /\ at' = [t \in Threads(Streams[stream][launch']) |-> 0]
  /\ ended' = {}
  /\ writer' = Nothing
  /\ UNCHANGED <<stream, raced, strayed>>

Done == Running = {} /\ launch = Len(Streams[stream])
Finished == Done /\ UNCHANGED vars

Next == (\E t \in Running : Step(t)) \/ NextLaunch \/ Finished
Spec == Init /\ [][Next]_vars
=============================================================================
