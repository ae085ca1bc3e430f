----------------------------- MODULE GpuExchange -----------------------------
(***************************************************************************)
(* The kernels of src/kernel/ that move data between ranks, tokens and     *)
(* experts.  The ranks' buffers lie behind each other in one array.        *)
(***************************************************************************)
EXTENDS GpuThreads

gather(l, i, m) == Below(i, l.size, Put("output", i, In(m, "input", l.indices[i])))
scatter(l, i, m) == Below(i, l.size, Put("output", l.indices[i], In(m, "input", i)))

\* ----- ranks -------------------------------------------------------------

OverRanks(l, i, m) == Sum(0 .. l.ranks - 1, LAMBDA r : In(m, "input", r * l.size + i))

tensor_parallel_allgather(l, i, m) ==
  Below(i, l.size, PutAll("output", {r * l.size + i : r \in 0 .. l.ranks - 1},
                          LAMBDA o : In(m, "input", o)))

\* copies this rank's input to every rank's place
context_parallel_allgather(l, i, m) ==
  Below(i, l.size, PutAll("output", {r * l.size + i : r \in 0 .. l.ranks - 1},
                          LAMBDA o : In(m, "input", i)))

tensor_parallel_allreduce(l, i, m) ==
  Below(i, l.size, Put("output", l.rank * l.size + i, OverRanks(l, i, m)))
data_parallel_grad_sync(l, i, m) ==
  Below(i, l.size, Put("output", l.rank * l.size + i, OverRanks(l, i, m)))
context_parallel_allreduce(l, i, m) ==
  Below(i, l.size, Put("output", i, OverRanks(l, i, m)))

\* starts from the rank's own input and then adds every rank's
ring_allreduce(l, i, m) ==
  Below(i, l.size, Put("output", l.rank * l.size + i,
    Plus(In(m, "input", l.rank * l.size + i),
         Sum(0 .. l.ranks - 1, LAMBDA r : In(m, "input", ((l.rank + r) % l.ranks) * l.size + i)))))

\* ranks are the stages of the pipeline
pipeline_sendrecv(l, i, m) ==
  Below(i, l.size, Put("output", l.recv_stage * l.size + i,
                                 In(m, "input", l.send_stage * l.size + i)))

\* every thread copies everything
ulysses_alltoall(l, i, m) ==
  LET moved == UNION {{<<r, j>> : j \in 0 .. l.counts[r] - 1} : r \in 0 .. l.ranks - 1}
      from(o) == CHOOSE x \in moved : l.recv_offsets[x[1]] + x[2] = o
  IN Below(i, l.size,
       PutAll("output", {l.recv_offsets[x[1]] + x[2] : x \in moved},
              LAMBDA o : In(m, "input", l.send_offsets[from(o)[1]] + from(o)[2])))

\* ----- experts -----------------------------------------------------------

\* experts[token]: the experts chosen for a token, the best first
Chosen(l, token) == DOMAIN l.experts[token]
Region(l, e) == e * l.tokens * l.hidden

\* atomicAdd(&counter[expert], hidden) gives the place in the expert's region
Dispatch(l, token, m, counter) ==
  LET place(k) == Region(l, l.experts[token][k]) + m[<<counter, l.experts[token][k]>>]
  IN Below(token, l.tokens,
       [x \in {<<"expert", place(k) + j>> : k \in Chosen(l, token), j \in 0 .. l.hidden - 1} |->
          In(m, "input", token * l.hidden + (x[2] % l.hidden))]
       @@ [x \in {<<counter, l.experts[token][k]>> : k \in Chosen(l, token)} |-> m[x] + l.hidden])
moe_alltoall_dispatch(l, i, m) == Dispatch(l, i, m, "expert_counts")
expert_parallel_dispatch(l, i, m) == Dispatch(l, i, m, "expert_offsets")

\* looks for a token at its place in the batch
Combine(l, i, m) ==
  LET token == i \div l.hidden
      place(e) == Region(l, e) + m[<<"expert_offsets", e>>] + token * l.hidden + (i % l.hidden)
  IN Below(i, l.tokens * l.hidden,
       Put("output", i, Sum(Chosen(l, token), LAMBDA k :
         Made({In(m, "expert", place(l.experts[token][k])),
               In(m, "scores", token * l.top_k + k - 1)}))))
moe_alltoall_combine(l, i, m) == Combine(l, i, m)
expert_parallel_combine(l, i, m) == Combine(l, i, m)

\* scores[8], indices[8], in elements of the model
CONSTANT Slots
ASSUME SlotsAssumption == Slots \in Nat

Logits(l, m, token) ==
  Sum((0 .. l.num_experts - 1) \X (0 .. l.hidden - 1), LAMBDA ej :
    Made({In(m, "input", token * l.hidden + ej[2]),
          In(m, "router_weights", ej[1] * l.hidden + ej[2])}))

\* which experts win is decided by numbers; what is stored depends on all scores
moe_router(l, t, m) ==
  LET i == Gid(l, t)
      mine == {i * l.top_k + k : k \in 0 .. l.top_k - 1}
      uninitialised == {Sym(Local("scores", t, k)) : k \in l.num_experts .. l.top_k - 1}
      result(o) == Made({Logits(l, m, i)} \cup uninitialised)
  IN Below(i, l.tokens,
       PutAll("expert_indices", mine, result) @@ PutAll("expert_weights", mine, result)
       @@ Spill("scores", t, l.num_experts, Slots) @@ Spill("scores", t, l.top_k, Slots))

\* the products of the chosen experts' weights with the token, element h
moe_expert_forward(l, t, m) ==
  LET i == Gid(l, t)
      token == i \div l.hidden
      h == i % l.hidden
      w1(e) == e * 2 * l.hidden * l.intermediate
      w2(e) == w1(e) + l.hidden * l.intermediate
      temp(e, u) == Sum(0 .. l.hidden - 1, LAMBDA j :
        Made({In(m, "input", token * l.hidden + j), In(m, "expert_weights", w1(e) + u * l.hidden + j)}))
      val(e) == Sum(0 .. l.intermediate - 1, LAMBDA u :
        Made({temp(e, u), In(m, "expert_weights", w2(e) + h * l.intermediate + u)}))
  IN Below(i, l.tokens * l.hidden,
       Put("output", i, Sum(Chosen(l, token), LAMBDA k :
         Made({val(l.experts[token][k]), In(m, "scores", token * l.top_k + k - 1)})))
       @@ Below(0, l.top_k, Spill("temp", t, l.intermediate, Temp)))

fused_moe_attn(l, t, m) ==
  LET i == Gid(l, t)
      first == (i \div l.hidden) * l.hidden
      h == i % l.hidden
      product(w, at(_)) == Sum(0 .. l.hidden - 1, LAMBDA j :
        Made({In(m, "input", first + j), In(m, w, at(j))}))
      expert(k) == l.experts[i \div l.hidden][k]
      moe_out == Sum(Chosen(l, i \div l.hidden), LAMBDA k :
        Made({Logits(l, m, i \div l.hidden),
              product("expert_weights", LAMBDA j : (expert(k) * l.hidden + j) * l.hidden + h)}))
      attn_out == Sum({"q_weight", "k_weight", "v_weight"}, LAMBDA w :
        product(w, LAMBDA j : j * l.hidden + h))
  IN Below(i, l.tokens * l.hidden,
       Put("output", i, Plus(Plus(moe_out, attn_out), In(m, "input", i)))
       @@ Spill("router_scores", t, l.num_experts, Slots)
       @@ Spill("expert_indices", t, l.top_k, Slots))
=============================================================================
