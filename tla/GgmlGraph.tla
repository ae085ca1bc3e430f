----------------------------- MODULE GgmlGraph ------------------------------
(***************************************************************************)
(* Forward graphs of ggml (src/main/remaining/ggml.c): tensors are made    *)
(* from tensors that exist, a graph is built from a tensor by a recursive  *)
(* walk through its sources that enters every tensor into a hash set,      *)
(* counts its uses and appends it after its sources, and that marks what   *)
(* is to be computed.  The walk's call stack is a variable, one step of    *)
(* which is one call, one loop iteration or one return.                    *)
(*                                                                         *)
(* A failed GGML_ASSERT ends the process.  Names, types, shapes and data   *)
(* of tensors are left out; so is the position of a tensor in the hash     *)
(* set, which is a set of at most HashSize tensors.                        *)
(***************************************************************************)
EXTENDS Integers, Sequences, FiniteSets

CONSTANTS Size,        (* of the graph: how many nodes, and how many leafs  *)
          MaxTensors,  (* bound: tensors ever made                          *)
          MaxSrc       (* sources of a tensor (GGML_MAX_SRC)                *)

ASSUME GraphAssumption ==
    /\ Size \in Nat \ {0}
    /\ MaxTensors \in Nat
    /\ MaxSrc \in Nat

VARIABLES
    op,         (* per tensor: "none", "param" (none, and a parameter), "op"*)
    src,        (* per tensor: its sources                                  *)
    compute,    (* the tensors with GGML_TENSOR_FLAG_COMPUTE                *)
    order,      (* the evaluation order                                     *)
    nodes, leafs,
    visited,    (* visited_hash_set                                         *)
    use_counts, (* per tensor, also of one that is not in the graph any more*)
    stack,      (* the calls of ggml_visit_parents_graph() under way        *)
    pending,    (* the builds still to make of the call under way           *)
    n_old,      (* nodes when the build under way began                     *)
    aborted,
    requested,  (* ghost: what was built into the graph                     *)
    wanted      (* ghost: what was ever built to be computed                *)

tensors == <<op, src>>
graph == <<nodes, leafs, visited, use_counts>>
ghosts == <<requested, wanted>>
vars == <<tensors, compute, order, graph, stack, pending, n_old, aborted, ghosts>>

Tensors == 1 .. Len(src)
Sources(t) == {src[t][i] : i \in 1 .. Len(src[t])}
Elements(s) == {s[i] : i \in 1 .. Len(s)}
Done == Elements(nodes) \cup Elements(leafs)

(* ggml_hash_size(): the first of its primes that is not below.            *)
Primes == {2, 3, 5, 11, 17, 37, 67, 131}
HashSizeOf(n) == CHOOSE p \in Primes : p >= n /\ \A q \in Primes : q >= n => p <= q

HashSize == HashSizeOf(Size * 2)
-----------------------------------------------------------------------------
Init ==
    /\ op = <<>>
    /\ src = <<>>
    /\ compute = {}
    /\ order \in {"left_to_right", "right_to_left"}
    /\ nodes = <<>>
    /\ leafs = <<>>
    /\ visited = {}
    /\ use_counts = [t \in {} |-> 0]
    /\ stack = <<>>
    /\ pending = <<>>
    /\ n_old = 0
    /\ aborted = FALSE
    /\ requested = {}
    /\ wanted = {}

Idle == stack = <<>> /\ pending = <<>> /\ ~aborted

(* A tensor is made, with the operation that gives it its data.            *)
NewTensor(o, s) ==
    /\ Idle
    /\ Len(src) < MaxTensors
    /\ o # "op" => s = <<>>
    /\ op' = Append(op, o)
    /\ src' = Append(src, s)
    /\ UNCHANGED <<compute, order, graph, stack, pending, n_old, aborted, ghosts>>

(* ggml_build_forward_expand() is called.                                  *)
BuildForwardExpand(t) ==
    /\ Idle
    /\ pending' = <<[tensor |-> t, compute |-> TRUE]>>
    /\ UNCHANGED <<tensors, compute, order, graph, stack, n_old, aborted, ghosts>>

(* ggml_build_forward_select() is called: all tensors, idx to be computed. *)
BuildForwardSelect(ts, idx) ==
    /\ Idle
    /\ pending' = [i \in 1 .. Len(ts) |-> [tensor |-> ts[i], compute |-> i = idx]]
    /\ UNCHANGED <<tensors, compute, order, graph, stack, n_old, aborted, ghosts>>

(* Mutated form: the hash set is not reset.                                *)
GraphClearKeepsVisited ==
    /\ Idle
    /\ nodes' = <<>>
    /\ leafs' = <<>>
    /\ requested' = {}
    /\ UNCHANGED <<tensors, compute, order, visited, use_counts, stack, pending, n_old,
                   aborted, wanted>>

(* ggml_graph_clear(): the use counts stay, and the tensors' flags.        *)
GraphClear ==
    /\ Idle
    /\ nodes' = <<>>
    /\ leafs' = <<>>
    /\ visited' = {}
    /\ requested' = {}
    /\ UNCHANGED <<tensors, compute, order, use_counts, stack, pending, n_old, aborted,
                   wanted>>
-----------------------------------------------------------------------------
Flagged(t, c) == IF op[t] = "op" /\ c THEN compute \cup {t} ELSE compute

(* Mutated form: a tensor that was visited before the graph was cleared    *)
(* goes on from its old count.                                             *)
CountsWithStale(t) ==
    [u \in DOMAIN use_counts \cup {t} |-> IF u \in DOMAIN use_counts THEN use_counts[u] ELSE 0]

(* The count of a tensor starts at its first visit.                        *)
CountsWith(t) ==
    [u \in DOMAIN use_counts \cup {t} |->
       IF u = t /\ t \notin visited THEN 0 ELSE use_counts[u]]

(* ggml_visit_parents_graph() is called: flag, hash set, and the loop to   *)
(* run: over all sources of a new tensor, over the unflagged sources of a  *)
(* visited one that is to be computed, over none of any other.             *)
Call(t, c) ==
    /\ compute' = Flagged(t, c)
    /\ IF t \notin visited /\ Cardinality(visited) >= HashSize
       THEN aborted' = TRUE /\ UNCHANGED <<visited, use_counts, stack>>
       ELSE /\ visited' = visited \cup {t}
            /\ use_counts' = CountsWith(t)
            /\ stack' = Append(stack,
                  [tensor |-> t, next |-> 1, compute |-> c,
                   kind |-> IF t \notin visited THEN "new" ELSE IF c THEN "again" ELSE "known"])
            /\ UNCHANGED aborted

Top == stack[Len(stack)]
SourceAt(f, i) == IF f.kind = "new" /\ order = "right_to_left"
                  THEN src[f.tensor][Len(src[f.tensor]) + 1 - i]
                  ELSE src[f.tensor][i]
Source(f) == SourceAt(f, f.next)

(* Mutated form: the loop leaves out the last source.                      *)
LoopEndsEarly(f) == f.kind = "known" \/ f.next >= Len(src[f.tensor])

(* Mutated form: what has been visited is not looked at again.             *)
LoopEndsIfVisited(f) == f.kind # "new" \/ f.next > Len(src[f.tensor])

LoopEnds(f) == f.kind = "known" \/ f.next > Len(src[f.tensor])

(* ggml_build_forward_impl() begins.                                       *)
Begin ==
    /\ stack = <<>> /\ pending # <<>> /\ ~aborted
    /\ n_old' = Len(nodes)
    /\ requested' = requested \cup {Head(pending).tensor}
    /\ wanted' = IF Head(pending).compute THEN wanted \cup {Head(pending).tensor} ELSE wanted
    /\ Call(Head(pending).tensor, Head(pending).compute)
    /\ UNCHANGED <<tensors, order, nodes, leafs, pending>>

(* The loop calls the walk for a source.                                   *)
Descend ==
    /\ stack # <<>> /\ ~aborted /\ ~LoopEnds(Top)
    /\ Top.kind = "new" \/ Source(Top) \notin compute
    /\ Call(Source(Top), Top.compute)
    /\ UNCHANGED <<tensors, order, nodes, leafs, pending, n_old, ghosts>>

(* The loop passes over a source that is flagged.                          *)
Skip ==
    /\ stack # <<>> /\ ~aborted /\ ~LoopEnds(Top)
    /\ Top.kind = "again" /\ Source(Top) \in compute
    /\ stack' = [stack EXCEPT ![Len(stack)].next = @ + 1]
    /\ UNCHANGED <<tensors, compute, order, graph, pending, n_old, aborted, ghosts>>

(* A new tensor goes to the leafs or to the nodes, after its sources.      *)
AppendTensor(t) ==
    IF op[t] = "none"
    THEN leafs' = Append(leafs, t) /\ UNCHANGED nodes
    ELSE nodes' = Append(nodes, t) /\ UNCHANGED leafs

HasRoom(t) == IF op[t] = "none" THEN Len(leafs) < Size ELSE Len(nodes) < Size

(* The caller goes on with its next source; a new caller counts the use.   *)
Caller == stack[Len(stack) - 1]

CountUse(t) ==
    use_counts' = IF Len(stack) > 1 /\ Caller.kind = "new"
                  THEN [use_counts EXCEPT ![t] = @ + 1] ELSE use_counts

PopFrame ==
    stack' = [i \in 1 .. Len(stack) - 1 |->
                IF i = Len(stack) - 1 THEN [stack[i] EXCEPT !.next = @ + 1] ELSE stack[i]]

(* ggml_build_forward_impl() ends: if the graph grew, its last node must   *)
(* be the tensor it was built for.                                         *)
Grew(t) == Len(nodes') > n_old => nodes'[Len(nodes')] = t
EndBuild(t) ==
    IF Len(stack) > 1 THEN UNCHANGED <<pending, aborted>>
    ELSE pending' = Tail(pending) /\ aborted' = ~Grew(t)

(* Mutated form: a visited tensor is appended again.                       *)
ReturnAppends ==
    /\ stack # <<>> /\ ~aborted /\ LoopEnds(Top)
    /\ IF Top.kind # "known" /\ ~HasRoom(Top.tensor)
       THEN aborted' = TRUE /\ UNCHANGED <<graph, stack, pending>>
       ELSE /\ IF Top.kind # "known" THEN AppendTensor(Top.tensor) ELSE UNCHANGED <<nodes, leafs>>
            /\ CountUse(Top.tensor)
            /\ PopFrame
            /\ EndBuild(Top.tensor)
            /\ UNCHANGED visited
    /\ UNCHANGED <<tensors, compute, order, n_old, ghosts>>

(* The walk returns: a new tensor is appended first.                       *)
Return ==
    /\ stack # <<>> /\ ~aborted /\ LoopEnds(Top)
    /\ IF Top.kind = "new" /\ ~HasRoom(Top.tensor)
       THEN aborted' = TRUE /\ UNCHANGED <<graph, stack, pending>>
       ELSE /\ IF Top.kind = "new" THEN AppendTensor(Top.tensor) ELSE UNCHANGED <<nodes, leafs>>
            /\ CountUse(Top.tensor)
            /\ PopFrame
            /\ EndBuild(Top.tensor)
            /\ UNCHANGED visited
    /\ UNCHANGED <<tensors, compute, order, n_old, ghosts>>

Walk == Begin \/ Descend \/ Skip \/ Return

SourceLists == UNION {[1 .. n -> Tensors] : n \in 0 .. MaxSrc}

Next ==
    \/ \E o \in {"none", "param", "op"}, s \in SourceLists : NewTensor(o, s)
    \/ \E t \in Tensors : BuildForwardExpand(t)
    \/ \E t, u \in Tensors, idx \in 1 .. 2 : BuildForwardSelect(<<t, u>>, idx)
    \/ GraphClear
    \/ Walk

Spec == Init /\ [][Next]_vars
-----------------------------------------------------------------------------
(* Whoever evaluates nodes from the first to the last finds every source   *)
(* evaluated, also while the graph grows and in the order from right to    *)
(* left.                                                                   *)
SourcesFirst ==
    \A i \in 1 .. Len(nodes) : \A s \in Sources(nodes[i]) :
        s \in Elements(leafs) \/ \E j \in 1 .. i - 1 : nodes[j] = s

(* No tensor is evaluated twice.                                           *)
NoDuplicates ==
    /\ \A i, j \in 1 .. Len(nodes) : nodes[i] = nodes[j] => i = j
    /\ \A i, j \in 1 .. Len(leafs) : leafs[i] = leafs[j] => i = j

(* Nothing is lost: what was built, and all it depends on, is in the graph *)
(* and nothing else is.  What tensors depend on is the least set of them   *)
(* that holds the sources of its members.                                  *)
Closed(C) == \A t \in C : Sources(t) \subseteq C
ReachOf(ts) == {t \in Tensors : \A C \in SUBSET Tensors : ts \subseteq C /\ Closed(C) => t \in C}
GraphComplete ==
    Idle => /\ ReachOf(requested) = visited
            /\ visited = Done

(* use_counts is what the allocator frees a tensor by: the number of times *)
(* a tensor of the graph has it as a source, over several builds and also  *)
(* in a graph that is built again after ggml_graph_clear(), which leaves   *)
(* the counts of the cleared graph where they are.                         *)
Uses(t) == UNION {{<<u, i>> : i \in {k \in 1 .. Len(src[u]) : src[u][k] = t}} : u \in visited}
UseCountsExact == Idle => \A t \in visited : use_counts[t] = Cardinality(Uses(t))

(* Exactly the operations are computed that a tensor depends on that was   *)
(* built to be computed: when a branch that was not selected is built      *)
(* first, shares tensors with the selected one or with an earlier graph.   *)
ComputeExact == Idle => compute = {t \in ReachOf(wanted) : op[t] = "op"}

=============================================================================
