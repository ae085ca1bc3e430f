# NOVA: TLA+ models and proofs

This directory is the formal model of NOVA (`src/`), an LLM inference and
training runtime. The C++ sources are in `src/main/remaining/` (the `.ii` files
are the `.cpp` files of the build: `pa.ii` is `core/nova_paged_attention.cpp`,
and so on), the tensor library in
`src/main/remaining/ggml.c`, the GPU kernels in `src/kernel/`, and a Python
front end in `src/main/remaining/torch.py`.

## 1. The system

| Component | State it keeps | Operations | What makes it correct |
|---|---|---|---|
| **PagedAttention** (`pa.ii`) | page table `logical_pages_`, blocks `physical_blocks_`, stack `free_list_`, two id counters | `init`, `clear`, `allocate_page`, `free_page`, `set_k`, `get_k`, `defragment` | pages and free list partition the blocks; a page keeps what was written to it; ids do not alias |
| **KVCache** (`cache.h`, `cache.ii`) | map `pages_`, `used_memory_`, `total_memory_`, dimensions, `mutex_` | `init`, `clear`, `allocate_block`, `free_block`, `get_k`/`get_v`, `append`, `evict_lru` | accounting equals the pages; no thread waits for ever; pointers handed out stay valid while in use |
| **SpeculativeDecoder** (`s.ii`) | the output so far, draft and accepted tokens | `generate`, `draft`, `verify_draft`, `accept_token` | output is append-only, each target token computed on the prefix it follows; length bound; progress |
| **InferenceEngine** (`i.ii`) | model, tokenizer, both caches, config | `load_model`, `generate`, `reset`, samplers | requests after `reset` still served; bounded generation |
| **HTTPServer + main** (`http.ii`, `main.ii`) | `running_`, worker threads, sockets, signal flag | `start`, `stop`, `worker_loop`, `handle_client` | every accepted client is answered and closed; `stop` returns; port is released |
| **Trainer** (`train.ii`) | `global_step`, `training_`, best loss, patience, files | `train`, `train_step`, `evaluate`, `save_checkpoint`, `load_checkpoint`, `stop` | every gradient reaches an update; checkpoints are usable after a crash |
| **BPETokenizer** (`token.ii`) | `vocab_`, `reverse_vocab_`, `merges_`, `merge_rules_`, special ids | `train`, `encode`, `decode`, `add_special_token`, `set_special_tokens`, `save`, `load` | an id means one text, both directions of the vocabulary agree; encoding ends and follows the rules |
| **GGUFLoader**, **SafetensorsLoader** (`gguf.ii`, `st.ii`) | stream, metadata, tensor index | `load`, `load_tensor_data` | a tensor's bytes are the file's bytes or the call fails |
| **MoE** (`moe.ii`) | router and expert weights, expert counts | `set_expert_weights`, `forward` | the experts' weights are the ones handed over; a token's output is the sum over its experts |
| **LLaMA**, **FlashAttention**, **Loss** (`llama.ii`, `fa.ii`, `l.ii`) | weights; the gradient the loss keeps between calls | `forward`, `backward`, `compute`, `reset` | every output is made of the inputs it stands for |
| **ggml** (`ggml.c`) | context arena, hash set, graph | object allocation, graph build, shapes, backward pass | arena objects disjoint; graph in topological order; gradients are derivatives |
| **CUDA kernels** (`src/kernel/*.cu`) | shared and global memory of a block | one launch each | race freedom between barriers; all threads of a block at the same barriers; no access outside the arrays; each output made of its inputs |
| **torch.py, vllm.py, ex.py** | Python trainer and examples | `train`, `generate` | gradient accumulation |
| **nova.h** | C API declarations | none defined | - |

### Interactions

`main` owns one `InferenceEngine` and one `HTTPServer`; server workers call the
engine through the request handler. The engine owns one `PagedAttention` and one
`KVCache` and only creates and clears them. The trainer calls a `Model`,
`Optimizer` and `DataLoader` of which only headers exist. Hard behaviours:
several worker threads on one engine; a mutex taken twice by one thread; the
shutdown flag against blocking `accept`; handles kept across `clear`; a crash
between the two files of a checkpoint; sticky stream errors.

## 2. How to read and run it

One module per component, named after the class or the file it models. A
variable has the name of the member it stands for where there is one, an action
the name of the method (`allocate_page()` is `AllocatePage`); variables the code
does not have are ghosts and are declared as such. `MC*.tla` are the small
instances for TLC, `*Proofs.tla` hold the theorems. Definitions introduced by a
comment "Mutated form" are not part of any specification: each is a plausible
bug in the code, and replacing the definition it mutates makes the property it
is paired with in `PROJECT.json` fail.

    tlc -workers 2 -config MCKVCache.cfg MCKVCache.tla
    tlapm KVCacheProofs.tla

All specifications end in states without a successor (bounds reached, a call
that returned, a process that exited), so every cfg but one says
`CHECK_DEADLOCK FALSE`; that the system does not stop too early is stated by
properties instead. `MCGpuKernels.cfg` checks deadlock: its specification stutters
where a stream of launches has ended and stops nowhere else, because a thread that has
returned no longer holds up the others of its block; that some passed a barrier it did
not come to is what `DivergenceForeseen` looks at.

## 3. The modules

### 3.1 PagedAttention, PageStore (`pa.ii`)

One variable per member of the class. The class has no lock, so a method is one
step and the interleaving is that of calls. The clients are the sequences that
share the store: `held` is what each remembers of `allocate_page()`, with the
number of `clear()`s that had run (a ghost) so that stale handles can be told.

| Action | Code |
|---|---|
| `InitBlocks` | `init()` 16-35: new numbers of heads, head size and rows; appends blocks, never releases any |
| `Clear` | `clear()` 37-43 and the destructor: both counters restart |
| `AllocatePage`, `PopInto`, `AddPage` | `allocate_page()` 45-72, with the `defragment()` it calls on an empty list, and its answer 0 |
| `FreePage` | `free_page()` 74-87 |
| `SetK`, `Copied`, `Grown` | `set_k()` 89-102, an unchecked `memcpy` |
| `Defragment` | `defragment()` 116-132: rebuilds and sorts the free list |

A block is a flat array of cells. `row_` is `num_heads_ * head_dim_`, the width of a
row, and both `set_k()` and `get_k()` find position `i` at cell `i * row_`, with the
width of the **last** `init()`, also in blocks and pages of an earlier one. A client
writes a whole row as one value repeated, and stays within `block_size_` rows.

`get_k()` has no effect; what it returns is the operator `Readable`, which is
also the refinement mapping to **PageStore**: a bounded number of private maps
from positions to values, without blocks or free list.

Found on the way, and stated by properties that hold: page id 0 is both the
first page and "no page" (`AliasedOnlyAsZero`), ids are reused after `clear()`
and a second `init()` with longer blocks, be it of more or of wider rows, leaves short
blocks behind (`RulesSuffice`, with its parts `HeldPagesLive` and
`OverrunNeedsLargerInit`); an `init()` that changes the width makes every page in use
read something else than what was written to it (`Reshapes`, the one step in which
`ImplementsPageStore` lets contents change without a write). Note that
`seq_len` of a page also grows when positions are overwritten, and that nothing
reads it.

### 3.2 KVCache (`cache.h`, `cache.ii`)

Threads call methods (`Call`), and a method runs when its thread finds `mutex_`
free; as every method holds the mutex from its first line to its return, it is
one atomic step. The exception is `evict_lru()`, which calls `free_block()` with
the mutex held: `EvictLru` leaves `mutex_ = t` and a pending `free_block` that
no thread can enter. That this is the only way a call does not return is `CallsReturn`,
under weak fairness of a thread that waits in a method: it is assumed that whoever
waits for the mutex gets it when it stays free, and of nobody that he calls anything.
`pointer` is what a thread keeps of `get_k()` after the lock
is gone; the ghost `seen` of an append is the page the caller computed its length
from. `used_memory_` counts modulo `Wrap`, the 2^64 of `size_t`.

`last_used` is written once (0) and never updated, so `evict_lru()` takes the
first page in hash order, any page; page id 0 doubles as "none found".

### 3.3 SpeculativeDecoder, Decoder (`s.ii`)

One call of `generate()`; `pc` is the place in its loop and in `verify_draft()`.
The models are functions the caller supplies and may answer anything; acceptance
is a coin. **Decoder** is the abstract token-by-token decoder: the output grows
by one token and the ghost `asked` records the context each token was asked with.
The mapping `out` counts the tokens `verify_draft()` has accepted as output.

### 3.4 HTTPServer (`http.ii`, the server command of `main.ii`)

`main` (start, poll, stop, join), the signal handler, the workers of
`worker_loop()`/`handle_client()` and the clients are processes. A worker's step
is a system call or a test of `running_`. The subtle point is the socket: every
worker opens its own, `bind()` to the port that `start()` still holds fails
unnoticed, and `listen()` then makes the kernel choose a port; that port is named
by the worker. Failures: `start()`'s three calls, `accept()`, a handler that
throws (leaves the thread function, the process terminates), `send()` to a
client that hung up (SIGPIPE), clients that stay silent or hang up.

`stop()` returns to `main` when every worker is joined (`Joined`), and `main` returns
after that (`ReturnFromMain`), which ends the process and with it every connection.
In between `StopDrains` looks at what the workers have left: the ghost `taken` has the
clients a worker accepted, and each of them is closed, with one answer unless it hung
up. A client may stay silent for ever: `recv()` has no timeout, so a worker can be
held up for ever in `accept()` (`Idle`) or in `recv()` (`Silent`), and
`StopWaitsForClientsOnly` says that a `stop()` that does not return has one of the two
for its cause; `WaitingIsResolved` says that a connection that is never taken up waits
behind a silent client.

### 3.5 Trainer (`train.ii`)

`train()` with its two loops, `train_step()`, `save_checkpoint()` as two steps
(two files), `load_checkpoint()`, `stop_training()` from another thread between
any two steps, and one process death, after which a checkpoint may be loaded.
Gradients are how many batches they hold and whether their norm is too large;
weights and optimizer state are the number of the update that made them.

### 3.6 GgmlGraph (`ggml.c` 6895-7097, 7297-7306)

Tensors are made from existing tensors; `ggml_build_forward_expand()` and
`ggml_build_forward_select()` walk their sources. The C recursion of
`ggml_visit_parents_graph()` is the variable `stack`: `Begin` and `Descend` are a
call (flag, hash set), `Skip` is the inner `if` of the loop over a tensor already
visited, `Return` appends to leafs or nodes and counts the use. The hash set is a
set with a capacity (`HashSize`, from the table of primes of `ggml_hash_size()`).
A failing `GGML_ASSERT` sets `aborted`. `ggml_graph_clear()` empties nodes, leafs and
the hash set and leaves the array of use counts as it was: a count is set to 0 when its
tensor enters the hash set again (`CountsWith`), and `UseCountsExact` would see one that
is not. `ggml_cast()`, which names the tensor it
makes as one of its own sources, is left out.

### 3.7 GgmlOps, GgmlBackward, GgmlValues (`ggml.c` 1259-1557, 1726-4125, 5857-5886, 6342-7098)

**GgmlOps** has one operator per constructor (`ggml_mul_mat()` is `mul_mat`): the
shape, the strides, the offset and the memory of the tensor it makes, and, as
`ok`, whether its assertions hold. **GgmlBackward** is
`ggml_build_backward_expand()`:

| Action | Code |
|---|---|
| `MakePointwise` ... `MakeMoved` | the program makes a tensor of the forward graph, one action per family of constructors |
| `SetLoss` | `ggml_set_loss()` |
| `BackwardExpand` | 7001-7089: the assertions it begins with hold; `needed` is `grads_needed`; losses and any choice of parameters get accumulators |
| `NothingToTrain` | the same assertions fail: no parameter, no loss |
| `PassBy`, `ComputeBackward`, `Abort` | one call of `ggml_compute_backward()`, from the last node to the first: no gradient to hand on; the contributions added to the sources; an assertion of the node, of a constructor it calls, or of lines 6891-6893 |

A gradient is the expression the code builds: a record of an operation, its
arguments and its operands, down to references to forward tensors and
accumulators. The switch of `ggml_compute_backward()` is `Contributions`, cut into
one operator per family; `add_or_set` and its siblings are the four functions of
6342-6409, with the choice between an addition in place (the tensor has an
accumulator) and a new tensor.

**GgmlValues** gives these expressions numbers, so that a gradient can be compared
with the derivative it stands for. The numbers are those of the field of the
integers modulo 10007: rules of differentiation are identities in any field, so a
wrong rule shows at almost every point and rounding plays no part. `exp`, `sin` and
the like are arbitrary functions that have the derivatives their names say. The
derivative is computed forwards (a tangent beside every value) by `Forward`, which
uses none of the backward pass. Reads and writes go through offsets and strides
into the memory a tensor lies in. The kernels are not in the repository; what they
compute is external to it and modelled from the declarations.

Where the code goes wrong, the properties say so in their conditions, each of which
is needed:

- the gradient of the second operand of `ggml_add1()` is the mean of what should be
  summed (line 6454, which says so itself): `MeanForSum`;
- a view of a tensor with gaps between its rows is put at its place in memory, which is
  another place in the packed gradient: `ViewOfGaps`; the same for the block of
  `ggml_acc()` and `ggml_set()` if their gradient is a transposed one:
  `BlockOfMovedGradient`;
- a loss computed from another loss leaves more than its 1 in the accumulator of
  the latter: `FeedsALoss`;
- the nodes of an accepted graph that end the process in its backward pass are
  listed in `Refuses`: operations without one, gradients for masks and labels,
  broadcasts that `sub`, `div` and `add1` do not undo, a matrix that a product
  broadcasts over batches in dimension 4 (line 6585 asserts that its gradient has no
  such batches), rows of several matrices, and gradients that are not packed where the
  next constructor wants them so. `AbortsForeseen` (section 5) shows that the list is
  complete.

### 3.8 GpuThreads, GpuPointwise, GpuReduce, GpuMatmul, GpuAttention, GpuExchange, GpuQuant, GpuKernels, GpuReference (`src/kernel/*.cu`)

**GpuThreads** is what a kernel is written with: the threads of a launch with their
coordinates, the memories (device, shared, registers) and numbers. A number is the
bag of inputs it is made of: a sum adds bags, every other function contains each
input once. That tells apart what goes wrong in a kernel (an input missing, counted
twice, from the wrong place, or not yet written) and leaves out rounding.

A kernel is an operator `k(l, i, m)` or `k(l, t, i, m)` with the name of the
`__global__` function: what thread `t` of the launch `l` stores in its interval `i`,
between two `__syncthreads()`, when the memory is `m`. They are sorted by how their
threads work together: not at all (**GpuPointwise**), in a reduction in shared memory
(**GpuReduce**), in tiles (**GpuMatmul**), in the attention blocks (**GpuAttention**),
between ranks and experts (**GpuExchange**), and in bytes that hold several codes
(**GpuQuant**). The arrays a launch names have the lengths it gives them, and an access
outside shows in `strayed`; so does one outside the arrays of fixed length inside the
kernels. `Temp`, `Room`, `Slots` and `FlashBlock` stand for those lengths (4096 in
`moe.cu:33` and `rma.cu:37`, the 64 of the blocks of `fao.cu` and `fa2.cu`, ...).
**GpuKernels** is the device: launches of a stream run one after the
other, and a step is one interval of one thread. Steps of threads of a block are
ordered by the barriers only; `raced` records that two threads could have touched the
same location between the same barriers, at least one of them storing, so that the
steps need not be split into instructions. **GpuReference** says what each kernel is
for, with a value for every element of every kernel's output (`Expected`), and, as `Racy`, `Fits`, `Overruns` and `Divergent`, for which launches the code
does not get there. The properties are equivalences over the launches of the run: those named do
go wrong in the way named, in every order of their threads, and the others do not.

What a kernel is for is taken from its name, its parameters and its comments: the
reference of `geglu` uses its second matrix, that of `attn_mlp` its query, key and value
matrices, that of `retnet_retention` its own position, none of which the code does, so
these never `Fit`. Of a whole layer and of the online softmax only *which* inputs an
element is made of is compared, not how often each counts. Not among the accesses
looked at: dynamic shared memory, whose size the caller passes, and the static tiles,
which are as large as the block the launch is made with. Taken to be valid: expert
numbers, rank tables, row pointers and batch indices; not taken to be valid: targets,
gather, scatter and column indices and entries of page tables.

What these four operators say of the code, among others: the prefix sum of
`scan.cu` (62) is added to the wrong elements as soon as there are two warps;
`softmax_shared` reads shared memory without a barrier; `quantize_int4` and its
relatives lose a nibble to the neighbour that stores the same byte; `gemv.cu` (27) and
`rms_norm_shared` return threads before a barrier the others wait at; `moe_router`
has a local array of fixed length for a number of experts that is not checked, and
`moe_expert_forward`, `mlp_residual` and `fused_rmsnorm_attn` have one for a width that
is not; `cross_entropy` subscripts by a target and `page_lookup` by a page number nobody
looks at;
reductions drop elements unless the width of a block is a power of two.

### 3.9 HostCode (`llama.ii`, `moe.ii`, `fa.ii`, `l.ii`)

The numerical code of the host, in the same algebra, each function a kernel of one
thread: `llama_forward`, `moe_forward`, `set_expert_weights`, `flash_attention_host`,
`flash_attention_backward`, `cross_entropy_loss`, `loss_reset`. In `llama_forward()`
the scores of later positions are left at -INFINITY and enter the product with the
values, so that every token but the last gets no number (`llama.ii:238`): it `Fits`
sequences of one token only. `moe_forward()` takes the width of a row
from its caller and reads behind the weights of an expert if that is more than `init()`
was told. The loss keeps `grad_` between calls, and a row whose
target is ignored keeps what the call before left there (`l.ii:53`).

### 3.10 BPETokenizer, BPEEncoder (`token.ii`)

**BPETokenizer** is `train()` and the calls that change the tokenizer, and `decode()`;
**BPEEncoder** is `encode()` over the state they leave.

| Action | Code |
|---|---|
| `Train`, `BuildVocab` | `train()` up to its loop, `build_vocab()`: ids follow the order of a hash set, any order |
| `Round`, `AddMerged` | one turn of the loop of 31-81; `tokenized` are its words, `origin` (a ghost) the codes each of their tokens stands for |
| `TrainReturn` | the loop ends: large enough, or no pair left |
| `AddSpecialToken`, `SetSpecialTokens`, `Save`, `Load` | the methods of these names |

`bpe_merge` and `Decode` are operators over that state: a turn of the loop of
`bpe_merge()` is `Turn`, and where a pair still has a rule after as many turns as the
word is long, the loop has no end (`Forever`). What the loop makes is compared with
`Rewritten`, all that can be made of a word by replacing one pair at a time. A string of the vocabulary is
the sequence of basic tokens it was put together from. `compute_pair_frequencies()` is
declared (`token.h:67`) and has no body: `PairFrequencies` leaves open whether pairs of
earlier calls stay in `merges_`.

Found, and stated in the conditions of the properties: words are made of character
codes and merged tokens of vocabulary ids, both `int`s, so that ids are unambiguous
only while no code is small (`Apart`); the vocabulary holds codes nowhere, so a merge
looks both halves up with `operator[]`, which makes empty entries, and `decode()`
finds the text of nothing that `train()` yields; `bpe_merge()` puts the frequency of a
pair where its id is meant (172-177) and goes round for ever if a rule has the code -1
(the byte 0xFF where `char` is signed).

### 3.11 ModelFiles (`gguf.ii`, `st.ii`)

Both loaders in one module, `format` says which. A file is how many items of its
header and how many cells of its tensors are there, and what is wrong with it;
`stream` is the file that is open and whether a read has failed. No read is checked:
what lies behind the end of the file is uninitialised (`Garbage`), and a length that is
uninitialised may be more than the memory holds (`Thrown`): a call answers `"true"` or
`"false"` or is left by an exception (`"thrown"`, also for the text of a Safetensors
header that is cut, whose length is garbage then).

A key of a GGUF header has a type. `read_metadata_value()` reads scalars of up to four
bytes and strings as they are written. Of UINT64, INT64 and FLOAT64 it reads nothing,
they fall into the `default` of its switch (121); of each element of an array it reads
a type that is not there (110-118). Everything behind such a key is out of place
(`Straight`, `Shifted`): names, numbers and places may be any, whether the stream stays
good is open, and `load()` still answers true or throws. An `open()` on an open
stream fails and leaves it open, so that a second `load()` reads nothing of either
file and may still answer true. The offsets of GGUF are taken as the code takes them,
from the beginning of the file.

`LoadFile` is `load()` with everything it reads, `LoadTensorData`
`load_tensor_data()`. `answer` (a ghost) compares what a call answers and leaves with
what is due for the file that was asked for. `AnswersForeseen` says for which
files that is the same: for a first `load()` of a header that is there and read as it
is written. Headers that are cut or misread are not refused by GGUF.

## 4. The runs

| Run | Instance | Shows |
|---|---|---|
| `paged_store` | 2 clients, 2 values, 2 blocks of one row of one cell, two rows, or one row of two cells, 3 pages of one write each, 1 `clear()` | the free list and the mapping, aliasing, stale ids, overruns; refinement of `PageStore` |
| `kvcache_locking` | 2 threads, pages 0 and 1, sizes 0 (before `init()`) and 2, 2 buffers, `Wrap` 8 | account, addresses, overruns, the self-deadlock, and that nothing else keeps a call from returning |
| `speculative_decoding` | 2 tokens, prompts of length 0 and 1, drafts up to 2, up to 3 new tokens | context, count, order (refinement of `Decoder`), return |
| `speculative_bonus` | the same | *violation*, see findings |
| `http_server` | 2 workers, 2 clients, a handled and a fixed path | shutdown, what becomes of the connections, late connections, waiting |
| `http_port_unserved` | 1 worker, 1 client | *violation*, see findings |
| `trainer` | 3 batches (any subset empty), windows of 2, save every 2nd, `max_steps` 4, 1 crash | steps, windows, checkpoints, termination |
| `trainer_clipping` | the same | *violation*, see findings |
| `ggml_graph` | 3 tensors, 2 sources each, graph of 2 nodes and 2 leafs, both orders | order, uniqueness, completeness, use counts, flags, capacity |
| `ggml_backward` | every graph of 2 operations over five sets of parameters, inputs, row numbers and labels with extents 1 to 4; every graph of 3 for four smaller choices of operations; 1 loss or 2 | gradients are derivatives, add up over evaluations, stay in their memory and final; what ends in an assertion |
| `gpu_kernels` | streams of one to three launches of every kernel: warps and tiles of 2, blocks of a few threads, sizes below, at and above a multiple of the block | every order of the threads: interference, results, accesses outside the arrays, barriers not all threads reach |
| `model_files` | 4 calls of a tokenizer, three texts, vocabularies of 3 and 6; 2 loads and any number of reads of nineteen files, two formats | ids, both directions of the vocabulary, encoding; what the loaders answer for whole, cut, flawed and misread files |

Why the bounds suffice. *Paged*: with two blocks both the pop from a list of two
and from a list of one, the rebuild of an empty list and the refusal occur; three
page ids make ids and blocks differ; one `clear()` makes every handle old. Two
clients are needed for aliasing, and two values with two positions for a wrong
copy. Two of the three shapes of a block have the same length and other rows; that rows
of any width do not overlap is proved (`RowsApart`). *KVCache*: two threads are one in `evict_lru()` and one waiting, or the two
appends that overrun together; page 0 and one other are the two cases of the
code; a page from before the first `init()` counts 0 and gives back 2, so the account
goes below 0 and wraps. *Speculative*: a draft
of two has a rejection at the first, at the last, and nowhere; the allowance 3 is
not a multiple of it. *HTTP*: with two workers one is held by a
client that is silent for ever, or has left its loop, while the other accepts; with two clients
one waits at a port while its worker serves the other. *Trainer*: 3 batches against windows
of 2 make windows span epochs, `max_steps` 4 is met in the middle of an epoch.
*Graph*: with three tensors a tensor is shared by two others, repeated as both
sources of one, visited by an unselected branch first, and a graph of size 2 is
both large enough and too small; the theorems lift all five of its invariants to
every size. *Backward*: two operations are one under test and one
that hands it a gradient or a source that is no leaf; the shapes have an operand that is
smaller in dimension 1, 2 or 3 for the broadcasts, and two batches against one
and four for the grouping in `mul_mat`, and a program with batches in dimension 4,
where a product is refused; three operations of those that move
elements give views of views and gradients that are transposed when they are added
to; the last instance has two losses, one of which may be computed from the other.
Without any one of the conditions and of the disjuncts of `Refuses` of 3.7 the run fails.
Every instance is run with each choice of accumulators. *Kernels*: a warp and a tile of
2 have a first and a last lane; two warps, two tiles and two blocks are the cases in
which something is carried from one to the next; each condition of `Racy`, `Fits`,
`Overruns` and `Divergent` has launches on both sides of it. *Tokenizer*: the texts
have codes that are ids (4 and 5), that are none (20 and 21), and -1; four calls are
training, saving, training again and loading what was saved; six entries are two
characters, what `operator[]` adds and two merges. *Files*: each header is cut in
front of the magic, within the keys and within the tensors, and the data by one cell;
two loads are the second on an open stream; a key of each type that is misread stands
before the tensors.

### Findings

1. `s.ii:60`: a draft whose **last** token is rejected and replaced has the length
   of a fully accepted draft, and the bonus token is generated
   (`BonusOnlyAfterFullAcceptance`).
2. `http.ii:80`: nobody accepts on the port the server announces (`PortIsServed`):
   the listening socket of `start()` is open, so the workers' `bind()` to the same
   port fails, and its result is not looked at.
3. `train.ii:161`: gradient clipping scales a copy (`UpdatesClipped`).

### Fairness

- `SpeculativeDecoder!FairSpec`: weak fairness of the only thread, and strong
  fairness of `Accept`: a coin tossed for ever is not always tails. Without it a
  target model that never answers keeps `generate()` in its loop for ever.
- `KVCache!FairSpec`: weak fairness of a method that was called. A `std::mutex` promises
  no order; what is assumed is only that a waiting thread is not passed over for ever.
- `HTTPServer!FairSpec`: weak fairness of `main` and of each worker (kernel
  threads); strong fairness of `Accept` (an `accept()` that may fail, e.g. by a
  client's abort, does not fail for ever while a connection is there). Nothing is
  assumed of clients, signals, connects and failures.
- `Trainer!FairSpec`: weak fairness of the loop's thread only.
- The other specifications state safety only.

## 5. The proofs

| Module | Theorems | Argument |
|---|---|---|
| `PagedAttentionProofs` | `BlocksAccounted`, `TypeCorrect`, `FreeListAgrees`, `PagesPartitionBlocks`, `PageIdsUnique`, `KeepingTheRulesSuffices`, `PagesArePrivate` | `IInv == TypeOK /\ FreeListExact /\ MappingExact` is inductive; each conjunct needs the others: popping a block keeps the mapping injective only because the list has no duplicates and lists free blocks only. `HandlesInv` (a handle of this `clear()` has an id below the counter) gives the uniqueness of ids. `RulesInv` adds that the newest block has `row_ * block_size_` cells: a client that writes past its block then holds an older block, of another length; that a page somebody holds is mapped follows from `HandlesInv`, since only the holder of a current id other than 0 can free it. `PagesArePrivate` is the refinement of `PageStore`, one lemma per method: what a page reads depends on its own block only, and the block of a page allocated is not that of another; for a write, `RowsApart`: a row is among the cells of consecutive rows only when it is one of them. |
| `KVCacheProofs` | `TypeCorrect`, `StuckIsEviction`, `OverrunIsARace`, `AccountIsExact`, `AddressesAreStable` | `LockInv`: a held mutex belongs to a thread with a pending `free_block` of a page. `RoomInv`: all rooms equal `max_seq_` unless `resized`, and a pending append fits the page its caller saw. `AccountInv` relates `used_memory_` to the number of pages; the counter wraps, so a step is a lemma on `%`. |
| `SpeculativeDecoderProofs` | `TypeCorrect`, `ContextNeverDrifts`, `AllowanceOvershotByOne`, `GenerateIsADecoder` | the context invariant is what makes every step a step of `Decoder` or a stutter. |
| `HTTPServerProofs` | `TypeCorrect`, `OneMoreConnection`, `StopLeavesNothing` | `LateInv`: a worker that took a late connection is behind its last test of `running_`. `StopLeavesNothing` follows a connection through the server: it waits in one queue or one worker has it, has its one answer when that worker closes it (`ShapeInv` and what becomes of a connection), and no worker is joined before it is out of its loop. The types need `ListenInv`, which relates who listens to where the process is. |
| `TrainerProofs` | `TypeCorrect`, `StepsStayBounded`, `AtMostOneLateStep`, `WindowsStayFull`, `CheckpointsStayWhole` | `StepsInv` relates the step count and the batch index; `WindowInv` is `accum` as a function of `global_step`, with two lemmas on `%`; `WholeInv` says that weights and moments differ only in a tainted process. |
| `GgmlGraphProofs` | `SourcesComeFirst`, `NothingTwice`, `WalkAccounted`, `NothingLost`, `UsesAreCounted`, `FlagReachesAll` | `WalkInv`: every frame of the stack has its sources below `next` done, frames of new tensors are visited and not done, and the tensors decrease along the stack, so that no frame repeats. `FullInv` adds: `CompleteInv` (what is done has its sources done, and what is visited is in every set that contains what was built and is closed under sources), `UseInv` (a use count is the number of positions that finished tensors and the frames of the stack have passed) and `FlagInv` (a source of a flagged operation is flagged, or a loop under way still comes to it). |
| `GgmlBackwardProofs` | `TypeCorrect`, `Final`, `AbortsForeseen`, `GradientsAreOfShape`, `GradientsStayInside`, `PartsStayInside` | Every tensor, of any operation, has sources made before it (`SourcesComeFirst`, one lemma per family of constructors), so a node contributes only to tensors below the cursor; `needed` contains losses and parameters, so what gets a gradient is marked. `AbortsInv`: what the forward constructors asserted of a tensor and its sources is kept, by operation; from it follows, by operation, that the expressions of its backward rule pass the assertions of their constructors, unless `Refuses` names the node, and have the shape of the source (`Serves`). Every gradient then keeps the shape of its tensor, and its offset and number of elements stay within the memory it lies in. That no leaf but a parameter is marked follows from `needed` being the least set with its closure. `InsideInv` is for the last two: the tensors of the program fit in their memory and the blocks of `acc` and `set` have a place in their tensor (`ReachInv`), and every gradient is `Sane`: unless an assertion turns it down, some set of tensors that all fit has it and, with each, its sources (`Safe`). |
| `ModelFilesProofs` | `LoadersAnswer`, `TokenizersVocabulary`, `EncodersWords` | `StreamInv` says what the stream of a loader stands for: while it is good it has the file that was asked for last, and either the tables are those of that file, but for the places of tensors without offsets, or its header was read out of place; after a second `load()`, or a read that failed where nothing was out of place, it is never good again. `TokenizerInv` has two parts. `Good`: while no code is an id or the next one (`Free`), every id is a code or less than the number of entries (`Dense`), so that the next number is new and `reverse_vocab_` stays right (`Exact`). `WordsFit`: the tokens of the words are codes and ids of merged pairs, equal ones stand for the same text, and those that are in the vocabulary are found under an empty string. `EncoderInv`: `merges_` holds natural numbers only, so a turn of `bpe_merge()` brings no -1 in. A turn that replaces a pair makes the word shorter and is a sequence of single replacements; after as many turns as the word is long no rule applies, unless the word had a -1. |

`LoadersAnswer` is about `LoaderSpec`, the other two are about `TokenizerSpec`; the run
puts the two machines side by side, a step of one leaves the other as it is. Their
operators (`Size`, `Frequency`, `Occurrences`, `Kept`, `Merged`, `bpe_merge`,
`Rewritten`) are recursive functions on an interval of the numbers. No induction scheme
is needed for what they return: that such a function exists (`LoopRuns`), and what it
keeps, holds because the numbers at which it fails have no least one (`LeastNatural`,
`Upwards`). `EncodersWords` states more than the run's property, which looks at words
of three characters: it is about words of any length.

`GradientsInside` speaks of all the tensors a gradient is made from (`Parts`), down to
`Height` = five tensors per node; `PartsStayInside` says it of any depth and at every
step of the walk. What is not obvious is the two views with strides nobody asserts. The
block that `ggml_acc()` or `ggml_set()` put into a tensor is read from its gradient
with the strides and the offset of the forward operation: it reaches no further than
that tensor has elements (`Placed`), and a gradient has room for as many behind its
offset. The view that regroups the batches of a matrix product
(`Grouped`) takes every `nr2`th matrix of a packed tensor: it reaches exactly its last
element, because the extent of the product is a multiple of that of the operand. The
proof needs no case of `Refuses`: what an assertion turns down is not read.

The assumptions are the named `ASSUME`s of the modules and nothing else; TLC
evaluates them in every run. The theorems hold for any number of clients, threads,
workers, blocks, tokens, batches and tensors; the bounds of the instances
(`MaxBlocks`, `MaxClears`, `Programs`, ...) are constants in them like any other.
The type invariants are proved, each as `TypeCorrect`, and therefore no run spends
time on them; that of `GgmlGraph` is the
first part of `FullInv` (`TensorsInv`, `GraphInv`, `StackInv`).

An attempt that failed changed the model: `AbortsAreForeseen` was false for batches in
dimension 4, which no program of the run had. `Refuses` has that case now
(`BroadcastOverTwo`), and the run a program with it.

Only model-checked:

- liveness (`CallsReturn`, `Returns`, `WaitingIsResolved`,
  `StopWaitsForClientsOnly`, `TrainReturns`): TLAPS has no rules for fairness and ENABLED here;
- `GradientIsDerivative` and `GradientsAddUp`: they evaluate a graph and its gradients,
  and the operators that do so (`Gradient`, `Derivative`, ... in `GgmlValues`) are
  RECURSIVE, about which the prover can show nothing;
- `OrderForeseen`, `ResultForeseen`, `StraysForeseen` and `DivergenceForeseen`: what
  the kernels compute is a fold over the bags of a launch, and the conditions they are
  compared with (`Racy`, `Fits`, ...) were found by looking at launches of all sizes
  the bounds allow.

## 6. What is not modelled

`PROJECT.json` lists every component with the reason. In short: `generate()` of
`InferenceEngine` (`i.ii`) hands a `vector<int>` to functions that take `float*` (77-82)
and does not compile, and the samplers have no other caller; of the kernels, those of
`bn.cu`, `mmb.cu`, `ra.cu`, `ss.cu` and `fk12.cu` do not compile (an undeclared or twice
declared name, `rand()` on the device, `blockIdx.w`), those of `kvcp.cu` and `fa2b.cu`
store no result, and two that do compile and store are left out all the same: `tll.cu`,
whose results come from registers it leaves unset for rows at or behind `seq`, and
`gather_nd` of `sg.cu`, whose offset takes `batch` for the stride of every dimension; the backend headers and
`nova.h` declare functions of a library that is not here; `torch.py` repeats the
training loop of `train.ii` in PyTorch. In modelled components: the V side of `PagedAttention` (no method), the
getters, the JSON bodies of HTTP requests, learning-rate schedule and evaluation
of the trainer; of the backward pass, rope, im2col, `pool_2d`, ALiBi slopes,
`ggml_cast()`, forward operations in place and types other than `f32` and the
`i32` of row numbers. Dead code is left out: `PagedAttention`'s use and reference
counts, `KVCache`'s LRU stamps, `early_stop_` (its setter has no definition),
`sample_token()` and `compute_acceptance_prob()` of the speculative decoder. Of numbers,
rounding, overflow and `NaN` are left out everywhere but for the `NaN` of
`llama_forward()`; of strings, what is in them, but for the tokenizer's.

## 7. Plan

Done: `PagedAttention`, `KVCache`, `SpeculativeDecoder`, `HTTPServer`, `Trainer`,
`GgmlGraph`, `GgmlOps` with `GgmlBackward`, each with its proofs, and `GgmlValues`, in
this order: shared state first, then threads, then the loops, then the library
under them; then the kernels and the numerical code of the host, the tokenizer and
the loaders, of which the last two have their proofs as well.

Next, in this order:

1. Proofs: the pointwise kernels, whose threads do not work together, store inside
   their arrays and are free of interference for every launch.
2. **GgmlArena** (`ggml.c` 1560-1810): objects of a context, alignment, the size
   products (overflow), views into other tensors. Theorem: objects are disjoint.
3. More of **GgmlOps**: the forward operations without a backward pass
   (convolutions, padding, attention), `rope` and the pooling operations with theirs.
4. Interference-freedom of the tiled kernels and the reductions for every width of a
   block, as theorems about `GpuKernels`.

A new run should replace weaker properties rather than be put beside them, and what is
proved for every size need not be run again.
