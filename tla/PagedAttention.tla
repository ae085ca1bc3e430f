--------------------------- MODULE PagedAttention ---------------------------
(***************************************************************************)
(* The paged K/V store of core/nova_paged_attention.cpp                    *)
(* (src/main/remaining/pa.ii): logical pages mapped to physical blocks     *)
(* that are handed out from a free list.  The class has no lock, so every  *)
(* method is one step; what interleaves are the calls of several clients   *)
(* (sequences) that share one instance and keep the page ids they were     *)
(* given.                                                                  *)
(*                                                                         *)
(* A block is a flat array; position i is the row of cells that begins at  *)
(* i times the width of a row, num_heads_ * head_dim_.  The width and the  *)
(* number of rows are those of the last init(), also for the blocks of an  *)
(* earlier one.  A client writes a row as one value of Values, repeated.   *)
(* Only the K side is modelled, the V side has no method in the source.    *)
(***************************************************************************)
EXTENDS Integers, Sequences, FiniteSets

CONSTANTS Clients,     (* the callers that share the instance               *)
          Values,      (* what a client may store in a cell                 *)
          Blank,       (* what resize() leaves in a cell                    *)
          Shapes,      (* what init() is called with: <<num_heads * head_dim,*)
                       (* block_size>>                                      *)
          MaxBlocks,   (* bound: blocks created between two clear()s        *)
          MaxPages,    (* bound: pages allocated between two clear()s       *)
          MaxSeqLen,   (* bound: the seq_len counter of a page              *)
          MaxClears    (* bound: calls of clear()                           *)

ASSUME BoundsAssumption ==
    /\ Shapes \subseteq (Nat \ {0}) \X (Nat \ {0})
    /\ MaxBlocks \in Nat
    /\ MaxPages \in Nat
    /\ MaxSeqLen \in Nat
    /\ MaxClears \in Nat

ASSUME BlankAssumption == Blank \notin Values

VARIABLES
    logical_pages_,    (* page id -> [physical_block, seq_len, written]     *)
    physical_blocks_,  (* block id -> [free, k_cache]                       *)
    free_list_,        (* a stack of block ids, the top is the last         *)
    next_page_id_,
    next_block_id_,
    block_size_,
    row_,              (* num_heads_ * head_dim_                            *)
    held,              (* client -> the handles it was given and not freed  *)
    clears,            (* how often clear() ran                             *)
    overrun,           (* blocks some set_k() wrote past the end of         *)
    stray              (* a client freed through a handle older than clear()*)

vars == <<logical_pages_, physical_blocks_, free_list_, next_page_id_,
          next_block_id_, block_size_, row_, held, clears, overrun, stray>>

-----------------------------------------------------------------------------
Empty == [x \in {} |-> x]

Widths     == {shape[1] : shape \in Shapes}
BlockSizes == {shape[2] : shape \in Shapes}
PageSizes  == {shape[1] * shape[2] : shape \in Shapes}

(* What a client remembers of a call of allocate_page(): the id it         *)
(* returned, and (a ghost) how many clear()s had run.                      *)
Handle == [id : Nat, since : 0 .. MaxClears]

Current(h) == h.since = clears

Front(s) == [i \in 1 .. Len(s) - 1 |-> s[i]]
Top(s)   == s[Len(s)]
Elems(s) == {s[i] : i \in 1 .. Len(s)}

FreeBlocks == {b \in DOMAIN physical_blocks_ : physical_blocks_[b].free}

(* The free list defragment() builds: the free blocks, sorted.             *)
SortedFree == {s \in [1 .. Cardinality(FreeBlocks) -> FreeBlocks] :
                 /\ Elems(s) = FreeBlocks
                 /\ \A i, j \in DOMAIN s : i < j => s[i] < s[j]}

Init ==
    /\ logical_pages_ = Empty
    /\ physical_blocks_ = Empty
    /\ free_list_ = <<>>
    /\ next_page_id_ = 0
    /\ next_block_id_ = 0
    /\ block_size_ = 0
    /\ row_ = 0
    /\ held = [c \in Clients |-> {}]
    /\ clears = 0
    /\ overrun = {}
    /\ stray = FALSE
-----------------------------------------------------------------------------
(* Mutated form: the page size is computed before block_size_ is assigned. *)
InitBlocksStaleSize(width, size, n) ==
    /\ next_block_id_ + n <= MaxBlocks
    /\ block_size_' = size
    /\ row_' = width
    /\ physical_blocks_' =
         [b \in 0 .. next_block_id_ + n - 1 |->
            IF b \in DOMAIN physical_blocks_ THEN physical_blocks_[b]
            ELSE [free |-> TRUE, k_cache |-> [i \in 0 .. width * block_size_ - 1 |-> Blank]]]
    /\ free_list_' = free_list_ \o [i \in 1 .. n |-> next_block_id_ + i - 1]
    /\ next_block_id_' = next_block_id_ + n
    /\ UNCHANGED <<logical_pages_, next_page_id_, held, clears, overrun, stray>>

(* init(): the new blocks get the next ids and go on top of the free list. *)
(* Nothing is released: a second init() adds to what is there, the blocks  *)
(* of the first keep the size they were created with, and their pages are  *)
(* from now on addressed with the new width.                               *)
InitBlocks(width, size, n) ==
    /\ next_block_id_ + n <= MaxBlocks
    /\ block_size_' = size
    /\ row_' = width
    /\ physical_blocks_' =
         [b \in 0 .. next_block_id_ + n - 1 |->
            IF b \in DOMAIN physical_blocks_ THEN physical_blocks_[b]
            ELSE [free |-> TRUE, k_cache |-> [i \in 0 .. width * size - 1 |-> Blank]]]
    /\ free_list_' = free_list_ \o [i \in 1 .. n |-> next_block_id_ + i - 1]
    /\ next_block_id_' = next_block_id_ + n
    /\ UNCHANGED <<logical_pages_, next_page_id_, held, clears, overrun, stray>>

(* clear(), also the destructor: both id counters start again at 0.        *)
Clear ==
    /\ clears < MaxClears
    /\ logical_pages_' = Empty
    /\ physical_blocks_' = Empty
    /\ free_list_' = <<>>
    /\ next_page_id_' = 0
    /\ next_block_id_' = 0
    /\ clears' = clears + 1
    /\ overrun' = {}
    /\ UNCHANGED <<block_size_, row_, held, stray>>

Return(c, id) ==
    held' = [held EXCEPT ![c] = @ \cup {[id |-> id, since |-> clears]}]

(* The page that goes under a new id.                                      *)
AddPage(id, b) ==
    logical_pages_' = [p \in DOMAIN logical_pages_ \cup {id} |->
                         IF p = id
                         THEN [physical_block |-> b, seq_len |-> 0, written |-> {}]
                         ELSE logical_pages_[p]]

(* Mutated form: the block is not popped from the free list.               *)
PopIntoPeeks(c, fl) ==
    LET b == Top(fl)
    IN  /\ free_list_' = fl
        /\ physical_blocks_' = [physical_blocks_ EXCEPT ![b].free = FALSE]
        /\ AddPage(next_page_id_, b)
        /\ next_page_id_' = next_page_id_ + 1
        /\ Return(c, next_page_id_)

(* Mutated form: the block is not marked as in use.                        *)
PopIntoStaysFree(c, fl) ==
    LET b == Top(fl)
    IN  /\ free_list_' = Front(fl)
        /\ AddPage(next_page_id_, b)
        /\ next_page_id_' = next_page_id_ + 1
        /\ Return(c, next_page_id_)
        /\ UNCHANGED physical_blocks_

(* Mutated form: the number of pages is taken as the next id.              *)
PopIntoReusesIds(c, fl) ==
    LET b == Top(fl)
        id == Cardinality(DOMAIN logical_pages_)
    IN  /\ free_list_' = Front(fl)
        /\ physical_blocks_' = [physical_blocks_ EXCEPT ![b].free = FALSE]
        /\ AddPage(id, b)
        /\ next_page_id_' = next_page_id_ + 1
        /\ Return(c, id)

(* allocate_page() with a block on the (possibly rebuilt) free list fl.    *)
PopInto(c, fl) ==
    LET b == Top(fl)
    IN  /\ free_list_' = Front(fl)
        /\ IF b \in DOMAIN physical_blocks_
           THEN /\ physical_blocks_' = [physical_blocks_ EXCEPT ![b].free = FALSE]
                /\ AddPage(next_page_id_, b)
                /\ next_page_id_' = next_page_id_ + 1
                /\ Return(c, next_page_id_)
           ELSE /\ UNCHANGED <<physical_blocks_, logical_pages_, next_page_id_>>
                /\ Return(c, 0)

(* allocate_page(): an empty free list is rebuilt first; when it is still  *)
(* empty the answer is 0, which is also the id of the first page.          *)
AllocatePage(c) ==
    /\ next_page_id_ < MaxPages
    /\ \E fl \in IF free_list_ = <<>> THEN SortedFree ELSE {free_list_} :
         IF fl = <<>>
         THEN /\ free_list_' = fl
              /\ UNCHANGED <<physical_blocks_, logical_pages_, next_page_id_>>
              /\ Return(c, 0)
         ELSE PopInto(c, fl)
    /\ UNCHANGED <<next_block_id_, block_size_, row_, clears, overrun, stray>>

(* free_page(): an unknown id is ignored.                                  *)
FreePage(c, h) ==
    /\ h \in held[c]
    /\ held' = [held EXCEPT ![c] = @ \ {h}]
    /\ IF h.id \in DOMAIN logical_pages_
       THEN LET b == logical_pages_[h.id].physical_block IN
            /\ IF b \in DOMAIN physical_blocks_
               THEN /\ physical_blocks_' = [physical_blocks_ EXCEPT ![b].free = TRUE]
                    /\ free_list_' = Append(free_list_, b)
               ELSE UNCHANGED <<physical_blocks_, free_list_>>
            /\ logical_pages_' = [p \in DOMAIN logical_pages_ \ {h.id} |-> logical_pages_[p]]
       ELSE UNCHANGED <<physical_blocks_, free_list_, logical_pages_>>
    /\ stray' = (stray \/ ~Current(h))
    /\ UNCHANGED <<next_page_id_, next_block_id_, block_size_, row_, clears, overrun>>

(* The memcpy() of set_k(), as far as the block reaches.                   *)
Copied(blk, cells, v) ==
    [blk EXCEPT !.k_cache =
       [i \in DOMAIN blk.k_cache |-> IF i \in cells THEN v ELSE blk.k_cache[i]]]

Grown(page, len, span) ==
    [physical_block |-> page.physical_block,
     seq_len |-> page.seq_len + len,
     written |-> page.written \cup span]

(* set_k(): len positions from pos on, unchecked; seq_len grows by len also*)
(* when positions are written again.  Clients stay within block_size_, the *)
(* size they know; a block from before a larger init() is shorter.         *)
SetK(c, h, pos, len, v) ==
    /\ h \in held[c]
    /\ Current(h)
    /\ h.id \in DOMAIN logical_pages_
    /\ pos + len <= block_size_
    /\ LET page == logical_pages_[h.id]
           b == page.physical_block
           span == pos .. pos + len - 1
           cells == pos * row_ .. (pos + len) * row_ - 1
       IN  /\ page.seq_len + len <= MaxSeqLen
           /\ b \in DOMAIN physical_blocks_
           /\ physical_blocks_' = [physical_blocks_ EXCEPT ![b] = Copied(@, cells, v)]
           /\ logical_pages_' = [logical_pages_ EXCEPT ![h.id] = Grown(@, len, span)]
           /\ overrun' = IF cells \subseteq DOMAIN physical_blocks_[b].k_cache
                         THEN overrun ELSE overrun \cup {b}
    /\ UNCHANGED <<free_list_, next_page_id_, next_block_id_, block_size_, row_,
                   held, clears, stray>>

(* Mutated form: the old free list is not cleared first.                   *)
DefragmentAppends ==
    /\ \E s \in SortedFree : free_list_' = free_list_ \o s
    /\ UNCHANGED <<logical_pages_, physical_blocks_, next_page_id_,
                   next_block_id_, block_size_, row_, held, clears, overrun, stray>>

(* defragment(): despite its name it moves no page.                        *)
Defragment ==
    /\ free_list_' \in SortedFree
    /\ UNCHANGED <<logical_pages_, physical_blocks_, next_page_id_,
                   next_block_id_, block_size_, row_, held, clears, overrun, stray>>

Next ==
    \/ \E shape \in Shapes, n \in 1 .. MaxBlocks : InitBlocks(shape[1], shape[2], n)
    \/ Clear
    \/ \E c \in Clients : AllocatePage(c)
    \/ \E c \in Clients : \E h \in held[c] : FreePage(c, h)
    \/ \E c \in Clients : \E h \in held[c], pos \in 0 .. block_size_ - 1,
          len \in 1 .. block_size_, v \in Values : SetK(c, h, pos, len, v)
    \/ Defragment

Spec == Init /\ [][Next]_vars
-----------------------------------------------------------------------------
Page == [physical_block : Nat, seq_len : Nat, written : SUBSET Nat]

Block == UNION {[free : BOOLEAN, k_cache : [0 .. size - 1 -> Values \cup {Blank}]] :
                  size \in PageSizes}

(* Every variable keeps the shape the class declares for it, and block ids *)
(* are dense: the blocks are those created since the last clear().         *)
TypeOK ==
    /\ DOMAIN logical_pages_ \subseteq 0 .. next_page_id_ - 1
    /\ logical_pages_ \in [DOMAIN logical_pages_ -> Page]
    /\ physical_blocks_ \in [0 .. next_block_id_ - 1 -> Block]
    /\ free_list_ \in Seq(Nat)
    /\ next_page_id_ \in Nat
    /\ next_block_id_ \in Nat
    /\ <<row_, block_size_>> \in Shapes \cup {<<0, 0>>}
    /\ held \in [Clients -> SUBSET Handle]
    /\ clears \in 0 .. MaxClears
    /\ overrun \subseteq DOMAIN physical_blocks_
    /\ stray \in BOOLEAN

(* The free list that allocate_page(), free_page(), defragment() and       *)
(* init() each maintain on their own agrees with the free flags of the     *)
(* blocks and lists no block twice: no block is handed out twice.          *)
FreeListExact ==
    /\ Elems(free_list_) = FreeBlocks
    /\ \A i, j \in 1 .. Len(free_list_) : i # j => free_list_[i] # free_list_[j]

(* Every page is backed by a block that is not free, no two pages share a  *)
(* block, and every block that is not free backs a page: none is leaked.   *)
MappingExact ==
    /\ \A p \in DOMAIN logical_pages_ :
         logical_pages_[p].physical_block \in DOMAIN physical_blocks_ \ FreeBlocks
    /\ \A p, q \in DOMAIN logical_pages_ :
         p # q => logical_pages_[p].physical_block # logical_pages_[q].physical_block
    /\ \A b \in DOMAIN physical_blocks_ \ FreeBlocks :
         \E p \in DOMAIN logical_pages_ : logical_pages_[p].physical_block = b

(* Two clients are given the same page by allocate_page() only as page 0,  *)
(* the value it also returns when it fails.                                *)
AliasedOnlyAsZero ==
    \A c, d \in Clients : \A h \in held[c] \cap held[d] :
       c # d /\ Current(h) => h.id = 0

(* A page a client still holds is there until the client frees it, unless  *)
(* some client freed through a handle from before a clear(), whose id      *)
(* next_page_id_ has reused since.                                         *)
HeldPagesLive ==
    stray \/ \A c \in Clients : \A h \in held[c] :
               Current(h) /\ h.id # 0 => h.id \in DOMAIN logical_pages_

(* Clients that respect the block_size of the last init() write past the   *)
(* end of a block only if a later init() made larger blocks.               *)
OverrunNeedsLargerInit ==
    \A b \in overrun : \E d \in DOMAIN physical_blocks_ :
       /\ b < d
       /\ DOMAIN physical_blocks_[b].k_cache # DOMAIN physical_blocks_[d].k_cache

(* No client loses a page it holds, other than page 0, and nobody writes   *)
(* past a block, as long as nobody uses a handle from before a clear() and *)
(* no init() changes the size of blocks.                                   *)
RulesSuffice == HeldPagesLive /\ OverrunNeedsLargerInit

(* The row get_k() points at for position i.                               *)
Row(k_cache, i) == [j \in 0 .. row_ - 1 |-> k_cache[i * row_ + j]]

Reaches(k_cache, i) == \A j \in 0 .. row_ - 1 : i * row_ + j \in DOMAIN k_cache

(* What a client can read back: the rows of the positions it wrote, where  *)
(* get_k() looks for them now.                                             *)
Readable ==
    [p \in DOMAIN logical_pages_ |->
       LET k_cache == physical_blocks_[logical_pages_[p].physical_block].k_cache
       IN  [i \in {i \in logical_pages_[p].written : Reaches(k_cache, i)} |->
              Row(k_cache, i)]]

Rows == UNION {[0 .. width - 1 -> Values] : width \in Widths}

Pages == INSTANCE PageStore
           WITH contents <- Readable,
                PageIds <- 0 .. MaxPages - 1,
                capacity <- next_block_id_,
                Values <- Rows,
                Positions <- UNION {0 .. size - 1 : size \in BlockSizes}

(* A step of init() that gives the rows of a page in use another width: it *)
(* moves every row but the first.                                          *)
Reshapes ==
    row_' # row_ /\ \E p \in DOMAIN logical_pages_ : logical_pages_[p].written # {}

(* The paged store implements private pages: what a client reads back is   *)
(* what was last written through that page, whatever happens to others, as *)
(* long as no set_k() has written past the end of its block.  The one step *)
(* that changes what pages read as without a write is an init() that gives *)
(* their rows another width.                                               *)
ImplementsPageStore ==
    /\ Pages!PagesInit
    /\ [][overrun' # {} \/ Reshapes \/ Pages!PagesNext]_<<Readable, next_block_id_>>
=============================================================================
