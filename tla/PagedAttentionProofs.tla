------------------------ MODULE PagedAttentionProofs ------------------------
(***************************************************************************)
(* The block bookkeeping of the paged store, for every set of clients and  *)
(* every bound.  The free list and the page table are each other's         *)
(* complement: neither statement is inductive without the other, because   *)
(* free_page() pushes a block that only MappingExact shows to be off the   *)
(* list, and allocate_page() pops one that only FreeListExact shows to be  *)
(* free.                                                                   *)
(***************************************************************************)
EXTENDS PagedAttention, FiniteSetTheorems, SequenceTheorems, TLAPS

IInv == TypeOK /\ FreeListExact /\ MappingExact

(* Popping the top of a list without repetitions removes just that element.*)
LEMMA PopElems ==
    ASSUME NEW s \in Seq(Nat), s # <<>>,
           \A i, j \in 1 .. Len(s) : i # j => s[i] # s[j]
    PROVE  /\ Front(s) \in Seq(Nat)
           /\ Len(Front(s)) = Len(s) - 1
           /\ \A i \in 1 .. Len(s) - 1 : Front(s)[i] = s[i]
           /\ Top(s) \in Elems(s)
           /\ Elems(Front(s)) = Elems(s) \ {Top(s)}
<1>1. Len(s) \in Nat /\ Len(s) # 0
  OBVIOUS
<1>2. /\ Front(s) \in Seq(Nat)
      /\ Len(Front(s)) = Len(s) - 1
      /\ \A i \in 1 .. Len(s) - 1 : Front(s)[i] = s[i]
  BY <1>1 DEF Front
<1>3. Top(s) \in Elems(s)
  BY <1>1 DEF Top, Elems
<1>4. Elems(Front(s)) = Elems(s) \ {Top(s)}
  <2>1. ASSUME NEW e \in Elems(Front(s)) PROVE e \in Elems(s) \ {Top(s)}
    <3>1. PICK i \in 1 .. Len(s) - 1 : e = s[i]
      BY <1>2 DEF Elems
    <3>2. i \in 1 .. Len(s) /\ Len(s) \in 1 .. Len(s) /\ i # Len(s)
      BY <1>1
    <3>3. QED
      BY <3>1, <3>2 DEF Elems, Top
  <2>2. ASSUME NEW e \in Elems(s), e # Top(s) PROVE e \in Elems(Front(s))
    <3>1. PICK i \in 1 .. Len(s) : e = s[i]
      BY DEF Elems
    <3>2. i \in 1 .. Len(s) - 1
      BY <1>1, <2>2, <3>1 DEF Top
    <3>3. QED
      BY <1>2, <3>1, <3>2 DEF Elems
  <2>3. QED
    BY <2>1, <2>2
<1>5. QED
  BY <1>2, <1>3, <1>4

(* Pushing a new element.                                                  *)
LEMMA PushElems ==
    ASSUME NEW s \in Seq(Nat), NEW e \in Nat
    PROVE  /\ Append(s, e) \in Seq(Nat)
           /\ Elems(Append(s, e)) = Elems(s) \cup {e}
<1>1. /\ Append(s, e) \in Seq(Nat)
      /\ Len(Append(s, e)) = Len(s) + 1
      /\ Len(s) \in Nat
      /\ Append(s, e)[Len(s) + 1] = e
      /\ \A i \in 1 .. Len(s) : Append(s, e)[i] = s[i]
  OBVIOUS
<1>2. ASSUME NEW x \in Elems(Append(s, e)) PROVE x \in Elems(s) \cup {e}
  <2>1. PICK i \in 1 .. Len(s) + 1 : x = Append(s, e)[i]
    BY <1>1 DEF Elems
  <2>2. CASE i = Len(s) + 1
    BY <1>1, <2>1, <2>2
  <2>3. CASE i \in 1 .. Len(s)
    BY <1>1, <2>1, <2>3 DEF Elems
  <2>4. QED
    BY <1>1, <2>2, <2>3
<1>3. ASSUME NEW x \in Elems(s) \cup {e} PROVE x \in Elems(Append(s, e))
  <2>1. CASE x = e
    <3>1. Len(s) + 1 \in 1 .. Len(Append(s, e))
      BY <1>1
    <3>2. QED
      BY <1>1, <2>1, <3>1 DEF Elems
  <2>2. CASE x \in Elems(s)
    <3>1. PICK i \in 1 .. Len(s) : x = s[i]
      BY <2>2 DEF Elems
    <3>2. i \in 1 .. Len(Append(s, e)) /\ Append(s, e)[i] = x
      BY <1>1, <3>1
    <3>3. QED
      BY <3>2 DEF Elems
  <2>3. QED
    BY <2>1, <2>2, <1>3
<1>4. QED
  BY <1>1, <1>2, <1>3

(* What defragment() puts into the free list: the free blocks, each once.  *)
LEMMA SortedFreeIsList ==
    ASSUME TypeOK, NEW s \in SortedFree
    PROVE  /\ s \in Seq(Nat)
           /\ Elems(s) = FreeBlocks
           /\ \A i, j \in 1 .. Len(s) : i # j => s[i] # s[j]
<1>1. IsFiniteSet(FreeBlocks) /\ FreeBlocks \subseteq Nat
  <2>1. IsFiniteSet(0 .. next_block_id_ - 1)
    <3>1. 0 \in Int /\ next_block_id_ - 1 \in Int
      BY DEF TypeOK
    <3>2. QED
      BY <3>1, FS_Interval
  <2>2. FreeBlocks \subseteq 0 .. next_block_id_ - 1
    BY DEF TypeOK, FreeBlocks
  <2>3. QED
    BY <2>1, <2>2, FS_Subset DEF TypeOK
<1>2. Cardinality(FreeBlocks) \in Nat
  BY <1>1, FS_CardinalityType
<1>3. s \in [1 .. Cardinality(FreeBlocks) -> Nat]
  BY <1>1 DEF SortedFree
<1>4. s \in Seq(Nat) /\ Len(s) \in Nat /\ DOMAIN s = 1 .. Len(s)
  BY <1>2, <1>3, SeqDef, LenProperties
<1>5. ASSUME NEW i \in 1 .. Len(s), NEW j \in 1 .. Len(s), i # j
      PROVE  s[i] # s[j]
  <2>1. s[i] \in Nat /\ s[j] \in Nat
    BY <1>3, <1>4
  <2>2. i < j \/ j < i
    BY <1>4, <1>5
  <2>3. \A k, l \in 1 .. Len(s) : k < l => s[k] < s[l]
    BY <1>4 DEF SortedFree
  <2>4. QED
    BY <2>1, <2>2, <2>3
<1>6. Elems(s) = FreeBlocks
  BY DEF SortedFree
<1>7. QED
  BY <1>4, <1>5, <1>6

(* The shape in use is that of the last init().                            *)
LEMMA ShapeInUse ==
    ASSUME TypeOK
    PROVE  /\ row_ \in Nat /\ block_size_ \in Nat
           /\ block_size_ # 0 => row_ \in Widths /\ block_size_ \in BlockSizes
<1>1. CASE <<row_, block_size_>> = <<0, 0>>
  BY <1>1
<1>2. CASE <<row_, block_size_>> \in Shapes
  <2>1. <<row_, block_size_>> \in (Nat \ {0}) \X (Nat \ {0})
    BY <1>2, BoundsAssumption
  <2>2. /\ row_ = <<row_, block_size_>>[1]
        /\ block_size_ = <<row_, block_size_>>[2]
    OBVIOUS
  <2>3. QED
    BY <1>2, <2>1, <2>2 DEF Widths, BlockSizes
<1>3. QED
  BY <1>1, <1>2 DEF TypeOK

(* The rows of a block lie behind each other.                              *)
LEMMA RowsInOrder ==
    ASSUME NEW w \in Nat, NEW a \in Nat, NEW b \in Nat, a <= b
    PROVE  a * w \in Nat /\ a * w <= b * w
<1>1. b = a + (b - a) /\ b - a \in Nat
  OBVIOUS
<1>2. b * w = a * w + (b - a) * w
  BY <1>1
<1>3. a * w \in Nat /\ (b - a) * w \in Nat
  BY <1>1
<1>4. QED
  BY <1>2, <1>3

(* A row is among the cells of consecutive rows only when it is one of     *)
(* them, and then with all its cells.                                      *)
LEMMA RowsApart ==
    ASSUME NEW w \in Nat, NEW i \in Nat, NEW pos \in Nat, NEW len \in Nat,
           NEW j \in 0 .. w - 1
    PROVE  i * w + j \in pos * w .. (pos + len) * w - 1 <=> i \in pos .. pos + len - 1
<1>1. /\ i * w \in Nat /\ pos * w \in Nat /\ (pos + len) * w \in Nat
      /\ (i + 1) * w = i * w + w
  OBVIOUS
<1>2. CASE i < pos
  <2>1. (i + 1) * w <= pos * w
    <3>1. i + 1 \in Nat /\ i + 1 <= pos
      BY <1>2
    <3>2. QED
      BY <3>1, RowsInOrder, Zenon
  <2>2. QED
    BY <1>1, <1>2, <2>1
<1>3. CASE i \in pos .. pos + len - 1
  <2>1. pos * w <= i * w
    <3>1. pos <= i
      BY <1>3
    <3>2. QED
      BY <3>1, RowsInOrder, Zenon
  <2>2. (i + 1) * w <= (pos + len) * w
    <3>1. i + 1 \in Nat /\ pos + len \in Nat /\ i + 1 <= pos + len
      BY <1>3
    <3>2. QED
      BY <3>1, RowsInOrder, Zenon
  <2>3. QED
    BY <1>1, <1>3, <2>1, <2>2
<1>4. CASE i >= pos + len
  <2>1. (pos + len) * w <= i * w
    <3>1. pos + len \in Nat /\ pos + len <= i
      BY <1>4
    <3>2. QED
      BY <3>1, RowsInOrder, Zenon
  <2>2. QED
    BY <1>1, <1>4, <2>1
<1>5. QED
  BY <1>2, <1>3, <1>4

(* Changing the flag of a block keeps it a block.                          *)
LEMMA FlagKeepsBlock ==
    ASSUME NEW blk \in Block, NEW flag \in BOOLEAN
    PROVE  /\ [blk EXCEPT !.free = flag] \in Block
           /\ [blk EXCEPT !.free = flag].free = flag
           /\ blk.free \in BOOLEAN
<1>1. PICK size \in PageSizes :
        blk \in [free : BOOLEAN, k_cache : [0 .. size - 1 -> Values \cup {Blank}]]
  BY DEF Block
<1>2. [blk EXCEPT !.free = flag] \in
        [free : BOOLEAN, k_cache : [0 .. size - 1 -> Values \cup {Blank}]]
  BY <1>1
<1>3. QED
  BY <1>1, <1>2 DEF Block

(* defragment(): the rebuilt list agrees with the flags by construction.   *)
LEMMA DefragmentKeeps == ASSUME IInv, Defragment PROVE IInv'
<1>1. /\ free_list_' \in Seq(Nat)
      /\ Elems(free_list_') = FreeBlocks
      /\ \A i, j \in 1 .. Len(free_list_') : i # j => free_list_'[i] # free_list_'[j]
  BY SortedFreeIsList DEF IInv, Defragment
<1>2. TypeOK'
  BY <1>1 DEF IInv, Defragment, TypeOK, Handle
<1>3. FreeBlocks' = FreeBlocks
  BY DEF Defragment, FreeBlocks
<1>4. FreeListExact'
  BY <1>1, <1>3 DEF FreeListExact, Elems
<1>5. MappingExact'
  BY <1>3 DEF IInv, MappingExact, Defragment
<1>6. QED
  BY <1>2, <1>4, <1>5 DEF IInv

(* set_k(): neither list nor table moves, and the block keeps its size.    *)
LEMMA SetKKeeps ==
    ASSUME IInv, NEW c \in Clients, NEW h \in held[c], NEW pos \in Nat,
           NEW len \in Nat, NEW v \in Values, SetK(c, h, pos, len, v)
    PROVE  IInv'
<1> DEFINE b == logical_pages_[h.id].physical_block
           span == pos .. pos + len - 1
           cells == pos * row_ .. (pos + len) * row_ - 1
           blk == Copied(physical_blocks_[b], cells, v)
           page == Grown(logical_pages_[h.id], len, span)
<1>1. b \in 0 .. next_block_id_ - 1 /\ h.id \in DOMAIN logical_pages_
  BY DEF SetK, IInv, TypeOK
<1>2. /\ physical_blocks_' = [physical_blocks_ EXCEPT ![b] = blk]
      /\ logical_pages_' = [logical_pages_ EXCEPT ![h.id] = page]
      /\ overrun' \subseteq overrun \cup {b}
      /\ UNCHANGED <<free_list_, next_page_id_, next_block_id_, block_size_, row_,
                     held, clears, stray>>
  BY DEF SetK
<1>3. /\ blk \in Block
      /\ blk.free = physical_blocks_[b].free
  <2>1. PICK size \in PageSizes :
          physical_blocks_[b] \in
            [free : BOOLEAN, k_cache : [0 .. size - 1 -> Values \cup {Blank}]]
    BY <1>1 DEF IInv, TypeOK, Block
  <2>2. [i \in DOMAIN physical_blocks_[b].k_cache |->
           IF i \in cells THEN v ELSE physical_blocks_[b].k_cache[i]]
          \in [0 .. size - 1 -> Values \cup {Blank}]
    BY <2>1
  <2>3. /\ blk \in [free : BOOLEAN, k_cache : [0 .. size - 1 -> Values \cup {Blank}]]
        /\ blk.free = physical_blocks_[b].free
    BY <2>1, <2>2 DEF Copied
  <2>4. QED
    BY <2>3 DEF Block
<1>4. /\ page \in Page
      /\ page.physical_block = b
  <2>1. logical_pages_[h.id] \in Page /\ span \subseteq Nat
    BY <1>1 DEF IInv, TypeOK
  <2>2. QED
    BY <2>1 DEF Page, Grown
<1>5. /\ DOMAIN logical_pages_' = DOMAIN logical_pages_
      /\ \A p \in DOMAIN logical_pages_ :
           logical_pages_'[p].physical_block = logical_pages_[p].physical_block
  BY <1>1, <1>2, <1>4 DEF IInv, TypeOK
<1>6. /\ physical_blocks_' \in [0 .. next_block_id_ - 1 -> Block]
      /\ DOMAIN physical_blocks_' = DOMAIN physical_blocks_
      /\ \A d \in DOMAIN physical_blocks_ :
           physical_blocks_'[d].free = physical_blocks_[d].free
  BY <1>1, <1>2, <1>3 DEF IInv, TypeOK
<1>7. FreeBlocks' = FreeBlocks
  BY <1>6 DEF FreeBlocks
<1>8. TypeOK'
  <2>1. DOMAIN logical_pages_' \subseteq 0 .. next_page_id_' - 1
    BY <1>2, <1>5 DEF IInv, TypeOK
  <2>2. logical_pages_' \in [DOMAIN logical_pages_' -> Page]
    BY <1>1, <1>2, <1>4 DEF IInv, TypeOK
  <2>3. physical_blocks_' \in [0 .. next_block_id_' - 1 -> Block]
    BY <1>2, <1>6
  <2>4. /\ free_list_' \in Seq(Nat)
        /\ next_page_id_' \in Nat
        /\ next_block_id_' \in Nat
        /\ <<row_', block_size_'>> \in Shapes \cup {<<0, 0>>}
        /\ clears' \in 0 .. MaxClears
        /\ stray' \in BOOLEAN
    BY <1>2 DEF IInv, TypeOK
  <2>5. overrun' \subseteq DOMAIN physical_blocks_'
    BY <1>1, <1>2, <1>6 DEF IInv, TypeOK
  <2>6. held' \in [Clients -> SUBSET Handle']
    BY <1>2 DEF IInv, TypeOK, Handle
  <2>7. QED
    BY <2>1, <2>2, <2>3, <2>4, <2>5, <2>6 DEF TypeOK
<1>9. FreeListExact'
  BY <1>2, <1>7 DEF IInv, FreeListExact, Elems
<1>10. MappingExact'
  BY <1>5, <1>6, <1>7 DEF IInv, MappingExact
<1>11. QED
  BY <1>8, <1>9, <1>10 DEF IInv

(* clear(): both sides become empty.                                       *)
LEMMA ClearKeeps == ASSUME IInv, Clear PROVE IInv'
<1>1. /\ logical_pages_' = Empty
      /\ physical_blocks_' = Empty
      /\ free_list_' = <<>>
      /\ next_page_id_' = 0
      /\ next_block_id_' = 0
      /\ overrun' = {}
      /\ clears' \in 0 .. MaxClears
      /\ UNCHANGED <<block_size_, row_, held, stray>>
  BY BoundsAssumption DEF Clear, IInv, TypeOK
<1>2. DOMAIN logical_pages_' = {} /\ DOMAIN physical_blocks_' = {}
  BY <1>1 DEF Empty
<1>3. TypeOK'
  <2>1. /\ logical_pages_' \in [DOMAIN logical_pages_' -> Page]
        /\ physical_blocks_' \in [0 .. next_block_id_' - 1 -> Block]
    BY <1>1 DEF Empty
  <2>2. QED
    BY <1>1, <1>2, <2>1 DEF IInv, TypeOK, Handle
<1>4. FreeBlocks' = {} /\ Elems(free_list_') = {}
  BY <1>1, <1>2 DEF FreeBlocks, Elems
<1>5. FreeListExact'
  BY <1>1, <1>4 DEF FreeListExact, Elems
<1>6. MappingExact'
  BY <1>2 DEF MappingExact
<1>7. QED
  BY <1>3, <1>5, <1>6 DEF IInv

(* init(): the ids of the new blocks are above all old ones, so the        *)
(* concatenation lists none twice.                                         *)
LEMMA InitBlocksKeeps ==
    ASSUME IInv, NEW shape \in Shapes, NEW n \in 1 .. MaxBlocks,
           InitBlocks(shape[1], shape[2], n)
    PROVE  IInv'
<1> DEFINE N == next_block_id_
           new == [i \in 1 .. n |-> N + i - 1]
           size == shape[1] * shape[2]
           fresh == [free |-> TRUE, k_cache |-> [i \in 0 .. size - 1 |-> Blank]]
<1>1. /\ N \in Nat /\ n \in Nat /\ n >= 1
      /\ next_block_id_' = N + n
      /\ free_list_' = free_list_ \o new
      /\ UNCHANGED <<logical_pages_, next_page_id_, held, clears, overrun, stray>>
      /\ block_size_' = shape[2] /\ row_' = shape[1] /\ size \in PageSizes
      /\ DOMAIN physical_blocks_ = 0 .. N - 1
  BY BoundsAssumption DEF InitBlocks, IInv, TypeOK, PageSizes
<1>2. physical_blocks_' = [b \in 0 .. N + n - 1 |->
                             IF b \in 0 .. N - 1 THEN physical_blocks_[b] ELSE fresh]
  BY <1>1 DEF InitBlocks
<1> HIDE DEF size
<1>3. fresh \in Block /\ fresh.free = TRUE
  <2>1. fresh \in [free : BOOLEAN, k_cache : [0 .. size - 1 -> Values \cup {Blank}]]
    OBVIOUS
  <2>2. QED
    BY <1>1, <2>1 DEF Block
<1>4. physical_blocks_' \in [0 .. N + n - 1 -> Block]
  BY <1>1, <1>2, <1>3 DEF IInv, TypeOK
<1>5. FreeBlocks' = FreeBlocks \cup (N .. N + n - 1)
  <2>1. ASSUME NEW b \in 0 .. N + n - 1
        PROVE  physical_blocks_'[b].free <=> b \in FreeBlocks \/ b \in N .. N + n - 1
    <3>1. CASE b \in 0 .. N - 1
      BY <1>1, <1>2, <3>1 DEF FreeBlocks
    <3>2. CASE b \in N .. N + n - 1
      BY <1>1, <1>2, <1>3, <3>2
    <3>3. QED
      BY <1>1, <3>1, <3>2
  <2>2. FreeBlocks \cup (N .. N + n - 1) \subseteq 0 .. N + n - 1
    BY <1>1 DEF FreeBlocks
  <2>3. DOMAIN physical_blocks_' = 0 .. N + n - 1
    BY <1>4
  <2>4. QED
    BY <2>1, <2>2, <2>3 DEF FreeBlocks
<1>6. /\ new \in Seq(Nat)
      /\ Len(new) = n
      /\ \A i \in 1 .. n : new[i] = N + i - 1
  <2>1. new \in [1 .. n -> Nat]
    BY <1>1
  <2>2. QED
    BY <1>1, <2>1, SeqDef, LenProperties
<1>7. /\ free_list_' \in Seq(Nat)
      /\ Len(free_list_) \in Nat
      /\ Len(free_list_') = Len(free_list_) + n
      /\ \A i \in 1 .. Len(free_list_) : free_list_'[i] = free_list_[i]
      /\ \A i \in Len(free_list_) + 1 .. Len(free_list_) + n :
           free_list_'[i] = N + (i - Len(free_list_)) - 1
  <2>1. free_list_ \in Seq(Nat) /\ Len(free_list_) \in Nat
    BY LenProperties DEF IInv, TypeOK
  <2>2. /\ free_list_ \o new \in Seq(Nat)
        /\ Len(free_list_ \o new) = Len(free_list_) + n
        /\ \A i \in 1 .. Len(free_list_) + n :
             (free_list_ \o new)[i] =
                IF i <= Len(free_list_) THEN free_list_[i] ELSE new[i - Len(free_list_)]
    BY <1>6, <2>1, ConcatProperties
  <2>3. QED
    BY <1>1, <1>6, <2>1, <2>2
<1>8. \A i \in 1 .. Len(free_list_) : free_list_[i] \in 0 .. N - 1
  BY <1>1 DEF IInv, FreeListExact, Elems, FreeBlocks
<1>9. TypeOK'
  <2>1. overrun' \subseteq DOMAIN physical_blocks_'
    BY <1>1, <1>4 DEF IInv, TypeOK
  <2>2. /\ DOMAIN logical_pages_' \subseteq 0 .. next_page_id_' - 1
        /\ logical_pages_' \in [DOMAIN logical_pages_' -> Page]
        /\ next_page_id_' \in Nat
        /\ clears' \in 0 .. MaxClears
        /\ stray' \in BOOLEAN
    BY <1>1 DEF IInv, TypeOK
  <2>3. physical_blocks_' \in [0 .. next_block_id_' - 1 -> Block]
    BY <1>1, <1>4
  <2>4. /\ next_block_id_' \in Nat
        /\ <<row_', block_size_'>> \in Shapes \cup {<<0, 0>>}
    BY <1>1, BoundsAssumption
  <2>5. held' \in [Clients -> SUBSET Handle']
    BY <1>1 DEF IInv, TypeOK, Handle
  <2>6. QED
    BY <1>7, <2>1, <2>2, <2>3, <2>4, <2>5 DEF TypeOK
<1>10. FreeListExact'
  <2>1. Elems(free_list_') = FreeBlocks \cup (N .. N + n - 1)
    <3>1. ASSUME NEW e \in Elems(free_list_')
          PROVE  e \in FreeBlocks \cup (N .. N + n - 1)
      <4>1. PICK i \in 1 .. Len(free_list_) + n : e = free_list_'[i]
        BY <1>7 DEF Elems
      <4>2. CASE i \in 1 .. Len(free_list_)
        BY <1>7, <4>1, <4>2 DEF IInv, FreeListExact, Elems
      <4>3. CASE i \in Len(free_list_) + 1 .. Len(free_list_) + n
        BY <1>1, <1>7, <4>1, <4>3
      <4>4. QED
        BY <1>1, <1>7, <4>2, <4>3
    <3>2. ASSUME NEW e \in FreeBlocks PROVE e \in Elems(free_list_')
      <4>1. PICK i \in 1 .. Len(free_list_) : e = free_list_[i]
        BY DEF IInv, FreeListExact, Elems
      <4>2. i \in 1 .. Len(free_list_') /\ free_list_'[i] = e
        BY <1>1, <1>7, <4>1
      <4>3. QED
        BY <4>2 DEF Elems
    <3>3. ASSUME NEW e \in N .. N + n - 1 PROVE e \in Elems(free_list_')
      <4>1. Len(free_list_) + (e - N) + 1 \in Len(free_list_) + 1 .. Len(free_list_) + n
        BY <1>1, <1>7
      <4>2. free_list_'[Len(free_list_) + (e - N) + 1] = e
        BY <1>1, <1>7, <4>1
      <4>3. Len(free_list_) + (e - N) + 1 \in 1 .. Len(free_list_')
        BY <1>1, <1>7, <4>1
      <4>4. QED
        BY <4>2, <4>3 DEF Elems
    <3>4. QED
      BY <3>1, <3>2, <3>3
  <2>2. ASSUME NEW i \in 1 .. Len(free_list_'), NEW j \in 1 .. Len(free_list_'), i # j
        PROVE  free_list_'[i] # free_list_'[j]
    <3>1. CASE i <= Len(free_list_) /\ j <= Len(free_list_)
      BY <1>7, <2>2, <3>1 DEF IInv, FreeListExact
    <3>2. CASE i <= Len(free_list_) /\ ~(j <= Len(free_list_))
      BY <1>1, <1>7, <1>8, <3>2
    <3>3. CASE ~(i <= Len(free_list_)) /\ j <= Len(free_list_)
      BY <1>1, <1>7, <1>8, <3>3
    <3>4. CASE ~(i <= Len(free_list_)) /\ ~(j <= Len(free_list_))
      BY <1>1, <1>7, <2>2, <3>4
    <3>5. QED
      BY <3>1, <3>2, <3>3, <3>4
  <2>3. QED
    BY <1>5, <2>1, <2>2 DEF FreeListExact, Elems
<1>11. MappingExact'
  <2>1. DOMAIN physical_blocks_' = 0 .. N + n - 1
    BY <1>4
  <2>2. DOMAIN physical_blocks_' \ FreeBlocks' = DOMAIN physical_blocks_ \ FreeBlocks
    BY <1>1, <1>5, <2>1
  <2>3. QED
    BY <1>1, <2>2 DEF IInv, MappingExact
<1>12. QED
  BY <1>9, <1>10, <1>11 DEF IInv

(* A handle that was just returned.                                        *)
LEMMA ReturnTyped ==
    ASSUME TypeOK, NEW c \in Clients, NEW id \in Nat, Return(c, id)
    PROVE  held' \in [Clients -> SUBSET Handle]
<1>1. [id |-> id, since |-> clears] \in Handle
  BY DEF TypeOK, Handle
<1>2. QED
  BY <1>1 DEF TypeOK, Return

(* An empty free list cannot be rebuilt into anything else.                *)
LEMMA RebuiltIsEmpty ==
    ASSUME IInv, free_list_ = <<>>, NEW fl \in SortedFree
    PROVE  fl = <<>>
<1>1. fl \in Seq(Nat) /\ Elems(fl) = FreeBlocks
  BY SortedFreeIsList DEF IInv
<1>2. FreeBlocks = {}
  BY DEF IInv, FreeListExact, Elems
<1>3. ASSUME fl # <<>> PROVE FALSE
  <2>1. Len(fl) \in Nat \ {0}
    BY <1>1, <1>3, EmptySeq
  <2>2. fl[1] \in Elems(fl)
    BY <2>1 DEF Elems
  <2>3. QED
    BY <1>1, <1>2, <2>2
<1>4. QED
  BY <1>3

(* allocate_page() with a free block: the popped block was free, so no page*)
(* had it, and it is the only one that changes sides.                      *)
LEMMA PopKeeps ==
    ASSUME IInv, NEW c \in Clients, free_list_ # <<>>, PopInto(c, free_list_),
           UNCHANGED <<next_block_id_, block_size_, row_, clears, overrun, stray>>
    PROVE  IInv'
<1> DEFINE b == Top(free_list_)
           p == next_page_id_
           page == [physical_block |-> b, seq_len |-> 0, written |-> {}]
<1>1. /\ free_list_ \in Seq(Nat)
      /\ \A i, j \in 1 .. Len(free_list_) : i # j => free_list_[i] # free_list_[j]
      /\ Len(free_list_) \in Nat
  BY LenProperties DEF IInv, TypeOK, FreeListExact
<1>2. /\ Front(free_list_) \in Seq(Nat)
      /\ Len(Front(free_list_)) = Len(free_list_) - 1
      /\ \A i \in 1 .. Len(free_list_) - 1 : Front(free_list_)[i] = free_list_[i]
      /\ b \in Elems(free_list_)
      /\ Elems(Front(free_list_)) = Elems(free_list_) \ {b}
  BY <1>1, PopElems
<1>3. b \in FreeBlocks /\ b \in 0 .. next_block_id_ - 1 /\ b \in Nat
  BY <1>2 DEF IInv, TypeOK, FreeListExact, FreeBlocks
<1>4. /\ free_list_' = Front(free_list_)
      /\ physical_blocks_' = [physical_blocks_ EXCEPT ![b].free = FALSE]
      /\ logical_pages_' = [q \in DOMAIN logical_pages_ \cup {p} |->
                              IF q = p THEN page ELSE logical_pages_[q]]
      /\ next_page_id_' = p + 1
      /\ Return(c, p)
  BY <1>3 DEF PopInto, AddPage, FreeBlocks
<1>5. /\ p \in Nat /\ p \notin DOMAIN logical_pages_
      /\ DOMAIN logical_pages_ \subseteq 0 .. p - 1
      /\ DOMAIN logical_pages_' = DOMAIN logical_pages_ \cup {p}
  BY <1>4 DEF IInv, TypeOK
<1>6. page \in Page
  BY <1>3 DEF Page
<1>7. /\ physical_blocks_' \in [0 .. next_block_id_ - 1 -> Block]
      /\ DOMAIN physical_blocks_' = DOMAIN physical_blocks_
      /\ DOMAIN physical_blocks_ = 0 .. next_block_id_ - 1
      /\ physical_blocks_'[b].free = FALSE
      /\ \A d \in DOMAIN physical_blocks_ : d # b =>
           physical_blocks_'[d] = physical_blocks_[d]
  <2>1. /\ physical_blocks_ \in [0 .. next_block_id_ - 1 -> Block]
        /\ physical_blocks_[b] \in Block
    BY <1>3 DEF IInv, TypeOK
  <2>2. /\ [physical_blocks_[b] EXCEPT !.free = FALSE] \in Block
        /\ [physical_blocks_[b] EXCEPT !.free = FALSE].free = FALSE
    BY <2>1, FlagKeepsBlock
  <2>3. QED
    BY <1>3, <1>4, <2>1, <2>2
<1>8. FreeBlocks' = FreeBlocks \ {b}
  BY <1>7 DEF FreeBlocks
<1>9. TypeOK'
  <2>1. held' \in [Clients -> SUBSET Handle]
    BY <1>4, <1>5, ReturnTyped DEF IInv
  <2>2. logical_pages_' \in [DOMAIN logical_pages_' -> Page]
    BY <1>4, <1>5, <1>6 DEF IInv, TypeOK
  <2>3. DOMAIN logical_pages_' \subseteq 0 .. next_page_id_' - 1
    BY <1>4, <1>5
  <2>4. /\ next_block_id_' = next_block_id_ /\ next_block_id_ \in Nat
        /\ <<row_', block_size_'>> \in Shapes \cup {<<0, 0>>}
        /\ clears' \in 0 .. MaxClears
        /\ overrun' \subseteq DOMAIN physical_blocks_'
        /\ stray' \in BOOLEAN
    BY <1>7 DEF IInv, TypeOK
  <2>5. free_list_' \in Seq(Nat) /\ next_page_id_' \in Nat
    BY <1>2, <1>4, <1>5
  <2>6. physical_blocks_' \in [0 .. next_block_id_' - 1 -> Block]
    BY <1>7, <2>4
  <2>8. held' \in [Clients -> SUBSET Handle']
    BY <2>1 DEF Handle
  <2>9. QED
    BY <2>2, <2>3, <2>4, <2>5, <2>6, <2>8 DEF TypeOK
<1>10. FreeListExact'
  <2>1. Elems(free_list_') = FreeBlocks'
    BY <1>2, <1>4, <1>8 DEF IInv, FreeListExact
  <2>2. \A i, j \in 1 .. Len(free_list_') : i # j => free_list_'[i] # free_list_'[j]
    <3>1. Len(free_list_') = Len(free_list_) - 1
      BY <1>2, <1>4
    <3>2. \A i \in 1 .. Len(free_list_) - 1 :
            i \in 1 .. Len(free_list_) /\ free_list_'[i] = free_list_[i]
      <4>1. \A i \in 1 .. Len(free_list_) - 1 : i \in 1 .. Len(free_list_)
        BY <1>1
      <4>2. QED
        BY <1>2, <1>4, <4>1
    <3>3. QED
      BY <1>1, <3>1, <3>2
  <2>3. QED
    BY <2>1, <2>2 DEF FreeListExact, Elems
<1>11. MappingExact'
  <2>1. \A q \in DOMAIN logical_pages_ :
          /\ logical_pages_'[q] = logical_pages_[q]
          /\ logical_pages_[q].physical_block # b
    BY <1>3, <1>4, <1>5 DEF IInv, MappingExact
  <2>2. logical_pages_'[p] = page /\ page.physical_block = b
    BY <1>4, <1>5
  <2>3. DOMAIN physical_blocks_' \ FreeBlocks' = (DOMAIN physical_blocks_ \ FreeBlocks) \cup {b}
    BY <1>3, <1>7, <1>8
  <2>4. \A q \in DOMAIN logical_pages_' :
          logical_pages_'[q].physical_block \in DOMAIN physical_blocks_' \ FreeBlocks'
    BY <1>5, <2>1, <2>2, <2>3 DEF IInv, MappingExact
  <2>5. \A q, r \in DOMAIN logical_pages_' :
          q # r => logical_pages_'[q].physical_block # logical_pages_'[r].physical_block
    BY <1>5, <2>1, <2>2 DEF IInv, MappingExact
  <2>6. \A d \in DOMAIN physical_blocks_' \ FreeBlocks' :
          \E q \in DOMAIN logical_pages_' : logical_pages_'[q].physical_block = d
    BY <1>5, <2>1, <2>2, <2>3 DEF IInv, MappingExact
  <2>7. QED
    BY <2>4, <2>5, <2>6 DEF MappingExact
<1>12. QED
  BY <1>9, <1>10, <1>11 DEF IInv

(* allocate_page(): with an empty list nothing changes but the handle.     *)
LEMMA AllocateKeeps ==
    ASSUME IInv, NEW c \in Clients, AllocatePage(c)
    PROVE  IInv'
<1>1. CASE free_list_ # <<>>
  BY <1>1, PopKeeps DEF AllocatePage
<1>2. CASE free_list_ = <<>>
  <2>1. PICK fl \in SortedFree :
          IF fl = <<>>
          THEN /\ free_list_' = fl
               /\ UNCHANGED <<physical_blocks_, logical_pages_, next_page_id_>>
               /\ Return(c, 0)
          ELSE PopInto(c, fl)
    BY <1>2 DEF AllocatePage
  <2>2. /\ UNCHANGED <<free_list_, physical_blocks_, logical_pages_, next_page_id_>>
        /\ UNCHANGED <<next_block_id_, block_size_, row_, clears, overrun, stray>>
        /\ Return(c, 0)
    BY <1>2, <2>1, RebuiltIsEmpty DEF AllocatePage
  <2>3. held' \in [Clients -> SUBSET Handle]
    BY <2>2, ReturnTyped DEF IInv
  <2>4. TypeOK'
    BY <2>2, <2>3 DEF IInv, TypeOK, Handle
  <2>5. FreeBlocks' = FreeBlocks
    BY <2>2 DEF FreeBlocks
  <2>6. FreeListExact' /\ MappingExact'
    BY <2>2, <2>5 DEF IInv, FreeListExact, MappingExact, Elems
  <2>7. QED
    BY <2>4, <2>6 DEF IInv
<1>3. QED
  BY <1>1, <1>2

(* free_page(): the block of the page was on the mapped side only, so      *)
(* pushing it lists it once.                                               *)
LEMMA FreePageKeeps ==
    ASSUME IInv, NEW c \in Clients, NEW h \in held[c], FreePage(c, h)
    PROVE  IInv'
<1> DEFINE b == logical_pages_[h.id].physical_block
<1>1. held' \in [Clients -> SUBSET Handle]
  BY DEF FreePage, IInv, TypeOK
<1>2. /\ stray' \in BOOLEAN
      /\ held' \in [Clients -> SUBSET Handle']
      /\ UNCHANGED <<next_page_id_, next_block_id_, block_size_, row_, clears, overrun>>
  BY <1>1 DEF FreePage, IInv, TypeOK, Handle
<1>3. CASE h.id \notin DOMAIN logical_pages_
  <2>1. UNCHANGED <<physical_blocks_, free_list_, logical_pages_>>
    BY <1>3 DEF FreePage
  <2>2. TypeOK'
    BY <1>2, <2>1 DEF IInv, TypeOK
  <2>3. FreeBlocks' = FreeBlocks
    BY <2>1 DEF FreeBlocks
  <2>4. FreeListExact' /\ MappingExact'
    BY <2>1, <2>3 DEF IInv, FreeListExact, MappingExact, Elems
  <2>5. QED
    BY <2>2, <2>4 DEF IInv
<1>4. CASE h.id \in DOMAIN logical_pages_
  <2>1. /\ b \in DOMAIN physical_blocks_
        /\ DOMAIN physical_blocks_ = 0 .. next_block_id_ - 1
        /\ b \notin FreeBlocks
        /\ b \in Nat
        /\ free_list_ \in Seq(Nat)
        /\ Len(free_list_) \in Nat
    BY <1>4, LenProperties DEF IInv, MappingExact, TypeOK
  <2>2. /\ physical_blocks_' = [physical_blocks_ EXCEPT ![b].free = TRUE]
        /\ free_list_' = Append(free_list_, b)
        /\ logical_pages_' = [p \in DOMAIN logical_pages_ \ {h.id} |-> logical_pages_[p]]
    BY <1>4, <2>1 DEF FreePage
  <2>3. /\ physical_blocks_' \in [0 .. next_block_id_ - 1 -> Block]
        /\ DOMAIN physical_blocks_' = DOMAIN physical_blocks_
        /\ physical_blocks_'[b].free = TRUE
        /\ \A d \in DOMAIN physical_blocks_ : d # b =>
             physical_blocks_'[d] = physical_blocks_[d]
    <3>1. /\ physical_blocks_ \in [0 .. next_block_id_ - 1 -> Block]
          /\ physical_blocks_[b] \in Block
      BY <2>1 DEF IInv, TypeOK
    <3>2. /\ [physical_blocks_[b] EXCEPT !.free = TRUE] \in Block
          /\ [physical_blocks_[b] EXCEPT !.free = TRUE].free = TRUE
      BY <3>1, FlagKeepsBlock
    <3>3. QED
      BY <2>1, <2>2, <3>1, <3>2
  <2>4. FreeBlocks' = FreeBlocks \cup {b}
    BY <2>1, <2>3 DEF FreeBlocks
  <2>5. Append(free_list_, b) \in Seq(Nat) /\ Elems(Append(free_list_, b)) = Elems(free_list_) \cup {b}
    BY <2>1, PushElems
  <2>6. /\ DOMAIN logical_pages_' = DOMAIN logical_pages_ \ {h.id}
        /\ \A p \in DOMAIN logical_pages_' : logical_pages_'[p] = logical_pages_[p]
    BY <2>2
  <2>7. TypeOK'
    <3>1. logical_pages_' \in [DOMAIN logical_pages_' -> Page]
      BY <2>2, <2>6 DEF IInv, TypeOK
    <3>2. DOMAIN logical_pages_' \subseteq 0 .. next_page_id_' - 1
      BY <1>2, <2>6 DEF IInv, TypeOK
    <3>3. physical_blocks_' \in [0 .. next_block_id_' - 1 -> Block]
      BY <1>2, <2>3
    <3>4. /\ next_page_id_' \in Nat
          /\ next_block_id_' \in Nat
          /\ <<row_', block_size_'>> \in Shapes \cup {<<0, 0>>}
          /\ clears' \in 0 .. MaxClears
          /\ overrun' \subseteq DOMAIN physical_blocks_'
      BY <1>2, <2>3 DEF IInv, TypeOK
    <3>5. QED
      BY <1>2, <2>2, <2>5, <3>1, <3>2, <3>3, <3>4 DEF TypeOK
  <2>8. FreeListExact'
    <3>1. b \notin Elems(free_list_)
      BY <2>1 DEF IInv, FreeListExact
    <3>2. ASSUME NEW i \in 1 .. Len(free_list_) + 1, NEW j \in 1 .. Len(free_list_) + 1, i # j
          PROVE  Append(free_list_, b)[i] # Append(free_list_, b)[j]
      <4>1. /\ \A k \in 1 .. Len(free_list_) :
                 Append(free_list_, b)[k] = free_list_[k] /\ free_list_[k] # b
            /\ Append(free_list_, b)[Len(free_list_) + 1] = b
        BY <2>1, <3>1 DEF Elems
      <4>2. CASE i \in 1 .. Len(free_list_) /\ j \in 1 .. Len(free_list_)
        BY <3>2, <4>1, <4>2 DEF IInv, FreeListExact
      <4>3. CASE i = Len(free_list_) + 1
        <5>1. j \in 1 .. Len(free_list_)
          BY <2>1, <3>2, <4>3
        <5>2. QED
          BY <4>1, <4>3, <5>1
      <4>4. CASE j = Len(free_list_) + 1
        <5>1. i \in 1 .. Len(free_list_)
          BY <2>1, <3>2, <4>4
        <5>2. QED
          BY <4>1, <4>4, <5>1
      <4>5. QED
        BY <2>1, <4>2, <4>3, <4>4
    <3>3. Len(Append(free_list_, b)) = Len(free_list_) + 1
      BY <2>1
    <3>4. Elems(free_list_') = FreeBlocks'
      BY <2>2, <2>4, <2>5 DEF IInv, FreeListExact
    <3>5. \A i, j \in 1 .. Len(free_list_') : i # j => free_list_'[i] # free_list_'[j]
      BY <2>2, <3>2, <3>3
    <3>6. QED
      BY <3>4, <3>5 DEF FreeListExact, Elems
  <2>9. MappingExact'
    <3>1. DOMAIN physical_blocks_' \ FreeBlocks' = (DOMAIN physical_blocks_ \ FreeBlocks) \ {b}
      BY <2>3, <2>4
    <3>2. \A p \in DOMAIN logical_pages_' : logical_pages_'[p].physical_block # b
      BY <1>4, <2>6 DEF IInv, MappingExact
    <3>3. QED
      BY <2>6, <3>1, <3>2 DEF IInv, MappingExact
  <2>10. QED
    BY <2>7, <2>8, <2>9 DEF IInv
<1>5. QED
  BY <1>3, <1>4

(* The three facts together hold in every reachable state.                 *)
THEOREM BlocksAccounted == Spec => []IInv
<1>1. Init => IInv
  <2> SUFFICES ASSUME Init PROVE IInv
    OBVIOUS
  <2>1. /\ DOMAIN logical_pages_ = {} /\ DOMAIN physical_blocks_ = {}
        /\ logical_pages_ \in [DOMAIN logical_pages_ -> Page]
        /\ physical_blocks_ \in [0 .. next_block_id_ - 1 -> Block]
    BY DEF Init, Empty
  <2>2. TypeOK
    <3>1. held \in [Clients -> SUBSET Handle]
      BY DEF Init
    <3>2. clears \in 0 .. MaxClears
      BY BoundsAssumption DEF Init
    <3>3. DOMAIN logical_pages_ \subseteq 0 .. next_page_id_ - 1
      BY <2>1
    <3>4. /\ free_list_ \in Seq(Nat)
          /\ next_page_id_ \in Nat
          /\ next_block_id_ \in Nat
          /\ <<row_, block_size_>> \in Shapes \cup {<<0, 0>>}
      BY DEF Init
    <3>5. overrun \subseteq DOMAIN physical_blocks_ /\ stray \in BOOLEAN
      BY DEF Init
    <3>6. QED
      BY <2>1, <3>1, <3>2, <3>3, <3>4, <3>5 DEF TypeOK
  <2>3. FreeBlocks = {} /\ Elems(free_list_) = {}
    BY <2>1 DEF Init, FreeBlocks, Elems
  <2>4. FreeListExact /\ MappingExact
    BY <2>1, <2>3 DEF Init, FreeListExact, MappingExact
  <2>5. QED
    BY <2>2, <2>4 DEF IInv
<1>2. IInv /\ [Next]_vars => IInv'
  <2> SUFFICES ASSUME IInv, [Next]_vars PROVE IInv'
    OBVIOUS
  <2>1. ASSUME NEW shape \in Shapes, NEW n \in 1 .. MaxBlocks,
               InitBlocks(shape[1], shape[2], n)
        PROVE  IInv'
    BY <2>1, InitBlocksKeeps
  <2>2. CASE Clear
    BY <2>2, ClearKeeps
  <2>3. ASSUME NEW c \in Clients, AllocatePage(c) PROVE IInv'
    BY <2>3, AllocateKeeps
  <2>4. ASSUME NEW c \in Clients, NEW h \in held[c], FreePage(c, h) PROVE IInv'
    BY <2>4, FreePageKeeps
  <2>5. ASSUME NEW c \in Clients, NEW h \in held[c], NEW pos \in 0 .. block_size_ - 1,
               NEW len \in 1 .. block_size_, NEW v \in Values, SetK(c, h, pos, len, v)
        PROVE  IInv'
    <3>1. pos \in Nat /\ len \in Nat
      BY ShapeInUse DEF IInv
    <3>2. QED
      BY <2>5, <3>1, SetKKeeps
  <2>6. CASE Defragment
    BY <2>6, DefragmentKeeps
  <2>7. CASE UNCHANGED vars
    <3>1. TypeOK'
      BY <2>7 DEF IInv, TypeOK, vars, Handle
    <3>2. FreeBlocks' = FreeBlocks
      BY <2>7 DEF FreeBlocks, vars
    <3>3. FreeListExact' /\ MappingExact'
      BY <2>7, <3>2 DEF IInv, FreeListExact, MappingExact, Elems, vars
    <3>4. QED
      BY <3>1, <3>3 DEF IInv
  <2>8. QED
    BY <2>1, <2>2, <2>3, <2>4, <2>5, <2>6, <2>7 DEF Next
<1>3. QED
  BY <1>1, <1>2, PTL DEF Spec

(* Every variable keeps its declared shape.                                *)
THEOREM TypeCorrect == Spec => []TypeOK
<1>1. IInv => TypeOK
  BY DEF IInv
<1>2. QED
  BY <1>1, BlocksAccounted, PTL

(* allocate_page() never hands out a block that is in use or listed twice. *)
THEOREM FreeListAgrees == Spec => []FreeListExact
<1>1. IInv => FreeListExact
  BY DEF IInv
<1>2. QED
  BY <1>1, BlocksAccounted, PTL

(* No two pages share a block and no block is leaked.                      *)
THEOREM PagesPartitionBlocks == Spec => []MappingExact
<1>1. IInv => MappingExact
  BY DEF IInv
<1>2. QED
  BY <1>1, BlocksAccounted, PTL

(* The handles in the clients' hands: those since the last clear() carry   *)
(* ids below next_page_id_ (or the 0 of a failed call).                    *)
HandlesInv ==
    /\ AliasedOnlyAsZero
    /\ \A c \in Clients : \A h \in held[c] :
         /\ h.since <= clears
         /\ Current(h) => h.id = 0 \/ h.id < next_page_id_

(* A call of allocate_page() returns 0 or an id that no client holds.      *)
LEMMA AllocateReturns ==
    ASSUME IInv, NEW c \in Clients, AllocatePage(c)
    PROVE  /\ UNCHANGED clears
           /\ \/ Return(c, 0) /\ UNCHANGED next_page_id_
              \/ Return(c, next_page_id_) /\ next_page_id_' = next_page_id_ + 1
<1>1. CASE free_list_ # <<>>
  BY <1>1 DEF AllocatePage, PopInto
<1>2. CASE free_list_ = <<>>
  BY <1>2, RebuiltIsEmpty DEF AllocatePage
<1>3. QED
  BY <1>1, <1>2 DEF AllocatePage

(* What is known of the handles holds in every reachable state.            *)
THEOREM HandlesAccounted == Spec => []HandlesInv
<1>1. Init => HandlesInv
  BY DEF Init, HandlesInv, AliasedOnlyAsZero
<1>2. IInv /\ HandlesInv /\ [Next]_vars => HandlesInv'
  <2> SUFFICES ASSUME IInv, HandlesInv, [Next]_vars PROVE HandlesInv'
    OBVIOUS
  <2>1. next_page_id_ \in Nat /\ clears \in Nat /\ held \in [Clients -> SUBSET Handle]
    BY BoundsAssumption DEF IInv, TypeOK
  <2>2. ASSUME NEW c \in Clients, AllocatePage(c) PROVE HandlesInv'
    <3>1. PICK id \in Nat : /\ Return(c, id)
                            /\ \/ id = 0 /\ next_page_id_' = next_page_id_
                               \/ id = next_page_id_ /\ next_page_id_' = next_page_id_ + 1
      BY <2>1, <2>2, AllocateReturns
    <3>2. clears' = clears
      BY <2>2, AllocateReturns
    <3> DEFINE new == [id |-> id, since |-> clears]
    <3>3. /\ \A d \in Clients : held'[d] = IF d = c THEN held[d] \cup {new} ELSE held[d]
          /\ new.id = id /\ new.since = clears
      BY <2>1, <3>1 DEF Return
    <3>4. \A d \in Clients : \A h \in held'[d] :
             /\ h.since <= clears'
             /\ Current(h)' => h.id = 0 \/ h.id < next_page_id_'
      <4> SUFFICES ASSUME NEW d \in Clients, NEW h \in held'[d]
                   PROVE  /\ h.since <= clears'
                          /\ Current(h)' => h.id = 0 \/ h.id < next_page_id_'
        OBVIOUS
      <4>1. CASE h = new
        BY <2>1, <3>1, <3>2, <3>3, <4>1
      <4>2. CASE h \in held[d]
        <5>1. /\ h.since <= clears
              /\ Current(h) => h.id = 0 \/ h.id < next_page_id_
          BY <4>2 DEF HandlesInv
        <5>2. h.id \in Nat
          BY <2>1, <4>2 DEF Handle
        <5>3. QED
          BY <2>1, <3>1, <3>2, <5>1, <5>2 DEF Current
      <4>3. QED
        BY <3>3, <4>1, <4>2
    <3>5. AliasedOnlyAsZero'
      <4> SUFFICES ASSUME NEW d \in Clients, NEW e \in Clients, d # e,
                          NEW h \in held'[d] \cap held'[e], Current(h)'
                   PROVE  h.id = 0
        BY DEF AliasedOnlyAsZero, Current
      <4>1. CASE h = new
        <5>1. PICK f \in Clients : h \in held[f] \/ id = 0
          BY <3>3, <4>1
        <5>2. CASE id = 0
          BY <3>3, <4>1, <5>2
        <5>3. CASE id = next_page_id_ /\ id # 0
          <6>1. new \notin held[d] /\ new \notin held[e]
            BY <2>1, <3>3, <5>3 DEF HandlesInv, Current
          <6>2. QED
            BY <3>3, <4>1, <6>1
        <5>4. QED
          BY <3>1, <5>2, <5>3
      <4>2. CASE h # new
        <5>1. h \in held[d] /\ h \in held[e] /\ Current(h)
          BY <3>2, <3>3, <4>2 DEF Current
        <5>2. QED
          BY <5>1 DEF HandlesInv, AliasedOnlyAsZero
      <4>3. QED
        BY <4>1, <4>2
    <3>6. QED
      BY <3>4, <3>5 DEF HandlesInv, Current
  <2>3. ASSUME NEW c \in Clients, NEW h \in held[c], FreePage(c, h) PROVE HandlesInv'
    <3>1. /\ \A d \in Clients : held'[d] \subseteq held[d]
          /\ clears' = clears /\ next_page_id_' = next_page_id_
      BY <2>1, <2>3 DEF FreePage
    <3>2. QED
      BY <3>1 DEF HandlesInv, AliasedOnlyAsZero, Current
  <2>4. CASE Clear
    <3>1. held' = held /\ clears' = clears + 1
      BY <2>4 DEF Clear
    <3>2. \A d \in Clients : \A h \in held'[d] : h.since <= clears' /\ ~Current(h)'
      BY <2>1, <3>1 DEF HandlesInv, Current, Handle
    <3>3. QED
      BY <3>2 DEF HandlesInv, AliasedOnlyAsZero, Current
  <2>5. CASE UNCHANGED <<held, clears, next_page_id_>>
    BY <2>5 DEF HandlesInv, AliasedOnlyAsZero, Current
  <2>6. QED
    BY <2>2, <2>3, <2>4, <2>5 DEF Next, vars, InitBlocks, SetK, Defragment
<1>3. QED
  BY <1>1, <1>2, BlocksAccounted, PTL DEF Spec

(* For any number of clients, page ids alias only as 0.                    *)
THEOREM PageIdsUnique == Spec => []AliasedOnlyAsZero
<1>1. HandlesInv => AliasedOnlyAsZero
  BY DEF HandlesInv
<1>2. QED
  BY <1>1, HandlesAccounted, PTL

(* The block created last has the size clients compute with.               *)
NewestIsKnown ==
    next_block_id_ # 0 =>
      DOMAIN physical_blocks_[next_block_id_ - 1].k_cache = 0 .. row_ * block_size_ - 1

RulesInv == RulesSuffice /\ NewestIsKnown

(* No call changes which blocks there are or how long they are.            *)
CellsKept ==
    /\ DOMAIN physical_blocks_' = DOMAIN physical_blocks_
    /\ \A b \in DOMAIN physical_blocks_ :
         DOMAIN physical_blocks_'[b].k_cache = DOMAIN physical_blocks_[b].k_cache

LEMMA FlagKeepsCells ==
    ASSUME IInv, NEW b \in DOMAIN physical_blocks_, NEW flag \in BOOLEAN,
           physical_blocks_' = [physical_blocks_ EXCEPT ![b].free = flag]
    PROVE  CellsKept
<1>1. physical_blocks_ \in [0 .. next_block_id_ - 1 -> Block]
  BY DEF IInv, TypeOK
<1>2. PICK size \in PageSizes :
        physical_blocks_[b] \in
          [free : BOOLEAN, k_cache : [0 .. size - 1 -> Values \cup {Blank}]]
  BY <1>1 DEF Block
<1>3. [physical_blocks_[b] EXCEPT !.free = flag].k_cache = physical_blocks_[b].k_cache
  BY <1>2
<1>4. QED
  BY <1>1, <1>3 DEF CellsKept

LEMMA AllocateKeepsCells ==
    ASSUME IInv, NEW c \in Clients, AllocatePage(c)
    PROVE  CellsKept
<1>1. CASE UNCHANGED physical_blocks_
  BY <1>1 DEF CellsKept
<1>2. ASSUME NEW fl, PopInto(c, fl), Top(fl) \in DOMAIN physical_blocks_ PROVE CellsKept
  BY <1>2, FlagKeepsCells DEF PopInto
<1>3. QED
  BY <1>1, <1>2 DEF AllocatePage, PopInto

LEMMA FreePageKeepsCells ==
    ASSUME IInv, NEW c \in Clients, NEW h \in held[c], FreePage(c, h)
    PROVE  CellsKept
<1>1. CASE UNCHANGED physical_blocks_
  BY <1>1 DEF CellsKept
<1>2. CASE ~UNCHANGED physical_blocks_
  <2>1. PICK b \in DOMAIN physical_blocks_ :
          physical_blocks_' = [physical_blocks_ EXCEPT ![b].free = TRUE]
    BY <1>2 DEF FreePage
  <2>2. QED
    BY <2>1, FlagKeepsCells
<1>3. QED
  BY <1>1, <1>2

LEMMA SetKKeepsCells ==
    ASSUME IInv, NEW c \in Clients, NEW h \in held[c], NEW pos \in Nat,
           NEW len \in Nat, NEW v \in Values, SetK(c, h, pos, len, v)
    PROVE  CellsKept
<1> DEFINE b == logical_pages_[h.id].physical_block
           blk == Copied(physical_blocks_[b], pos * row_ .. (pos + len) * row_ - 1, v)
<1>1. /\ physical_blocks_ \in [0 .. next_block_id_ - 1 -> Block]
      /\ b \in DOMAIN physical_blocks_
      /\ physical_blocks_' = [physical_blocks_ EXCEPT ![b] = blk]
  BY DEF SetK, IInv, TypeOK
<1>2. PICK size \in PageSizes :
        physical_blocks_[b] \in
          [free : BOOLEAN, k_cache : [0 .. size - 1 -> Values \cup {Blank}]]
  BY <1>1 DEF Block
<1>3. DOMAIN blk.k_cache = DOMAIN physical_blocks_[b].k_cache
  BY <1>2 DEF Copied
<1>4. QED
  BY <1>1, <1>3 DEF CellsKept

(* While the blocks stay as they are, so do their witnesses.               *)
LEMMA CellsKeepRules ==
    ASSUME IInv, NewestIsKnown, OverrunNeedsLargerInit, CellsKept,
           UNCHANGED <<next_block_id_, block_size_, row_>>,
           \A b \in overrun' \ overrun : \E d \in DOMAIN physical_blocks_ :
             /\ b \in DOMAIN physical_blocks_
             /\ b < d
             /\ DOMAIN physical_blocks_[b].k_cache # DOMAIN physical_blocks_[d].k_cache
    PROVE  NewestIsKnown' /\ OverrunNeedsLargerInit'
<1>1. /\ DOMAIN physical_blocks_ = 0 .. next_block_id_ - 1
      /\ next_block_id_ \in Nat
      /\ overrun \subseteq DOMAIN physical_blocks_
  BY DEF IInv, TypeOK
<1>2. NewestIsKnown'
  <2>1. next_block_id_ # 0 => next_block_id_ - 1 \in DOMAIN physical_blocks_
    BY <1>1
  <2>2. QED
    BY <2>1 DEF NewestIsKnown, CellsKept
<1>3. OverrunNeedsLargerInit'
  BY <1>1 DEF OverrunNeedsLargerInit, CellsKept
<1>4. QED
  BY <1>2, <1>3

(* init(): old blocks stay, and the last of the new ones has the new size. *)
LEMMA InitKeepsRules ==
    ASSUME IInv, RulesInv, NEW shape \in Shapes, NEW n \in 1 .. MaxBlocks,
           InitBlocks(shape[1], shape[2], n)
    PROVE  RulesInv'
<1> DEFINE N == next_block_id_
           size == shape[1] * shape[2]
           fresh == [free |-> TRUE, k_cache |-> [i \in 0 .. size - 1 |-> Blank]]
<1>1. /\ N \in Nat /\ n \in Nat /\ n >= 1
      /\ next_block_id_' = N + n
      /\ block_size_' = shape[2] /\ row_' = shape[1]
      /\ DOMAIN physical_blocks_ = 0 .. N - 1
      /\ overrun \subseteq DOMAIN physical_blocks_
      /\ UNCHANGED <<logical_pages_, held, clears, overrun, stray>>
  BY BoundsAssumption DEF InitBlocks, IInv, TypeOK
<1>2. physical_blocks_' = [b \in 0 .. N + n - 1 |->
                             IF b \in 0 .. N - 1 THEN physical_blocks_[b] ELSE fresh]
  BY <1>1 DEF InitBlocks
<1>3. NewestIsKnown'
  <2>1. N + n - 1 \in 0 .. N + n - 1 /\ N + n - 1 \notin 0 .. N - 1
    BY <1>1
  <2>2. physical_blocks_'[N + n - 1] = fresh
    BY <1>2, <2>1
  <2>3. DOMAIN fresh.k_cache = 0 .. row_' * block_size_' - 1
    BY <1>1
  <2>4. QED
    BY <1>1, <2>2, <2>3 DEF NewestIsKnown
<1>4. OverrunNeedsLargerInit'
  <2>1. \A b \in DOMAIN physical_blocks_ :
          b \in DOMAIN physical_blocks_' /\ physical_blocks_'[b] = physical_blocks_[b]
    BY <1>1, <1>2
  <2>2. QED
    BY <1>1, <2>1 DEF RulesInv, RulesSuffice, OverrunNeedsLargerInit
<1>5. HeldPagesLive'
  BY <1>1 DEF RulesInv, RulesSuffice, HeldPagesLive, Current
<1>6. QED
  BY <1>3, <1>4, <1>5 DEF RulesInv, RulesSuffice

(* allocate_page(): what it returns is 0 or a page that is there now.      *)
LEMMA AllocateKeepsRules ==
    ASSUME IInv, RulesInv, NEW c \in Clients, AllocatePage(c)
    PROVE  RulesInv'
<1>1. UNCHANGED <<next_block_id_, block_size_, row_, clears, overrun, stray>>
  BY DEF AllocatePage
<1>2. PICK id : /\ Return(c, id)
                /\ id = 0 \/ id \in DOMAIN logical_pages_'
                /\ DOMAIN logical_pages_ \subseteq DOMAIN logical_pages_'
  BY DEF AllocatePage, PopInto, AddPage
<1>3. NewestIsKnown' /\ OverrunNeedsLargerInit'
  BY <1>1, AllocateKeepsCells, CellsKeepRules DEF RulesInv, RulesSuffice
<1>4. HeldPagesLive'
  <2>1. held \in [Clients -> SUBSET Handle]
    BY DEF IInv, TypeOK
  <2>2. \A d \in Clients : \A h \in held'[d] : h \in held[d] \/ h.id = id
    BY <1>2, <2>1 DEF Return
  <2>3. QED
    BY <1>1, <1>2, <2>2 DEF RulesInv, RulesSuffice, HeldPagesLive, Current
<1>5. QED
  BY <1>3, <1>4 DEF RulesInv, RulesSuffice

(* free_page(): nobody else holds the id of a current handle, unless it is *)
(* 0.                                                                      *)
LEMMA FreePageKeepsRules ==
    ASSUME IInv, HandlesInv, RulesInv, NEW c \in Clients, NEW h \in held[c],
           FreePage(c, h)
    PROVE  RulesInv'
<1>1. /\ UNCHANGED <<next_block_id_, block_size_, row_, clears, overrun>>
      /\ held' = [held EXCEPT ![c] = @ \ {h}]
      /\ stray' = (stray \/ ~Current(h))
      /\ DOMAIN logical_pages_ \ {h.id} \subseteq DOMAIN logical_pages_'
  BY DEF FreePage
<1>2. NewestIsKnown' /\ OverrunNeedsLargerInit'
  BY <1>1, FreePageKeepsCells, CellsKeepRules DEF RulesInv, RulesSuffice
<1>3. HeldPagesLive'
  <2> SUFFICES ASSUME ~stray, Current(h), NEW d \in Clients, NEW g \in held'[d],
                      Current(g), g.id # 0
               PROVE  g.id \in DOMAIN logical_pages_'
    BY <1>1 DEF HeldPagesLive, Current
  <2>1. held \in [Clients -> SUBSET Handle]
    BY DEF IInv, TypeOK
  <2>2. g \in held[d] /\ (d = c => g # h)
    BY <1>1, <2>1
  <2>3. g.id # h.id
    <3> SUFFICES ASSUME g.id = h.id PROVE FALSE
      OBVIOUS
    <3>1. g = h
      BY <2>1, <2>2 DEF Handle, Current
    <3>2. QED
      BY <2>2, <3>1 DEF HandlesInv, AliasedOnlyAsZero
  <2>4. g.id \in DOMAIN logical_pages_
    BY <2>2 DEF RulesInv, RulesSuffice, HeldPagesLive
  <2>5. QED
    BY <1>1, <2>3, <2>4
<1>4. QED
  BY <1>2, <1>3 DEF RulesInv, RulesSuffice

(* set_k(): a client that runs over the end of a block computed with the   *)
(* size of the newest one, which is another one then.                      *)
LEMMA SetKKeepsRules ==
    ASSUME IInv, RulesInv, NEW c \in Clients, NEW h \in held[c], NEW pos \in Nat,
           NEW len \in Nat, NEW v \in Values, SetK(c, h, pos, len, v)
    PROVE  RulesInv'
<1> DEFINE b == logical_pages_[h.id].physical_block
           cells == pos * row_ .. (pos + len) * row_ - 1
           last == next_block_id_ - 1
<1>1. /\ UNCHANGED <<next_block_id_, block_size_, row_, held, clears, stray>>
      /\ DOMAIN logical_pages_' = DOMAIN logical_pages_
      /\ b \in DOMAIN physical_blocks_
      /\ overrun' = IF cells \subseteq DOMAIN physical_blocks_[b].k_cache
                    THEN overrun ELSE overrun \cup {b}
      /\ pos + len <= block_size_
  BY DEF SetK, IInv, TypeOK
<1>2. /\ DOMAIN physical_blocks_ = 0 .. last
      /\ next_block_id_ \in Nat
      /\ block_size_ \in Nat /\ row_ \in Nat
  BY ShapeInUse DEF IInv, TypeOK
<1>3. ASSUME b \in overrun' \ overrun
      PROVE  /\ last \in DOMAIN physical_blocks_ /\ b < last
             /\ DOMAIN physical_blocks_[b].k_cache # DOMAIN physical_blocks_[last].k_cache
  <2>1. cells \subseteq 0 .. row_ * block_size_ - 1
    <3>1. (pos + len) * row_ <= block_size_ * row_ /\ pos * row_ \in Nat
      <4>1. /\ pos + len \in Nat /\ block_size_ \in Nat /\ row_ \in Nat
            /\ pos + len <= block_size_ /\ pos <= pos
        BY <1>1, <1>2
      <4>2. QED
        BY <4>1, RowsInOrder, Zenon
    <3>2. /\ block_size_ * row_ = row_ * block_size_
          /\ (pos + len) * row_ \in Int /\ row_ * block_size_ \in Int
      BY <1>2
    <3>3. QED
      BY <3>1, <3>2
  <2>2. last \in DOMAIN physical_blocks_ /\ b <= last
    BY <1>1, <1>2
  <2>3. DOMAIN physical_blocks_[last].k_cache = 0 .. row_ * block_size_ - 1
    BY <1>2, <2>2 DEF RulesInv, NewestIsKnown
  <2>4. DOMAIN physical_blocks_[b].k_cache # DOMAIN physical_blocks_[last].k_cache
    BY <1>1, <1>3, <2>1, <2>3
  <2>5. QED
    BY <1>1, <1>2, <2>2, <2>4
<1>4. NewestIsKnown' /\ OverrunNeedsLargerInit'
  BY <1>1, <1>3, SetKKeepsCells, CellsKeepRules DEF RulesInv, RulesSuffice
<1>5. HeldPagesLive'
  BY <1>1 DEF RulesInv, RulesSuffice, HeldPagesLive, Current
<1>6. QED
  BY <1>4, <1>5 DEF RulesInv, RulesSuffice

(* No client loses a page it holds, other than page 0, and nobody writes   *)
(* past a block, as long as nobody uses handles from before a clear() and  *)
(* no init() changes the size of blocks: whatever the number of clients,   *)
(* blocks and pages.                                                       *)
THEOREM KeepingTheRulesSuffices == Spec => []RulesSuffice
<1>1. Init => RulesInv
  BY DEF Init, RulesInv, RulesSuffice, HeldPagesLive, OverrunNeedsLargerInit, NewestIsKnown
<1>2. IInv /\ HandlesInv /\ RulesInv /\ [Next]_vars => RulesInv'
  <2> SUFFICES ASSUME IInv, HandlesInv, RulesInv, [Next]_vars PROVE RulesInv'
    OBVIOUS
  <2>1. ASSUME NEW shape \in Shapes, NEW n \in 1 .. MaxBlocks,
               InitBlocks(shape[1], shape[2], n)
        PROVE  RulesInv'
    BY <2>1, InitKeepsRules
  <2>2. CASE Clear
    <3>1. /\ next_block_id_' = 0 /\ overrun' = {}
          /\ held' = held /\ clears' = clears + 1
      BY <2>2 DEF Clear
    <3>2. \A c \in Clients : \A h \in held'[c] : ~Current(h)'
      <4>1. clears \in Nat /\ held \in [Clients -> SUBSET Handle]
        BY BoundsAssumption DEF IInv, TypeOK
      <4>2. QED
        BY <3>1, <4>1 DEF HandlesInv, Current, Handle
    <3>3. QED
      BY <3>1, <3>2 DEF RulesInv, RulesSuffice, HeldPagesLive, OverrunNeedsLargerInit,
                        NewestIsKnown, Current
  <2>3. ASSUME NEW c \in Clients, AllocatePage(c) PROVE RulesInv'
    BY <2>3, AllocateKeepsRules
  <2>4. ASSUME NEW c \in Clients, NEW h \in held[c], FreePage(c, h) PROVE RulesInv'
    BY <2>4, FreePageKeepsRules
  <2>5. ASSUME NEW c \in Clients, NEW h \in held[c], NEW pos \in 0 .. block_size_ - 1,
               NEW len \in 1 .. block_size_, NEW v \in Values, SetK(c, h, pos, len, v)
        PROVE  RulesInv'
    <3>1. pos \in Nat /\ len \in Nat
      BY ShapeInUse DEF IInv
    <3>2. QED
      BY <2>5, <3>1, SetKKeepsRules
  <2>6. CASE UNCHANGED <<physical_blocks_, logical_pages_, next_block_id_, block_size_, row_,
                         held, clears, overrun, stray>>
    BY <2>6 DEF RulesInv, RulesSuffice, HeldPagesLive, OverrunNeedsLargerInit,
                NewestIsKnown, Current
  <2>7. QED
    BY <2>1, <2>2, <2>3, <2>4, <2>5, <2>6 DEF Next, vars, Defragment
<1>3. RulesInv => RulesSuffice
  BY DEF RulesInv
<1>4. QED
  BY <1>1, <1>2, <1>3, BlocksAccounted, HandlesAccounted, PTL DEF Spec
-----------------------------------------------------------------------------
(* What a page reads as depends on its entry in the page table, the cells  *)
(* of its block and the width of a row, not on the block's flag; a page    *)
(* nobody has written reads as empty with any width.                       *)
LEMMA SameText ==
    ASSUME NEW p \in DOMAIN logical_pages_, p \in DOMAIN logical_pages_',
           row_' = row_ \/ logical_pages_[p].written = {},
           logical_pages_'[p] = logical_pages_[p],
           physical_blocks_'[logical_pages_[p].physical_block].k_cache
             = physical_blocks_[logical_pages_[p].physical_block].k_cache
    PROVE  Readable'[p] = Readable[p]
<1>1. CASE row_' = row_
  BY <1>1 DEF Readable, Row, Reaches
<1>2. CASE logical_pages_[p].written = {}
  <2>1. Readable[p] = [i \in {} |-> i]
    BY <1>2 DEF Readable
  <2>2. Readable'[p] = [i \in {} |-> i]
    BY <1>2 DEF Readable
  <2>3. QED
    BY <2>1, <2>2
<1>3. QED
  BY <1>1, <1>2

LEMMA FlagKeepsText ==
    ASSUME IInv, NEW b \in DOMAIN physical_blocks_, NEW flag \in BOOLEAN,
           physical_blocks_' = [physical_blocks_ EXCEPT ![b].free = flag]
    PROVE  \A d \in DOMAIN physical_blocks_ :
             physical_blocks_'[d].k_cache = physical_blocks_[d].k_cache
<1>1. physical_blocks_ \in [0 .. next_block_id_ - 1 -> Block]
  BY DEF IInv, TypeOK
<1>2. PICK size \in PageSizes :
        physical_blocks_[b] \in
          [free : BOOLEAN, k_cache : [0 .. size - 1 -> Values \cup {Blank}]]
  BY <1>1 DEF Block
<1>3. [physical_blocks_[b] EXCEPT !.free = flag].k_cache = physical_blocks_[b].k_cache
  BY <1>2
<1>4. QED
  BY <1>1, <1>3

(* A page has a block of its own that is not free: with one block free     *)
(* there are fewer pages than blocks.                                      *)
LEMMA RoomForAPage ==
    ASSUME IInv, NEW b \in FreeBlocks
    PROVE  Cardinality(DOMAIN logical_pages_) < next_block_id_
<1> DEFINE S == DOMAIN logical_pages_
           all == 0 .. next_block_id_ - 1
           T == all \ {b}
           f == [p \in S |-> logical_pages_[p].physical_block]
<1>1. next_block_id_ \in Nat /\ DOMAIN physical_blocks_ = all /\ b \in all
  BY DEF IInv, TypeOK, FreeBlocks
<1>2. IsFiniteSet(all) /\ Cardinality(all) = next_block_id_
  <2>1. 0 \in Int /\ next_block_id_ - 1 \in Int
    BY <1>1
  <2>2. QED
    BY <1>1, <2>1, FS_Interval
<1>3. /\ IsFiniteSet(T)
      /\ Cardinality(T) = next_block_id_ - 1
  <2>1. Cardinality(T) = Cardinality(all) - 1 /\ IsFiniteSet(T)
    BY <1>1, <1>2, FS_RemoveElement
  <2>2. QED
    BY <1>2, <2>1
<1>4. f \in Injection(S, T)
  <2>1. \A p \in S : f[p] \in T
    BY <1>1 DEF IInv, MappingExact
  <2>2. \A p, q \in S : f[p] = f[q] => p = q
    BY DEF IInv, MappingExact
  <2>3. QED
    BY <2>1, <2>2 DEF Injection, IsInjective
<1>5. IsFiniteSet(S) /\ Cardinality(S) <= Cardinality(T)
  BY <1>3, <1>4, FS_Injection
<1>6. Cardinality(S) \in Nat
  BY <1>5, FS_CardinalityType
<1>7. QED
  BY <1>1, <1>3, <1>5, <1>6

(* init() with rows as wide as before, or with no page written: the store  *)
(* gets larger and no page changes.                                        *)
LEMMA InitEnlarges ==
    ASSUME IInv, NEW shape \in Shapes, NEW n \in 1 .. MaxBlocks,
               InitBlocks(shape[1], shape[2], n), ~Reshapes
    PROVE  Pages!Enlarge
<1>1. /\ logical_pages_' = logical_pages_
      /\ next_block_id_' = next_block_id_ + n
      /\ \A b \in DOMAIN physical_blocks_ :
           b \in 0 .. next_block_id_ + n - 1 => physical_blocks_'[b] = physical_blocks_[b]
  BY DEF InitBlocks
<1>2. n \in Nat \ {0} /\ next_block_id_ \in Nat /\ DOMAIN physical_blocks_ = 0 .. next_block_id_ - 1
  BY BoundsAssumption DEF IInv, TypeOK
<1>3. \A p \in DOMAIN logical_pages_ : Readable'[p] = Readable[p]
  <2> SUFFICES ASSUME NEW p \in DOMAIN logical_pages_
               PROVE  Readable'[p] = Readable[p]
    OBVIOUS
  <2> DEFINE b == logical_pages_[p].physical_block
  <2>1. b \in DOMAIN physical_blocks_
    BY DEF IInv, MappingExact
  <2>2. b \in 0 .. next_block_id_ + n - 1
    BY <1>2, <2>1
  <2>3. row_' = row_ \/ logical_pages_[p].written = {}
    BY DEF Reshapes
  <2>4. QED
    BY <1>1, <2>1, <2>2, <2>3, SameText
<1>4. Readable' = Readable
  BY <1>1, <1>3 DEF Readable
<1>5. next_block_id_' > next_block_id_
  BY <1>1, <1>2
<1>6. QED
  BY <1>4, <1>5 DEF Pages!Enlarge

(* clear(): no pages and no blocks.                                        *)
LEMMA ClearResets == ASSUME Clear PROVE Pages!Reset
<1>1. DOMAIN logical_pages_' = {} /\ next_block_id_' = 0
  BY DEF Clear, Empty
<1>2. Readable' = [p \in {} |-> <<>>]
  BY <1>1 DEF Readable
<1>3. QED
  BY <1>1, <1>2 DEF Pages!Reset

(* allocate_page(): a page that reads as empty, under an id no page has.   *)
LEMMA PopGrants ==
    ASSUME IInv, NEW c \in Clients, free_list_ # <<>>, PopInto(c, free_list_),
           next_page_id_ < MaxPages, UNCHANGED <<next_block_id_, row_>>
    PROVE  Pages!Grant
<1> DEFINE b == Top(free_list_)
           p == next_page_id_
           page == [physical_block |-> b, seq_len |-> 0, written |-> {}]
<1>1. b \in FreeBlocks
  <2>1. /\ free_list_ \in Seq(Nat)
        /\ \A i, j \in 1 .. Len(free_list_) : i # j => free_list_[i] # free_list_[j]
    BY DEF IInv, TypeOK, FreeListExact
  <2>2. b \in Elems(free_list_)
    BY <2>1, PopElems
  <2>3. QED
    BY <2>2 DEF IInv, FreeListExact
<1>2. b \in DOMAIN physical_blocks_
  BY <1>1 DEF FreeBlocks
<1>3. /\ physical_blocks_' = [physical_blocks_ EXCEPT ![b].free = FALSE]
      /\ logical_pages_' = [q \in DOMAIN logical_pages_ \cup {p} |->
                              IF q = p THEN page ELSE logical_pages_[q]]
  BY <1>2 DEF PopInto, AddPage
<1>4. p \in (0 .. MaxPages - 1) \ DOMAIN logical_pages_
  BY BoundsAssumption DEF IInv, TypeOK
<1>5. \A d \in DOMAIN physical_blocks_ :
        physical_blocks_'[d].k_cache = physical_blocks_[d].k_cache
  BY <1>2, <1>3, FlagKeepsText
<1>6. DOMAIN Readable' = DOMAIN Readable \cup {p} /\ DOMAIN Readable = DOMAIN logical_pages_
  BY <1>3 DEF Readable
<1>7. \A q \in DOMAIN logical_pages_ : Readable'[q] = Readable[q]
  <2> SUFFICES ASSUME NEW q \in DOMAIN logical_pages_
               PROVE  Readable'[q] = Readable[q]
    OBVIOUS
  <2>1. logical_pages_[q].physical_block \in DOMAIN physical_blocks_
    BY DEF IInv, MappingExact
  <2>2. q \in DOMAIN logical_pages_' /\ logical_pages_'[q] = logical_pages_[q]
    BY <1>3, <1>4
  <2>3. QED
    BY <1>5, <2>1, <2>2, SameText
<1>8. Readable'[p] = [i \in {} |-> i]
  <2>1. p \in DOMAIN logical_pages_' /\ logical_pages_'[p].written = {}
    BY <1>3
  <2>2. Readable'[p] = [i \in {} \cap DOMAIN physical_blocks_'[logical_pages_'[p].physical_block].k_cache |->
                          physical_blocks_'[logical_pages_'[p].physical_block].k_cache[i]]
    BY <2>1 DEF Readable
  <2>3. QED
    BY <2>2
<1>9. Readable' = [q \in DOMAIN Readable \cup {p} |->
                     IF q = p THEN [i \in {} |-> i] ELSE Readable[q]]
  <2>1. Readable' = [q \in DOMAIN logical_pages_' |-> Readable'[q]]
    BY DEF Readable
  <2>2. DOMAIN logical_pages_' = DOMAIN Readable \cup {p}
    BY <1>3, <1>6
  <2>3. \A q \in DOMAIN Readable \cup {p} :
          Readable'[q] = IF q = p THEN [i \in {} |-> i] ELSE Readable[q]
    BY <1>6, <1>7, <1>8
  <2>4. QED
    BY <2>1, <2>2, <2>3
<1>10. Cardinality(DOMAIN Readable) < next_block_id_
  BY <1>1, <1>6, RoomForAPage
<1>11. p \in (0 .. MaxPages - 1) \ DOMAIN Readable
  BY <1>4, <1>6
<1>12. \E r \in (0 .. MaxPages - 1) \ DOMAIN Readable :
         Readable' = [q \in DOMAIN Readable \cup {r} |->
                        IF q = r THEN [i \in {} |-> i] ELSE Readable[q]]
  BY <1>9, <1>11
<1>13. next_block_id_' = next_block_id_
  OBVIOUS
<1>14. QED
  BY <1>10, <1>12, <1>13 DEF Pages!Grant, Pages!Cardinality, Cardinality

(* free_page(): one page goes, the others read as before.                  *)
LEMMA FreePageDrops ==
    ASSUME IInv, NEW c \in Clients, NEW h \in held[c], FreePage(c, h),
           h.id \in DOMAIN logical_pages_
    PROVE  h.id \in DOMAIN Readable /\ Pages!Drop(h.id)
<1> DEFINE b == logical_pages_[h.id].physical_block
<1>1. b \in DOMAIN physical_blocks_
  BY DEF IInv, MappingExact
<1>2. /\ physical_blocks_' = [physical_blocks_ EXCEPT ![b].free = TRUE]
      /\ logical_pages_' = [p \in DOMAIN logical_pages_ \ {h.id} |-> logical_pages_[p]]
      /\ next_block_id_' = next_block_id_ /\ row_' = row_
  BY <1>1 DEF FreePage
<1>3. \A d \in DOMAIN physical_blocks_ :
        physical_blocks_'[d].k_cache = physical_blocks_[d].k_cache
  BY <1>1, <1>2, FlagKeepsText
<1>4. DOMAIN logical_pages_' = DOMAIN Readable \ {h.id} /\ DOMAIN Readable = DOMAIN logical_pages_
  BY <1>2 DEF Readable
<1>5. \A q \in DOMAIN logical_pages_' : Readable'[q] = Readable[q]
  <2> SUFFICES ASSUME NEW q \in DOMAIN logical_pages_'
               PROVE  Readable'[q] = Readable[q]
    OBVIOUS
  <2>1. q \in DOMAIN logical_pages_ /\ logical_pages_'[q] = logical_pages_[q]
    BY <1>2
  <2>2. logical_pages_[q].physical_block \in DOMAIN physical_blocks_
    BY <2>1 DEF IInv, MappingExact
  <2>3. QED
    BY <1>2, <1>3, <2>1, <2>2, SameText
<1>6. Readable' = [q \in DOMAIN Readable \ {h.id} |-> Readable[q]]
  <2>1. Readable' = [q \in DOMAIN logical_pages_' |-> Readable'[q]]
    BY DEF Readable
  <2>2. QED
    BY <1>4, <1>5, <2>1
<1>7. QED
  BY <1>2, <1>4, <1>6 DEF Pages!Drop

(* set_k() that stays inside its block: the page reads back what was       *)
(* written, and no other page has that block.                              *)
LEMMA SetKWrites ==
    ASSUME IInv, NEW c \in Clients, NEW h \in held[c], NEW pos \in Nat,
           NEW len \in Nat, NEW v \in Values, SetK(c, h, pos, len, v),
           len # 0, overrun' = {}
    PROVE  /\ h.id \in DOMAIN Readable
           /\ (pos .. pos + len - 1) \in
                SUBSET (UNION {0 .. size - 1 : size \in BlockSizes})
           /\ \E row \in Rows : Pages!Write(h.id, pos .. pos + len - 1, row)
<1> DEFINE p == h.id
           b == logical_pages_[p].physical_block
           span == pos .. pos + len - 1
           cells == pos * row_ .. (pos + len) * row_ - 1
           blk == Copied(physical_blocks_[b], cells, v)
           page == Grown(logical_pages_[p], len, span)
           old == physical_blocks_[b].k_cache
           row == [j \in 0 .. row_ - 1 |-> v]
<1>1. /\ p \in DOMAIN logical_pages_ /\ b \in DOMAIN physical_blocks_
      /\ physical_blocks_' = [physical_blocks_ EXCEPT ![b] = blk]
      /\ logical_pages_' = [logical_pages_ EXCEPT ![p] = page]
      /\ cells \subseteq DOMAIN old
      /\ pos + len <= block_size_
      /\ next_block_id_' = next_block_id_ /\ row_' = row_
  BY DEF SetK
<1>2. /\ logical_pages_ \in [DOMAIN logical_pages_ -> Page]
      /\ physical_blocks_ \in [0 .. next_block_id_ - 1 -> Block]
  BY DEF IInv, TypeOK
<1>3. PICK n \in PageSizes :
        physical_blocks_[b] \in
          [free : BOOLEAN, k_cache : [0 .. n - 1 -> Values \cup {Blank}]]
  BY <1>1, <1>2 DEF Block
<1>4. span \in SUBSET (UNION {0 .. size - 1 : size \in BlockSizes})
  <2>1. block_size_ \in Nat /\ block_size_ \in BlockSizes
    BY <1>1, ShapeInUse DEF IInv
  <2>2. span \subseteq 0 .. block_size_ - 1
    BY <1>1, <2>1
  <2>3. QED
    BY <2>1, <2>2
<1>5. blk.k_cache = [i \in DOMAIN old |-> IF i \in cells THEN v ELSE old[i]]
  BY <1>3 DEF Copied
<1>6. page.physical_block = b /\ page.written = logical_pages_[p].written \cup span
  BY DEF Grown
<1> HIDE DEF blk, page
<1>7. DOMAIN Readable = DOMAIN logical_pages_ /\ DOMAIN logical_pages_' = DOMAIN logical_pages_
  BY <1>1 DEF Readable
<1>8. \A q \in DOMAIN logical_pages_ : q # p => Readable'[q] = Readable[q]
  <2> SUFFICES ASSUME NEW q \in DOMAIN logical_pages_, q # p
               PROVE  Readable'[q] = Readable[q]
    OBVIOUS
  <2>1. logical_pages_'[q] = logical_pages_[q] /\ q \in DOMAIN logical_pages_'
    BY <1>1, <1>2
  <2>2. /\ logical_pages_[q].physical_block \in DOMAIN physical_blocks_
        /\ logical_pages_[q].physical_block # b
    BY <1>1 DEF IInv, MappingExact
  <2>3. physical_blocks_'[logical_pages_[q].physical_block]
          = physical_blocks_[logical_pages_[q].physical_block]
    BY <1>1, <1>2, <2>2
  <2>4. QED
    BY <1>1, <2>1, <2>3, SameText
<1> DEFINE seen == {i \in logical_pages_[p].written : Reaches(old, i)}
<1>9. Readable[p] = [i \in seen |-> Row(old, i)]
  BY <1>1 DEF Readable
<1>10. Readable'[p] = [i \in DOMAIN Readable[p] \cup span |->
                         IF i \in span THEN row ELSE Readable[p][i]]
  <2>1. /\ logical_pages_'[p] = page /\ p \in DOMAIN logical_pages_'
        /\ physical_blocks_'[b] = blk
    BY <1>1, <1>2
  <2>2. DOMAIN blk.k_cache = DOMAIN old
    BY <1>5
  <2>4. Readable'[p] = [i \in {i \in page.written : Reaches(old, i)} |->
                          [j \in 0 .. row_ - 1 |-> blk.k_cache[i * row_ + j]]]
    BY <1>1, <1>6, <2>1, <2>2 DEF Readable, Row, Reaches
  <2>5. row_ \in Nat /\ span \subseteq Nat /\ logical_pages_[p].written \subseteq Nat
    <3>1. row_ \in Nat /\ span \subseteq Nat
      BY ShapeInUse DEF IInv
    <3>2. logical_pages_[p] \in Page
      BY <1>1, <1>2
    <3>3. QED
      BY <3>1, <3>2 DEF Page
  <2>6. \A i \in span : Reaches(old, i)
    <3> SUFFICES ASSUME NEW i \in span, NEW j \in 0 .. row_ - 1
                 PROVE  i * row_ + j \in DOMAIN old
      BY DEF Reaches
    <3>1. i * row_ + j \in cells
      BY <2>5, RowsApart
    <3>2. QED
      BY <1>1, <3>1
  <2>7. {i \in page.written : Reaches(old, i)} = DOMAIN Readable[p] \cup span
    BY <1>6, <1>9, <2>6
  <2>8. ASSUME NEW i \in DOMAIN Readable[p] \cup span
        PROVE  [j \in 0 .. row_ - 1 |-> blk.k_cache[i * row_ + j]]
                 = IF i \in span THEN row ELSE Readable[p][i]
    <3>1. /\ i \in Nat
          /\ \A j \in 0 .. row_ - 1 :
               i * row_ + j \in DOMAIN old /\ (i * row_ + j \in cells <=> i \in span)
      <4>1. i \in Nat /\ Reaches(old, i)
        BY <1>9, <2>5, <2>6
      <4>2. \A j \in 0 .. row_ - 1 : i * row_ + j \in cells <=> i \in span
        BY <2>5, <4>1, RowsApart
      <4>3. QED
        BY <4>1, <4>2 DEF Reaches
    <3>2. \A j \in 0 .. row_ - 1 :
            blk.k_cache[i * row_ + j] = IF i \in span THEN v ELSE old[i * row_ + j]
      BY <1>5, <3>1
    <3>3. CASE i \in span
      BY <3>2, <3>3
    <3>4. CASE i \notin span
      <4>1. Readable[p][i] = [j \in 0 .. row_ - 1 |-> old[i * row_ + j]]
        BY <1>9, <3>4 DEF Row
      <4>2. QED
        BY <3>2, <3>4, <4>1
    <3>5. QED
      BY <3>3, <3>4
  <2>9. QED
    BY <2>4, <2>7, <2>8
<1>11. Readable' = [Readable EXCEPT ![p] =
                     [i \in DOMAIN Readable[p] \cup span |->
                        IF i \in span THEN row ELSE Readable[p][i]]]
  <2> DEFINE g == [i \in DOMAIN Readable[p] \cup span |->
                     IF i \in span THEN row ELSE Readable[p][i]]
  <2>1. Readable' = [q \in DOMAIN logical_pages_' |-> Readable'[q]]
    BY DEF Readable
  <2>2. Readable'[p] = g
    BY <1>10
  <2> HIDE DEF g
  <2>3. \A q \in DOMAIN Readable : Readable'[q] = IF q = p THEN g ELSE Readable[q]
    BY <1>7, <1>8, <2>2
  <2>4. Readable' = [q \in DOMAIN Readable |-> IF q = p THEN g ELSE Readable[q]]
    BY <1>7, <2>1, <2>3
  <2>5. Readable' = [Readable EXCEPT ![p] = g]
    BY <2>4
  <2>6. QED
    BY <2>5 DEF g
<1>12. row \in Rows
  <2>1. row_ \in Widths
    <3>1. block_size_ # 0 /\ block_size_ \in Nat
      BY <1>1, ShapeInUse DEF IInv
    <3>2. QED
      BY <3>1, ShapeInUse DEF IInv
  <2>2. QED
    BY <2>1 DEF Rows
<1>13. QED
  BY <1>1, <1>4, <1>7, <1>11, <1>12 DEF Pages!Write

(* For any clients, values and bounds: through blocks that are handed out, *)
(* given back and handed out again, every page reads back what was last    *)
(* written through it and nothing else, until a set_k() leaves its block   *)
(* or an init() gives the rows another width.                              *)
THEOREM PagesArePrivate == Spec => ImplementsPageStore
<1>1. Init => Pages!PagesInit
  <2> SUFFICES ASSUME Init PROVE Pages!PagesInit
    OBVIOUS
  <2>1. DOMAIN logical_pages_ = {} /\ next_block_id_ = 0
    BY DEF Init, Empty
  <2>2. Readable = [p \in {} |-> <<>>]
    BY <2>1 DEF Readable
  <2>3. QED
    BY <2>1, <2>2 DEF Pages!PagesInit
<1>2. IInv /\ [Next]_vars => [overrun' # {} \/ Reshapes \/ Pages!PagesNext]_<<Readable, next_block_id_>>
  <2> SUFFICES ASSUME IInv, [Next]_vars, overrun' = {}, ~Reshapes
               PROVE  \/ Pages!PagesNext
                      \/ UNCHANGED <<Readable, next_block_id_>>
    OBVIOUS
  <2>1. CASE UNCHANGED <<logical_pages_, physical_blocks_, next_block_id_, row_>>
    BY <2>1 DEF Readable, Row, Reaches
  <2>2. ASSUME NEW shape \in Shapes, NEW n \in 1 .. MaxBlocks,
               InitBlocks(shape[1], shape[2], n)
        PROVE  Pages!PagesNext
    BY <2>2, InitEnlarges DEF Pages!PagesNext
  <2>3. CASE Clear
    BY <2>3, ClearResets DEF Pages!PagesNext
  <2>4. ASSUME NEW c \in Clients, AllocatePage(c)
        PROVE  Pages!PagesNext \/ UNCHANGED <<Readable, next_block_id_>>
    <3>1. CASE free_list_ # <<>>
      <4>1. /\ PopInto(c, free_list_) /\ next_page_id_ < MaxPages
            /\ UNCHANGED <<next_block_id_, row_>>
        BY <2>4, <3>1 DEF AllocatePage
      <4>2. QED
        BY <3>1, <4>1, PopGrants DEF Pages!PagesNext
    <3>2. CASE free_list_ = <<>>
      <4>1. UNCHANGED <<physical_blocks_, logical_pages_, next_block_id_, row_>>
        BY <2>4, <3>2, RebuiltIsEmpty DEF AllocatePage
      <4>2. QED
        BY <2>1, <4>1
    <3>3. QED
      BY <3>1, <3>2
  <2>5. ASSUME NEW c \in Clients, NEW h \in held[c], FreePage(c, h)
        PROVE  Pages!PagesNext \/ UNCHANGED <<Readable, next_block_id_>>
    BY <2>1, <2>5, FreePageDrops DEF FreePage, Pages!PagesNext
  <2>6. ASSUME NEW c \in Clients, NEW h \in held[c], NEW pos \in 0 .. block_size_ - 1,
               NEW len \in 1 .. block_size_, NEW v \in Values, SetK(c, h, pos, len, v)
        PROVE  Pages!PagesNext
    <3>1. pos \in Nat /\ len \in Nat /\ len # 0
      BY ShapeInUse DEF IInv
    <3>2. QED
      BY <2>6, <3>1, SetKWrites DEF Pages!PagesNext
  <2>7. CASE Defragment \/ UNCHANGED vars
    BY <2>1, <2>7 DEF Defragment, vars
  <2>8. QED
    BY <2>2, <2>3, <2>4, <2>5, <2>6, <2>7 DEF Next
<1>3. QED
  BY <1>1, <1>2, BlocksAccounted, PTL DEF Spec, ImplementsPageStore
=============================================================================
