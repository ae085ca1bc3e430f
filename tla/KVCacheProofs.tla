---------------------------- MODULE KVCacheProofs ---------------------------
(***************************************************************************)
(* The K/V cache for any number of threads and pages.  Its lock: only      *)
(* evict_lru() leaves a call with the mutex locked.  Its rooms: an append  *)
(* runs past a page only by a race.  Its account: used_memory_ is what the *)
(* pages take, modulo its width.  Its addresses: other threads' calls move *)
(* no page.                                                                *)
(***************************************************************************)
EXTENDS KVCache, FiniteSetTheorems, TLAPS

LockInv ==
    /\ DOMAIN call = Threads
    /\ StuckOnlyInEviction

(* The methods other than evict_lru() leave the mutex free.                *)
LEMMA MethodsRelease ==
    ASSUME NEW t \in Threads, Method(t), DOMAIN call = Threads
    PROVE  /\ mutex_ = None
           /\ DOMAIN call' = Threads
           /\ \/ mutex_' = None
              \/ /\ mutex_' = t
                 /\ UNCHANGED cache
                 /\ \E p \in DOMAIN pages_ \ {0} :
                      call'[t] = [m |-> "free_block", page |-> p]
<1>1. mutex_ = None
  BY DEF Method, InitCache, Clear, AllocateBlock, FreeBlock, GetK, AppendRows,
         EvictLru, Enter
<1>2. CASE EvictLru(t)
  BY <1>1, <1>2 DEF EvictLru, Return
<1>3. CASE Return(t)
  BY <1>1, <1>3 DEF Return
<1>4. QED
  BY <1>2, <1>3 DEF Method, InitCache, Clear, AllocateBlock, FreeBlock, GetK, AppendRows

(* The mutex stays locked only inside evict_lru().                         *)
THEOREM LockedOnlyInEviction == Spec => []LockInv
<1>1. Init => LockInv
  BY DEF Init, LockInv, StuckOnlyInEviction
<1>2. LockInv /\ [Next]_vars => LockInv'
  <2> SUFFICES ASSUME LockInv, [Next]_vars PROVE LockInv'
    OBVIOUS
  <2>1. ASSUME NEW t \in Threads, Call(t) PROVE LockInv'
    <3>1. /\ call[t] = NoCall
          /\ UNCHANGED <<cache, mutex_>>
          /\ \E c : call' = [call EXCEPT ![t] = c]
      BY <2>1 DEF Call
    <3>2. mutex_ # None => mutex_ # t
      BY <3>1 DEF LockInv, StuckOnlyInEviction, NoCall
    <3>3. QED
      BY <3>1, <3>2 DEF LockInv, StuckOnlyInEviction, cache
  <2>2. ASSUME NEW t \in Threads, Method(t) PROVE LockInv'
    <3>1. /\ DOMAIN call' = Threads
          /\ \/ mutex_' = None
             \/ /\ mutex_' = t
                /\ UNCHANGED cache
                /\ \E p \in DOMAIN pages_ \ {0} :
                     call'[t] = [m |-> "free_block", page |-> p]
      BY <2>2, MethodsRelease DEF LockInv
    <3>2. QED
      BY <3>1 DEF LockInv, StuckOnlyInEviction, cache
  <2>3. CASE UNCHANGED vars
    BY <2>3 DEF LockInv, StuckOnlyInEviction, vars
  <2>4. QED
    BY <2>1, <2>2, <2>3 DEF Next
<1>3. QED
  BY <1>1, <1>2, PTL DEF Spec

(* A locked mutex is held by a thread inside evict_lru().                  *)
THEOREM StuckIsEviction == Spec => []StuckOnlyInEviction
<1>1. LockInv => StuckOnlyInEviction
  BY DEF LockInv
<1>2. QED
  BY <1>1, LockedOnlyInEviction, PTL

(* Every call that a thread can make has the shape TypeOK gives it.        *)
LEMMA CallTyped ==
    ASSUME TypeOK, NEW t \in Threads, Call(t)
    PROVE  /\ call' \in [Threads -> Calls \cup AppendCalls \cup {NoCall}]
           /\ UNCHANGED <<cache, mutex_, pointer>>
<1>1. CASE \E c \in Calls : call' = [call EXCEPT ![t] = c]
  BY <1>1 DEF TypeOK, Call
<1>2. ASSUME NEW p \in DOMAIN pages_, NEW n \in 1 .. max_seq_ - pages_[p].seq_len,
             call' = [call EXCEPT ![t] = [m |-> "append", page |-> p, len |-> n,
                                         seen |-> <<pages_[p], max_seq_>>]]
      PROVE  call' \in [Threads -> Calls \cup AppendCalls \cup {NoCall}]
  <2>1. pages_[p] \in Page /\ p \in PageIds /\ n \in Nat
    BY DEF TypeOK
  <2>2. [m |-> "append", page |-> p, len |-> n, seen |-> <<pages_[p], max_seq_>>]
          \in AppendCalls
    BY <2>1 DEF AppendCalls, TypeOK
  <2>3. QED
    BY <1>2, <2>2 DEF TypeOK
<1>3. QED
  BY <1>1, <1>2 DEF Call

(* What a call carries, by method.                                         *)
LEMMA CallFields ==
    ASSUME TypeOK, NEW t \in Threads
    PROVE  /\ call[t].m = "init" => call[t].len \in SeqLens
           /\ call[t].m \in {"allocate_block", "append"} =>
                call[t].page \in PageIds /\ call[t].len \in Nat
           /\ call[t].m \in {"free_block", "get_k"} => call[t].page \in PageIds
<1>1. call[t] \in Calls \cup AppendCalls \cup {NoCall}
  BY DEF TypeOK
<1>2. QED
  BY <1>1 DEF Calls, AppendCalls, NoCall

(* Types are preserved method by method.                                   *)
THEOREM TypeCorrect == Spec => []TypeOK
<1>1. Init => TypeOK
  <2> SUFFICES ASSUME Init PROVE TypeOK
    OBVIOUS
  <2>1. pages_ \in [DOMAIN pages_ -> Page] /\ DOMAIN pages_ = {}
    BY DEF Init
  <2>2. 0 \in 0 .. Wrap - 1
    BY KVAssumption
  <2>3. QED
    BY <2>1, <2>2 DEF Init, TypeOK
<1>2. TypeOK /\ [Next]_vars => TypeOK'
  <2> SUFFICES ASSUME TypeOK, [Next]_vars PROVE TypeOK'
    OBVIOUS
  <2>1. ASSUME NEW t \in Threads, Call(t) PROVE TypeOK'
    BY <2>1, CallTyped DEF TypeOK, cache
  <2>2. ASSUME NEW t \in Threads, Return(t)
        PROVE  /\ call' \in [Threads -> Calls \cup AppendCalls \cup {NoCall}]
               /\ mutex_' \in Threads \cup {None}
    BY <2>2 DEF Return, TypeOK
  <2>3. ASSUME NEW t \in Threads, InitCache(t) PROVE TypeOK'
    BY <2>2, <2>3, CallFields DEF InitCache, Enter, TypeOK
  <2>4. ASSUME NEW t \in Threads, Clear(t) PROVE TypeOK'
    <3>1. pages_' \in [DOMAIN pages_' -> Page] /\ DOMAIN pages_' = {}
      BY <2>4 DEF Clear
    <3>2. 0 \in 0 .. Wrap - 1
      BY KVAssumption
    <3>3. QED
      BY <2>2, <2>4, <3>1, <3>2 DEF Clear, TypeOK
  <2>5. ASSUME NEW t \in Threads, AllocateBlock(t) PROVE TypeOK'
    <3>1. CASE UNCHANGED cache
      BY <2>2, <2>5, <3>1 DEF AllocateBlock, TypeOK, cache
    <3>2. CASE call[t].page \notin DOMAIN pages_
      <4>1. call[t].page \in PageIds /\ call[t].len \in Nat
        BY <2>5, CallFields DEF AllocateBlock, Enter
      <4>2. NewPage(call[t].len) \in Page
        BY <4>1 DEF NewPage, Page, TypeOK
      <4>3. pages_' \in [DOMAIN pages_' -> Page] /\ DOMAIN pages_' \subseteq PageIds
        BY <2>5, <3>2, <4>1, <4>2 DEF AllocateBlock, TypeOK
      <4>4. used_memory_' \in 0 .. Wrap - 1
        <5>1. used_memory_ + max_seq_ \in Int
          BY KVAssumption DEF TypeOK
        <5>2. QED
          BY <2>5, <3>2, <5>1, KVAssumption DEF AllocateBlock
      <4>5. /\ max_seq_' = max_seq_ /\ buffers' \in Nat /\ resized' = resized
            /\ overrun' = overrun /\ pointer' = pointer
            /\ DOMAIN pages_ \subseteq DOMAIN pages_'
        BY <2>5, <3>2 DEF AllocateBlock, TypeOK
      <4>6. QED
        BY <2>2, <2>5, <4>3, <4>4, <4>5 DEF AllocateBlock, TypeOK
    <3>3. QED
      BY <2>5, <3>1, <3>2 DEF AllocateBlock
  <2>6. ASSUME NEW t \in Threads, FreeBlock(t) PROVE TypeOK'
    <3>1. CASE UNCHANGED cache
      BY <2>2, <2>6, <3>1 DEF FreeBlock, TypeOK, cache
    <3>2. CASE call[t].page \in DOMAIN pages_
      <4>1. pages_' \in [DOMAIN pages_' -> Page] /\ DOMAIN pages_' \subseteq PageIds
        BY <2>6, <3>2 DEF FreeBlock, TypeOK
      <4>2. used_memory_' \in 0 .. Wrap - 1
        <5>1. used_memory_ - max_seq_ \in Int
          BY KVAssumption DEF TypeOK
        <5>2. QED
          BY <2>6, <3>2, <5>1, KVAssumption DEF FreeBlock
      <4>3. /\ overrun' \subseteq DOMAIN pages_'
            /\ max_seq_' = max_seq_ /\ buffers' = buffers /\ resized' = resized
            /\ pointer' = pointer
        BY <2>6, <3>2 DEF FreeBlock, TypeOK
      <4>4. QED
        BY <2>2, <2>6, <4>1, <4>2, <4>3 DEF FreeBlock, TypeOK
    <3>3. QED
      BY <2>6, <3>1, <3>2 DEF FreeBlock
  <2>7. ASSUME NEW t \in Threads, GetK(t) PROVE TypeOK'
    <3>1. call[t].page \in PageIds
      BY <2>7, CallFields DEF GetK, Enter
    <3>2. pointer' \in [Threads -> Pointer \cup {None}]
      <4>1. CASE call[t].page \in DOMAIN pages_
        <5>1. [page |-> call[t].page, buffer |-> pages_[call[t].page].buffer] \in Pointer
          BY <3>1, <4>1 DEF TypeOK, Page, Pointer
        <5>2. QED
          BY <2>7, <4>1, <5>1 DEF GetK, TypeOK
      <4>2. CASE call[t].page \notin DOMAIN pages_
        BY <2>7, <4>2 DEF GetK, TypeOK
      <4>3. QED
        BY <4>1, <4>2
    <3>3. QED
      BY <2>2, <2>7, <3>2 DEF GetK, TypeOK, cache
  <2>8. ASSUME NEW t \in Threads, AppendRows(t) PROVE TypeOK'
    <3>1. CASE UNCHANGED cache
      BY <2>2, <2>8, <3>1 DEF AppendRows, TypeOK, cache
    <3>2. CASE call[t].page \in DOMAIN pages_
      <4> DEFINE p == call[t].page
                 end == pages_[p].seq_len + call[t].len
      <4>1. end \in Nat /\ pages_[p] \in Page
        BY <2>8, <3>2, CallFields DEF AppendRows, Enter, TypeOK, Page
      <4>2. pages_' = [pages_ EXCEPT ![p].seq_len = end]
        BY <2>8, <3>2 DEF AppendRows
      <4>3. [pages_[p] EXCEPT !.seq_len = end] \in Page
        BY <4>1 DEF Page
      <4>4. pages_' \in [DOMAIN pages_' -> Page] /\ DOMAIN pages_' = DOMAIN pages_
        BY <3>2, <4>2, <4>3 DEF TypeOK
      <4>5. overrun' \subseteq DOMAIN pages_
        BY <2>8, <3>2 DEF AppendRows, TypeOK
      <4>6. UNCHANGED <<max_seq_, used_memory_, buffers, resized, pointer>>
        BY <2>8, <3>2 DEF AppendRows
      <4>7. QED
        BY <2>2, <2>8, <4>4, <4>5, <4>6 DEF AppendRows, TypeOK
    <3>3. QED
      BY <2>8, <3>1, <3>2 DEF AppendRows
  <2>9. ASSUME NEW t \in Threads, EvictLru(t) PROVE TypeOK'
    <3>1. CASE Return(t)
      BY <2>2, <2>9, <3>1 DEF EvictLru, TypeOK, cache
    <3>2. ASSUME NEW oldest \in DOMAIN pages_ \ {0}, mutex_' = t,
                 call' = [call EXCEPT ![t] = [m |-> "free_block", page |-> oldest]]
          PROVE  TypeOK'
      <4>1. [m |-> "free_block", page |-> oldest] \in Calls
        BY DEF TypeOK, Calls
      <4>2. QED
        BY <2>9, <3>2, <4>1 DEF EvictLru, TypeOK, cache
    <3>3. QED
      BY <2>9, <3>1, <3>2 DEF EvictLru
  <2>10. CASE UNCHANGED vars
    BY <2>10 DEF TypeOK, vars
  <2>11. QED
    BY <2>1, <2>3, <2>4, <2>5, <2>6, <2>7, <2>8, <2>9, <2>10 DEF Next, Method
<1>3. QED
  BY <1>1, <1>2, PTL DEF Spec

(* What the length check of a caller rests on: while no init() resized     *)
(* under pages, every page has the room a caller reads off max_seq_, and a *)
(* pending append() fits the page as it was when the call was made.        *)
RoomInv ==
    /\ resized \/ \A p \in DOMAIN pages_ : pages_[p].room = max_seq_
    /\ \A t \in Threads : call[t].m = "append" =>
         call[t].seen[1].seq_len + call[t].len <= call[t].seen[2]

(* A call made now fits now.                                               *)
LEMMA CallFits ==
    ASSUME TypeOK, RoomInv, NEW t \in Threads, Call(t)
    PROVE  RoomInv'
<1>1. UNCHANGED <<pages_, max_seq_, resized>>
  BY DEF Call, cache
<1>2. CASE \E c \in Calls : call' = [call EXCEPT ![t] = c]
  BY <1>1, <1>2 DEF RoomInv, TypeOK, Calls
<1>3. ASSUME NEW p \in DOMAIN pages_, NEW n \in 1 .. max_seq_ - pages_[p].seq_len,
             call' = [call EXCEPT ![t] = [m |-> "append", page |-> p, len |-> n,
                                         seen |-> <<pages_[p], max_seq_>>]]
      PROVE  RoomInv'
  <2>1. pages_[p].seq_len \in Nat /\ max_seq_ \in Nat
    BY KVAssumption DEF TypeOK, Page
  <2>2. pages_[p].seq_len + n <= max_seq_
    BY <2>1
  <2>3. /\ call'[t] = [m |-> "append", page |-> p, len |-> n, seen |-> <<pages_[p], max_seq_>>]
        /\ \A u \in Threads : u # t => call'[u] = call[u]
    BY <1>3 DEF TypeOK
  <2>4. QED
    BY <1>1, <2>2, <2>3 DEF RoomInv
<1>4. QED
  BY <1>2, <1>3 DEF Call

(* A method keeps the room of the pages, or sets resized.                  *)
LEMMA MethodKeepsRoom ==
    ASSUME TypeOK, RoomInv, NEW t \in Threads, Method(t)
    PROVE  RoomInv'
<1>1. \A u \in Threads : call'[u].m = "append" => call'[u] = call[u]
  BY DEF Method, InitCache, Clear, AllocateBlock, FreeBlock, GetK, AppendRows,
         EvictLru, Return, NoCall, TypeOK
<1>2. resized' \/ \A p \in DOMAIN pages_' : pages_'[p].room = max_seq_'
  <2>1. CASE UNCHANGED cache
    BY <2>1 DEF RoomInv, cache
  <2>2. CASE InitCache(t)
    BY <2>2 DEF InitCache, RoomInv, TypeOK
  <2>3. CASE Clear(t)
    BY <2>3 DEF Clear
  <2>4. CASE AllocateBlock(t)
    BY <2>1, <2>4 DEF AllocateBlock, RoomInv, NewPage, TypeOK
  <2>5. CASE FreeBlock(t)
    BY <2>1, <2>5 DEF FreeBlock, RoomInv, TypeOK
  <2>6. CASE AppendRows(t)
    <3>1. CASE call[t].page \in DOMAIN pages_
      <4> DEFINE p == call[t].page
      <4>1. pages_[p] \in Page /\ pages_ \in [DOMAIN pages_ -> Page]
        BY <3>1 DEF TypeOK
      <4>2. /\ pages_' = [pages_ EXCEPT ![p].seq_len = pages_[p].seq_len + call[t].len]
            /\ UNCHANGED <<max_seq_, resized>>
        BY <2>6, <3>1 DEF AppendRows
      <4>3. \A q \in DOMAIN pages_ : pages_'[q].room = pages_[q].room
        BY <3>1, <4>1, <4>2 DEF Page
      <4>4. QED
        BY <4>2, <4>3 DEF RoomInv
    <3>2. QED
      BY <2>1, <2>6, <3>1 DEF AppendRows
  <2>7. QED
    BY <2>1, <2>2, <2>3, <2>4, <2>5, <2>6 DEF Method, GetK, EvictLru
<1>3. QED
  BY <1>1, <1>2 DEF RoomInv

(* For any threads, pages and lengths: append() leaves the page only when  *)
(* what its caller looked at has changed, or init() resized under pages.   *)
THEOREM OverrunIsARace == Spec => OverrunOnlyByRace
<1>1. Init => RoomInv
  BY DEF Init, RoomInv, NoCall
<1>2. TypeOK /\ RoomInv /\ [Next]_vars => RoomInv'
  BY CallFits, MethodKeepsRoom DEF Next, RoomInv, vars
<1>3. TypeOK /\ RoomInv /\ [Next]_vars =>
        [\A p \in overrun' \ overrun :
           resized \/ \E t \in Threads : /\ call[t].m = "append"
                                         /\ call'[t] = NoCall
                                         /\ call[t].seen # <<pages_[p], max_seq_>>]_vars
  <2> SUFFICES ASSUME TypeOK, RoomInv, Next, NEW p \in overrun' \ overrun, ~resized
               PROVE  \E t \in Threads : /\ call[t].m = "append"
                                         /\ call'[t] = NoCall
                                         /\ call[t].seen # <<pages_[p], max_seq_>>
    OBVIOUS
  <2>1. PICK t \in Threads : Call(t) \/ Method(t)
    BY DEF Next
  <2>2. AppendRows(t)
    BY <2>1 DEF Call, Method, InitCache, Clear, AllocateBlock, FreeBlock, GetK,
                EvictLru, cache
  <2>3. /\ p = call[t].page /\ p \in DOMAIN pages_
        /\ ~(pages_[p].seq_len + call[t].len <= pages_[p].room)
        /\ call[t].m = "append" /\ call'[t] = NoCall
    BY <2>2 DEF AppendRows, Enter, Return, cache, TypeOK
  <2>4. pages_[p].room = max_seq_
    BY <2>3 DEF RoomInv
  <2>5. call[t].seen[1].seq_len + call[t].len <= call[t].seen[2]
    BY <2>3 DEF RoomInv
  <2>6. call[t].seen # <<pages_[p], max_seq_>>
    BY <2>3, <2>4, <2>5
  <2>7. QED
    BY <2>3, <2>6
<1>4. QED
  BY <1>1, <1>2, <1>3, TypeCorrect, PTL DEF Spec, OverrunOnlyByRace
-----------------------------------------------------------------------------
(* A remainder is determined by the equation that defines it.              *)
LEMMA RemainderUnique ==
    ASSUME NEW W \in Nat \ {0}, NEW q \in Int, NEW r \in 0 .. W - 1
    PROVE  (W * q + r) % W = r
<1> DEFINE n == W * q + r
           p == n \div W
           s == n % W
<1>1. n \in Int /\ n = W * p + s /\ s \in 0 .. W - 1 /\ p \in Int
  BY SMTT(20)
<1> HIDE DEF p, s
<1>2. ~(p >= q + 1)
  <2> SUFFICES ASSUME p >= q + 1 PROVE FALSE
    OBVIOUS
  <2>1. W * p >= W * (q + 1) /\ W * (q + 1) = W * q + W
    BY <1>1, SMTT(20)
  <2>2. QED
    BY <1>1, <2>1, SMTT(20)
<1>3. ~(p <= q - 1)
  <2> SUFFICES ASSUME p <= q - 1 PROVE FALSE
    OBVIOUS
  <2>1. W * (p + 1) <= W * q /\ W * (p + 1) = W * p + W
    BY <1>1, SMTT(20)
  <2>2. QED
    BY <1>1, <2>1, SMTT(20)
<1>4. p = q
  BY <1>1, <1>2, <1>3
<1>5. QED
  BY <1>1, <1>4, SMTT(20) DEF s

(* An unsigned account that takes or gives back an amount holds the amount *)
(* it would hold without a width, modulo that width.                       *)
LEMMA UnsignedStep ==
    ASSUME NEW W \in Nat \ {0}, NEW a \in Int, NEW d \in Int
    PROVE  ((a % W) + d) % W = (a + d) % W
<1> DEFINE q == a \div W
           r == a % W
           p == (r + d) \div W
           s == (r + d) % W
<1>1. a = W * q + r /\ r \in 0 .. W - 1 /\ q \in Int
  BY SMTT(20)
<1>2. r + d = W * p + s /\ s \in 0 .. W - 1 /\ p \in Int
  BY <1>1, SMTT(20)
<1> HIDE DEF q, r, p, s
<1>3. a + d = W * (q + p) + s
  <2>1. W * (q + p) = W * q + W * p
    BY <1>1, <1>2, SMTT(20)
  <2>2. QED
    BY <1>1, <1>2, <2>1
<1>4. (a + d) % W = s
  <2>1. q + p \in Int /\ s \in 0 .. W - 1
    BY <1>1, <1>2
  <2>2. (W * (q + p) + s) % W = s
    BY <2>1, RemainderUnique
  <2>3. QED
    BY <1>3, <2>2
<1>5. QED
  BY <1>4 DEF r, s

(* What makes the account right: there are finitely many pages.            *)
AccountInv == IsFiniteSet(DOMAIN pages_) /\ AccountingExact

(* One page more or less, of the size all pages have.                      *)
LEMMA AccountStep ==
    ASSUME TypeOK, AccountInv, ~resized, NEW n \in Nat, NEW e \in {1, -1},
           n = Cardinality(DOMAIN pages_) + e
    PROVE  (used_memory_ + e * max_seq_) % Wrap = (n * max_seq_) % Wrap
<1> DEFINE k == Cardinality(DOMAIN pages_)
<1>1. k \in Nat
  BY FS_CardinalityType DEF AccountInv
<1>2. max_seq_ \in Nat
  BY KVAssumption DEF TypeOK
<1>3. used_memory_ = (k * max_seq_) % Wrap
  BY DEF AccountInv, AccountingExact
<1> HIDE DEF k
<1>4. k * max_seq_ \in Int /\ e * max_seq_ \in Int
  BY <1>1, <1>2
<1>5. k * max_seq_ + e * max_seq_ = n * max_seq_
  <2>1. CASE e = 1
    BY <1>1, <1>2, <2>1, SMTT(20) DEF k
  <2>2. CASE e = -1
    BY <1>1, <1>2, <2>2, SMTT(20) DEF k
  <2>3. QED
    BY <2>1, <2>2
<1>6. QED
  BY <1>3, <1>4, <1>5, UnsignedStep, KVAssumption

LEMMA AllocateKeepsAccount ==
    ASSUME TypeOK, AccountInv, NEW t \in Threads, AllocateBlock(t),
           call[t].page \notin DOMAIN pages_
    PROVE  AccountInv'
<1> DEFINE p == call[t].page
<1>1. /\ pages_' = [q \in DOMAIN pages_ \cup {p} |->
                      IF q = p THEN NewPage(call[t].len) ELSE pages_[q]]
      /\ used_memory_' = (used_memory_ + max_seq_) % Wrap
      /\ UNCHANGED <<max_seq_, resized>>
  BY DEF AllocateBlock
<1>2. DOMAIN pages_' = DOMAIN pages_ \cup {p}
  BY <1>1
<1>3. /\ IsFiniteSet(DOMAIN pages_')
      /\ Cardinality(DOMAIN pages_') = Cardinality(DOMAIN pages_) + 1
      /\ Cardinality(DOMAIN pages_) \in Nat
  <2>1. IsFiniteSet(DOMAIN pages_)
    BY DEF AccountInv
  <2>2. /\ IsFiniteSet(DOMAIN pages_ \cup {p})
        /\ Cardinality(DOMAIN pages_ \cup {p}) = Cardinality(DOMAIN pages_) + 1
    BY <2>1, FS_AddElement
  <2>3. QED
    BY <1>2, <2>1, <2>2, FS_CardinalityType
<1>4. CASE ~resized
  <2>1. (used_memory_ + 1 * max_seq_) % Wrap = (Cardinality(DOMAIN pages_') * max_seq_) % Wrap
    BY <1>3, <1>4, AccountStep
  <2>2. 1 * max_seq_ = max_seq_
    BY KVAssumption DEF TypeOK
  <2>3. \A q \in DOMAIN pages_' : pages_'[q].room = max_seq_'
    BY <1>1, <1>4 DEF AccountInv, AccountingExact, NewPage
  <2>4. QED
    BY <1>1, <1>3, <2>1, <2>2, <2>3 DEF AccountInv, AccountingExact
<1>5. QED
  BY <1>1, <1>3, <1>4 DEF AccountInv, AccountingExact

LEMMA FreeKeepsAccount ==
    ASSUME TypeOK, AccountInv, NEW t \in Threads, FreeBlock(t),
           call[t].page \in DOMAIN pages_
    PROVE  AccountInv'
<1> DEFINE p == call[t].page
<1>1. /\ pages_' = [q \in DOMAIN pages_ \ {p} |-> pages_[q]]
      /\ used_memory_' = (used_memory_ - max_seq_) % Wrap
      /\ UNCHANGED <<max_seq_, resized>>
  BY DEF FreeBlock
<1>2. DOMAIN pages_' = DOMAIN pages_ \ {p}
  BY <1>1
<1>3. /\ IsFiniteSet(DOMAIN pages_')
      /\ Cardinality(DOMAIN pages_') = Cardinality(DOMAIN pages_) - 1
      /\ Cardinality(DOMAIN pages_) \in Nat
      /\ Cardinality(DOMAIN pages_') \in Nat
  <2>1. IsFiniteSet(DOMAIN pages_)
    BY DEF AccountInv
  <2>2. /\ IsFiniteSet(DOMAIN pages_ \ {p})
        /\ Cardinality(DOMAIN pages_ \ {p}) = Cardinality(DOMAIN pages_) - 1
    BY <2>1, FS_RemoveElement
  <2>3. QED
    BY <1>2, <2>1, <2>2, FS_CardinalityType
<1>4. CASE ~resized
  <2>1. Cardinality(DOMAIN pages_') = Cardinality(DOMAIN pages_) + (-1)
    BY <1>3
  <2>2. (used_memory_ + (-1) * max_seq_) % Wrap
          = (Cardinality(DOMAIN pages_') * max_seq_) % Wrap
    BY <1>3, <1>4, <2>1, AccountStep
  <2>3. used_memory_ + (-1) * max_seq_ = used_memory_ - max_seq_
    BY KVAssumption DEF TypeOK
  <2>4. \A q \in DOMAIN pages_' : pages_'[q].room = max_seq_'
    BY <1>1, <1>4 DEF AccountInv, AccountingExact
  <2>5. QED
    BY <1>1, <1>3, <2>2, <2>3, <2>4 DEF AccountInv, AccountingExact
<1>5. QED
  BY <1>1, <1>3, <1>4 DEF AccountInv, AccountingExact

(* append() changes no page's room, and no page comes or goes.             *)
LEMMA AppendKeepsRooms ==
    ASSUME TypeOK, NEW t \in Threads, AppendRows(t)
    PROVE  /\ UNCHANGED <<max_seq_, used_memory_, resized, pointer>>
           /\ DOMAIN pages_' = DOMAIN pages_
           /\ \A q \in DOMAIN pages_ : /\ pages_'[q].room = pages_[q].room
                                       /\ pages_'[q].buffer = pages_[q].buffer
<1>1. CASE call[t].page \in DOMAIN pages_
  <2> DEFINE p == call[t].page
             end == pages_[p].seq_len + call[t].len
  <2>1. /\ pages_' = [pages_ EXCEPT ![p] = [pages_[p] EXCEPT !.seq_len = end]]
        /\ UNCHANGED <<max_seq_, used_memory_, resized, pointer>>
    BY <1>1 DEF AppendRows
  <2>2. pages_ \in [DOMAIN pages_ -> Page]
    BY DEF TypeOK
  <2>3. /\ [pages_[p] EXCEPT !.seq_len = end].room = pages_[p].room
        /\ [pages_[p] EXCEPT !.seq_len = end].buffer = pages_[p].buffer
    BY <1>1, <2>2 DEF Page
  <2> HIDE DEF end
  <2>4. QED
    BY <1>1, <2>1, <2>2, <2>3
<1>2. CASE call[t].page \notin DOMAIN pages_
  BY <1>2 DEF AppendRows, cache
<1>3. QED
  BY <1>1, <1>2

(* For any number of threads and pages and any width of the counter: the   *)
(* account of init(), allocate_block(), free_block() and clear() is exact  *)
(* as long as no init() changes the page size under pages.                 *)
THEOREM AccountIsExact == Spec => []AccountingExact
<1>1. Init => AccountInv
  <2> SUFFICES ASSUME Init PROVE AccountInv
    OBVIOUS
  <2>1. DOMAIN pages_ = {} /\ used_memory_ = 0 /\ max_seq_ = 0
    BY DEF Init
  <2>2. IsFiniteSet(DOMAIN pages_) /\ Cardinality(DOMAIN pages_) = 0
    BY <2>1, FS_EmptySet
  <2>3. 0 % Wrap = 0
    BY KVAssumption
  <2>4. QED
    BY <2>1, <2>2, <2>3 DEF AccountInv, AccountingExact
<1>2. TypeOK /\ AccountInv /\ [Next]_vars => AccountInv'
  <2> SUFFICES ASSUME TypeOK, AccountInv, [Next]_vars PROVE AccountInv'
    OBVIOUS
  <2>1. CASE UNCHANGED <<pages_, max_seq_, used_memory_, resized>>
    BY <2>1 DEF AccountInv, AccountingExact
  <2>2. ASSUME NEW t \in Threads, InitCache(t) PROVE AccountInv'
    <3>1. /\ UNCHANGED <<pages_, used_memory_>>
          /\ ~resized' => ~resized /\ (DOMAIN pages_ = {} \/ max_seq_' = max_seq_)
          /\ max_seq_' \in Int
      <4>1. call[t].len \in SeqLens
        BY <2>2, CallFields DEF InitCache, Enter
      <4>2. max_seq_' \in Int
        <5>1. max_seq_' = call[t].len
          BY <2>2, Zenon DEF InitCache
        <5>2. \A n \in SeqLens : n \in Int
          BY KVAssumption
        <5>3. QED
          BY <4>1, <5>1, <5>2, Zenon
      <4>3. ~resized' => ~resized /\ (DOMAIN pages_ = {} \/ max_seq_' = max_seq_)
        BY <2>2, Zenon DEF InitCache
      <4>4. QED
        BY <2>2, <4>2, <4>3 DEF InitCache
    <3>2. CASE DOMAIN pages_ = {}
      <4>1. Cardinality(DOMAIN pages_) = 0
        BY <3>2, FS_EmptySet
      <4>2. Cardinality(DOMAIN pages_) * max_seq_ = Cardinality(DOMAIN pages_) * max_seq_'
        BY <3>1, <4>1, KVAssumption DEF TypeOK
      <4>3. QED
        BY <3>1, <3>2, <4>2 DEF AccountInv, AccountingExact
    <3>3. QED
      BY <3>1, <3>2 DEF AccountInv, AccountingExact
  <2>3. ASSUME NEW t \in Threads, Clear(t) PROVE AccountInv'
    <3>1. DOMAIN pages_' = {} /\ used_memory_' = 0 /\ max_seq_' = max_seq_
      BY <2>3 DEF Clear
    <3>2. IsFiniteSet(DOMAIN pages_') /\ Cardinality(DOMAIN pages_') = 0
      BY <3>1, FS_EmptySet
    <3>3. 0 * max_seq_ = 0 /\ 0 % Wrap = 0
      BY KVAssumption DEF TypeOK
    <3>4. QED
      BY <3>1, <3>2, <3>3 DEF AccountInv, AccountingExact
  <2>4. ASSUME NEW t \in Threads, AllocateBlock(t) PROVE AccountInv'
    BY <2>1, <2>4, AllocateKeepsAccount DEF AllocateBlock, cache
  <2>5. ASSUME NEW t \in Threads, FreeBlock(t) PROVE AccountInv'
    BY <2>1, <2>5, FreeKeepsAccount DEF FreeBlock, cache
  <2>6. ASSUME NEW t \in Threads, AppendRows(t) PROVE AccountInv'
    BY <2>6, AppendKeepsRooms DEF AccountInv, AccountingExact
  <2>7. ASSUME NEW t \in Threads, Call(t) \/ GetK(t) \/ EvictLru(t) PROVE AccountInv'
    BY <2>1, <2>7 DEF Call, GetK, EvictLru, cache
  <2>8. CASE UNCHANGED vars
    BY <2>1, <2>8 DEF vars
  <2>9. QED
    BY <2>2, <2>3, <2>4, <2>5, <2>6, <2>7, <2>8 DEF Next, Method
<1>3. AccountInv => AccountingExact
  BY DEF AccountInv
<1>4. QED
  BY <1>1, <1>2, <1>3, TypeCorrect, PTL DEF Spec

(* For any threads and pages: what get_k() gave out is good until its page *)
(* is freed or everything is cleared.  No other method moves a page, and a *)
(* page that exists is not allocated anew.                                 *)
THEOREM AddressesAreStable == Spec => PointersOutliveOtherCalls
<1>1. TypeOK /\ [Next]_vars =>
        [\A t \in Threads :
           Good(pointer[t]) /\ pointer'[t] = pointer[t] /\ ~Good(pointer[t])'
             => \E u \in Threads : Dropped(u, pointer[t].page)]_vars
  <2> SUFFICES ASSUME TypeOK, Next, NEW t \in Threads, Good(pointer[t]),
                      pointer'[t] = pointer[t], ~Good(pointer[t])'
               PROVE  \E u \in Threads : Dropped(u, pointer[t].page)
    OBVIOUS
  <2> DEFINE p == pointer[t].page
  <2>1. /\ p \in DOMAIN pages_
        /\ ~(p \in DOMAIN pages_' /\ pages_'[p].buffer = pages_[p].buffer)
    BY DEF Good
  <2>2. PICK u \in Threads : Call(u) \/ Method(u)
    BY DEF Next
  <2>3. CASE AppendRows(u)
    BY <2>1, <2>3, AppendKeepsRooms
  <2>4. CASE AllocateBlock(u)
    <3>1. DOMAIN pages_ \subseteq DOMAIN pages_' /\ pages_'[p] = pages_[p]
      BY <2>1, <2>4 DEF AllocateBlock, cache
    <3>2. QED
      BY <2>1, <3>1
  <2>5. CASE Clear(u)
    BY <2>5 DEF Clear, Enter, Return, Dropped, TypeOK
  <2>6. CASE FreeBlock(u)
    <3>1. call[u].page = p
      BY <2>1, <2>6 DEF FreeBlock, cache
    <3>2. QED
      BY <2>6, <3>1 DEF FreeBlock, Enter, Return, Dropped, TypeOK
  <2>7. CASE Call(u) \/ InitCache(u) \/ GetK(u) \/ EvictLru(u)
    <3>1. pages_' = pages_
      BY <2>7 DEF Call, InitCache, GetK, EvictLru, cache
    <3>2. QED
      BY <2>1, <3>1
  <2>8. QED
    BY <2>2, <2>3, <2>4, <2>5, <2>6, <2>7 DEF Method
<1>2. QED
  BY <1>1, TypeCorrect, PTL DEF Spec, PointersOutliveOtherCalls
=============================================================================
