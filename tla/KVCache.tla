------------------------------- MODULE KVCache ------------------------------
(***************************************************************************)
(* The K/V cache of core/nova_kv_cache.cpp (src/main/remaining/cache.ii),  *)
(* called by several threads.  Each method holds mutex_ from its first     *)
(* line to its return, so a method that does not lock again is one step    *)
(* that a thread takes when it finds the mutex free.  evict_lru() calls    *)
(* free_block() with the mutex held, and mutex_ is not recursive.          *)
(*                                                                         *)
(* num_heads_ * head_dim_ is one unit: a page created under max_seq_ has   *)
(* room for that many positions, and counts as that much memory.  The      *)
(* members no method reads (total_memory_, max_batch_, use_count,          *)
(* page.max_seq) are left out, and so is last_used, which is only ever 0.  *)
(***************************************************************************)
EXTENDS Integers, FiniteSets, FiniteSetsExt

CONSTANTS Threads,
          PageIds,     (* the page ids threads use, 0 among them            *)
          SeqLens,     (* the max_seq arguments of init()                   *)
          MaxBuffers,  (* bound: pages ever allocated                       *)
          Wrap,        (* used_memory_ counts modulo Wrap (2^64 in the code)*)
          None

ASSUME KVAssumption ==
    /\ PageIds \subseteq Nat
    /\ SeqLens \subseteq Nat \ {0}
    /\ MaxBuffers \in Nat
    /\ Wrap \in Nat \ {0}
    /\ None \notin Threads

VARIABLES
    pages_,       (* page id -> [seq_len, room, buffer]                     *)
    max_seq_,
    used_memory_,
    mutex_,       (* the thread inside a method, or None                    *)
    call,         (* thread -> the call it has made and not returned from   *)
    pointer,      (* thread -> what get_k() last gave it                    *)
    buffers,      (* how many buffers were ever allocated                   *)
    resized,      (* init() changed the page size under existing pages      *)
    overrun       (* pages some append() wrote past the end of              *)

vars == <<pages_, max_seq_, used_memory_, mutex_, call, pointer, buffers,
          resized, overrun>>
cache == <<pages_, max_seq_, used_memory_, buffers, resized, overrun>>
-----------------------------------------------------------------------------
NoCall == [m |-> "none"]

Calls == [m : {"init"}, len : SeqLens]
         \cup [m : {"clear", "evict_lru"}]
         \cup [m : {"free_block", "get_k"}, page : PageIds]
         \cup [m : {"allocate_block"}, page : PageIds, len : 0 .. Max(SeqLens)]

Pending(m) == {t \in Threads : call[t].m = m}

Init ==
    /\ pages_ = [p \in {} |-> 0]
    /\ max_seq_ = 0
    /\ used_memory_ = 0
    /\ mutex_ = None
    /\ call = [t \in Threads |-> NoCall]
    /\ pointer = [t \in Threads |-> None]
    /\ buffers = 0
    /\ resized = FALSE
    /\ overrun = {}

(* A thread calls a method and waits for the mutex.  The class checks no   *)
(* lengths: the caller keeps them within the max_seq_ and the seq_len it   *)
(* knows when it calls (the ghost seen of an append).                      *)
Call(t) ==
    /\ call[t] = NoCall
    /\ \/ \E c \in Calls :
            /\ c.m = "allocate_block" =>
                 /\ c.len <= max_seq_
                 /\ buffers + Cardinality(Pending("allocate_block")) < MaxBuffers
            /\ call' = [call EXCEPT ![t] = c]
       \/ \E p \in DOMAIN pages_ : \E n \in 1 .. max_seq_ - pages_[p].seq_len :
            call' = [call EXCEPT ![t] = [m |-> "append", page |-> p, len |-> n,
                                         seen |-> <<pages_[p], max_seq_>>]]
    /\ UNCHANGED <<cache, mutex_, pointer>>

Enter(t, m) == call[t].m = m /\ mutex_ = None

(* Mutated form: a bare lock() that nobody unlocks.                        *)
ReturnLocked(t) ==
    /\ call' = [call EXCEPT ![t] = NoCall]
    /\ mutex_' = t

Return(t) ==
    /\ call' = [call EXCEPT ![t] = NoCall]
    /\ mutex_' = None
-----------------------------------------------------------------------------
(* init(): existing pages stay as they are.                                *)
InitCache(t) ==
    /\ Enter(t, "init")
    /\ max_seq_' = call[t].len
    /\ resized' = (resized \/ (DOMAIN pages_ # {} /\ max_seq_' # max_seq_))
    /\ Return(t)
    /\ UNCHANGED <<pages_, used_memory_, pointer, buffers, overrun>>

(* Mutated form: the pages go, the account stays.                          *)
ClearKeepsAccount(t) ==
    /\ Enter(t, "clear")
    /\ pages_' = [p \in {} |-> 0]
    /\ resized' = FALSE
    /\ overrun' = {}
    /\ Return(t)
    /\ UNCHANGED <<max_seq_, used_memory_, pointer, buffers>>

Clear(t) ==
    /\ Enter(t, "clear")
    /\ pages_' = [p \in {} |-> 0]
    /\ used_memory_' = 0
    /\ resized' = FALSE
    /\ overrun' = {}
    /\ Return(t)
    /\ UNCHANGED <<max_seq_, pointer, buffers>>

NewPage(len) == [seq_len |-> len, room |-> max_seq_, buffer |-> buffers + 1]

(* Mutated form: a page that exists is replaced.                           *)
AllocateBlockReplaces(t) ==
    /\ Enter(t, "allocate_block")
    /\ pages_' = [q \in DOMAIN pages_ \cup {call[t].page} |->
                    IF q = call[t].page THEN NewPage(call[t].len) ELSE pages_[q]]
    /\ used_memory_' = (used_memory_ + max_seq_) % Wrap
    /\ buffers' = buffers + 1
    /\ Return(t)
    /\ UNCHANGED <<max_seq_, resized, overrun, pointer>>

(* allocate_block(): a page that exists is left alone.                     *)
AllocateBlock(t) ==
    /\ Enter(t, "allocate_block")
    /\ LET p == call[t].page IN
       IF p \in DOMAIN pages_
       THEN UNCHANGED cache
       ELSE /\ pages_' = [q \in DOMAIN pages_ \cup {p} |->
                            IF q = p THEN NewPage(call[t].len) ELSE pages_[q]]
            /\ used_memory_' = (used_memory_ + max_seq_) % Wrap
            /\ buffers' = buffers + 1
            /\ UNCHANGED <<max_seq_, resized, overrun>>
    /\ Return(t)
    /\ UNCHANGED pointer

(* free_block(): gives back the size a page has now, not the size it had   *)
(* when it was allocated.                                                  *)
FreeBlock(t) ==
    /\ Enter(t, "free_block")
    /\ LET p == call[t].page IN
       IF p \in DOMAIN pages_
       THEN /\ pages_' = [q \in DOMAIN pages_ \ {p} |-> pages_[q]]
            /\ used_memory_' = (used_memory_ - max_seq_) % Wrap
            /\ overrun' = overrun \ {p}
            /\ UNCHANGED <<max_seq_, buffers, resized>>
       ELSE UNCHANGED cache
    /\ Return(t)
    /\ UNCHANGED pointer

(* get_k() and get_v(): the address stays with the caller after the lock   *)
(* is released.                                                            *)
GetK(t) ==
    /\ Enter(t, "get_k")
    /\ LET p == call[t].page IN
       pointer' = [pointer EXCEPT ![t] =
                     IF p \in DOMAIN pages_
                     THEN [page |-> p, buffer |-> pages_[p].buffer] ELSE None]
    /\ Return(t)
    /\ UNCHANGED cache

(* Mutated form: seq_len grows by one more than was copied.                *)
AppendRowsOneMore(t) ==
    /\ Enter(t, "append")
    /\ LET p == call[t].page
           end == pages_[p].seq_len + call[t].len
       IN  IF p \in DOMAIN pages_
           THEN /\ pages_' = [pages_ EXCEPT ![p].seq_len = end + 1]
                /\ overrun' = IF end + 1 <= pages_[p].room THEN overrun
                              ELSE overrun \cup {p}
                /\ UNCHANGED <<max_seq_, used_memory_, buffers, resized>>
           ELSE UNCHANGED cache
    /\ Return(t)
    /\ UNCHANGED pointer

(* Mutated form: a page that is not there is waited for.                   *)
AppendRowsWaits(t) ==
    /\ Enter(t, "append")
    /\ LET p == call[t].page
           end == pages_[p].seq_len + call[t].len
       IN  /\ p \in DOMAIN pages_
           /\ pages_' = [pages_ EXCEPT ![p].seq_len = end]
           /\ overrun' = IF end <= pages_[p].room THEN overrun
                         ELSE overrun \cup {p}
           /\ UNCHANGED <<max_seq_, used_memory_, buffers, resized>>
    /\ Return(t)
    /\ UNCHANGED pointer

(* append(): copies behind seq_len, unchecked.                             *)
AppendRows(t) ==
    /\ Enter(t, "append")
    /\ LET p == call[t].page
           end == pages_[p].seq_len + call[t].len
       IN  IF p \in DOMAIN pages_
           THEN /\ pages_' = [pages_ EXCEPT ![p].seq_len = end]
                /\ overrun' = IF end <= pages_[p].room THEN overrun
                              ELSE overrun \cup {p}
                /\ UNCHANGED <<max_seq_, used_memory_, buffers, resized>>
           ELSE UNCHANGED cache
    /\ Return(t)
    /\ UNCHANGED pointer

(* evict_lru(): every last_used is 0, so the page found is the first in    *)
(* hash order, any page.  Page 0 is taken for "none found".  Otherwise the *)
(* thread goes on into free_block() with the mutex in its hands.           *)
EvictLru(t) ==
    /\ Enter(t, "evict_lru")
    /\ \/ /\ DOMAIN pages_ = {} \/ 0 \in DOMAIN pages_
          /\ Return(t)
       \/ \E oldest \in DOMAIN pages_ \ {0} :
            /\ mutex_' = t
            /\ call' = [call EXCEPT ![t] = [m |-> "free_block", page |-> oldest]]
    /\ UNCHANGED <<cache, pointer>>

Method(t) ==
    \/ InitCache(t)
    \/ Clear(t)
    \/ AllocateBlock(t)
    \/ FreeBlock(t)
    \/ GetK(t)
    \/ AppendRows(t)
    \/ EvictLru(t)

Next == \E t \in Threads : Call(t) \/ Method(t)

Spec == Init /\ [][Next]_vars

(* A thread that waits in a method goes on when the mutex is free; nobody  *)
(* has to call anything.                                                   *)
FairSpec == Spec /\ \A t \in Threads : WF_vars(Method(t))
-----------------------------------------------------------------------------
Page == [seq_len : Nat, room : SeqLens \cup {0}, buffer : Nat]

Pointer == [page : PageIds, buffer : Nat]

AppendCalls == [m : {"append"}, page : PageIds, len : Nat,
                seen : Page \X (SeqLens \cup {0})]

(* Every variable keeps its shape, and used_memory_ its width.             *)
TypeOK ==
    /\ DOMAIN pages_ \subseteq PageIds
    /\ pages_ \in [DOMAIN pages_ -> Page]
    /\ max_seq_ \in SeqLens \cup {0}
    /\ used_memory_ \in 0 .. Wrap - 1
    /\ mutex_ \in Threads \cup {None}
    /\ call \in [Threads -> Calls \cup AppendCalls \cup {NoCall}]
    /\ pointer \in [Threads -> Pointer \cup {None}]
    /\ buffers \in Nat
    /\ resized \in BOOLEAN
    /\ overrun \subseteq DOMAIN pages_

(* Every page counts as what max_seq_ makes of it now and the memory       *)
(* account is their sum, unless init() changed the page size under pages:  *)
(* free_block() then gives back another size than was taken, and the       *)
(* unsigned account may wrap.                                              *)
AccountingExact ==
    resized \/ /\ \A p \in DOMAIN pages_ : pages_[p].room = max_seq_
               /\ used_memory_ = (Cardinality(DOMAIN pages_) * max_seq_) % Wrap

(* A thread that keeps the mutex is inside evict_lru(), for a page other   *)
(* than 0 that is still in the cache: no other method leaves it locked.    *)
StuckOnlyInEviction ==
    mutex_ # None => /\ call[mutex_].m = "free_block"
                     /\ call[mutex_].page \in DOMAIN pages_ \ {0}

(* Every call of a thread returns, whatever the others call meanwhile,     *)
(* unless some thread evicts a page: evict_lru() that found one other than *)
(* 0 never gets out of free_block(), and nobody gets past it.              *)
StuckEvicting(t) == mutex_ = t /\ call[t].m = "free_block"

CallsReturn ==
    \A t \in Threads :
        call[t] # NoCall ~> \/ call[t] = NoCall
                           \/ \E u \in Threads : StuckEvicting(u)

(* An address that get_k() gave out stays good until free_block() is called*)
(* for that page or clear() runs: no other thread's append(), init(),      *)
(* allocate_block() of the same page or evict_lru() moves or drops it.     *)
Good(ptr) == ptr # None /\ ptr.page \in DOMAIN pages_ /\ pages_[ptr.page].buffer = ptr.buffer

Dropped(t, page) ==
    /\ mutex_ = None
    /\ call[t].m = "clear" \/ (call[t].m = "free_block" /\ call[t].page = page)
    /\ call'[t] = NoCall

PointersOutliveOtherCalls ==
    [][\A t \in Threads :
         Good(pointer[t]) /\ pointer'[t] = pointer[t] /\ ~Good(pointer[t])'
           => \E u \in Threads : Dropped(u, pointer[t].page)]_vars

(* A caller that keeps within the room it sees overruns a page only when   *)
(* the page or max_seq_ changed between its look and its append(), or      *)
(* init() resized under existing pages.                                    *)
OverrunOnlyByRace ==
    [][\A p \in overrun' \ overrun :
         resized \/ \E t \in Threads : /\ call[t].m = "append"
                                       /\ call'[t] = NoCall
                                       /\ call[t].seen # <<pages_[p], max_seq_>>]_vars
=============================================================================
