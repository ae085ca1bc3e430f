----------------------------- MODULE PageStore ------------------------------
(***************************************************************************)
(* What a paged store promises its clients, without blocks or free list: a *)
(* bounded number of pages, each a private map from positions to values.   *)
(* A page is granted only under an id that names no other page, it starts  *)
(* empty, and only a write to it changes what it holds.                    *)
(***************************************************************************)
EXTENDS Naturals, FiniteSets

CONSTANTS PageIds,    (* the ids a page may have                            *)
          Values,     (* what a position may hold                           *)
          Positions   (* the positions of a page                            *)

VARIABLES contents,   (* page id -> (positions written -> value)            *)
          capacity    (* how many pages there may be at once                *)

Contents == UNION {[D -> Values] : D \in SUBSET Positions}

PagesInit == capacity = 0 /\ contents = [p \in {} |-> <<>>]

Enlarge == capacity' > capacity /\ UNCHANGED contents

Reset == capacity' = 0 /\ contents' = [p \in {} |-> <<>>]

Grant == /\ Cardinality(DOMAIN contents) < capacity
         /\ \E p \in PageIds \ DOMAIN contents :
              contents' = [q \in DOMAIN contents \cup {p} |->
                             IF q = p THEN [i \in {} |-> i] ELSE contents[q]]
         /\ UNCHANGED capacity

Drop(p) == /\ contents' = [q \in DOMAIN contents \ {p} |-> contents[q]]
           /\ UNCHANGED capacity

Write(p, span, v) ==
    /\ contents' = [contents EXCEPT ![p] =
                      [i \in DOMAIN @ \cup span |-> IF i \in span THEN v ELSE @[i]]]
    /\ UNCHANGED capacity

PagesNext ==
    \/ Enlarge
    \/ Reset
    \/ Grant
    \/ \E p \in DOMAIN contents : Drop(p)
    \/ \E p \in DOMAIN contents, span \in SUBSET Positions, v \in Values :
          Write(p, span, v)

PagesSpec == PagesInit /\ [][PagesNext]_<<contents, capacity>>
=============================================================================
