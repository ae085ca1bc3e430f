-------------------------- MODULE MCPagedAttention --------------------------
(* Small instances of PagedAttention.  Clients and values are interchange- *)
(* able: no definition names one of them.                                  *)
EXTENDS PagedAttention, TLC

(* One and two rows, one and two cells wide.  Blocks of the last two shapes*)
(* have the same length and other rows.                                    *)
SmallShapes == {<<1, 1>>, <<1, 2>>, <<2, 1>>}

Symmetry == Permutations(Clients) \cup Permutations(Values)
=============================================================================
