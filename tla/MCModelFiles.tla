--------------------------- MODULE MCModelFiles ---------------------------
(***************************************************************************)
(* What a model is read from: the tokenizer's vocabulary or a file of      *)
(* weights.  The two have nothing in common but the run.                   *)
(***************************************************************************)
EXTENDS BPEEncoder, ModelFiles

VARIABLE subject

\* Codes that collide with ids, codes that do not, and the code of the byte
\* 0xFF, which is also the "none" of bpe_merge().
MCCorpora == {<< <<4, 5, 4, 5>>, <<4, 4>>, <<5>> >>,
              << <<20, 21, 20, 21>>, <<20, 21>>, <<21, 20>> >>,
              << <<-1, 20>> >>}
\* Two of the special tokens are the same.
MCSpecials == {<< << <<"s">> >>, << <<"/s">> >>, << <<"/s">> >>, << <<"unk">> >> >>}

T(name, offset, size) == [name |-> name, offset |-> offset, size |-> size, bare |-> FALSE]
File(fmt, keys, tensors, flaw, items, cells) ==
  [format |-> fmt, keys |-> keys, tensors |-> tensors, flaw |-> flaw, items |-> items, cells |-> cells]
K(name, type) == [name |-> name, type |-> type]
Odd(type, items) == File("gguf", <<K("k", "string"), K("l", type)>>, <<T("a", 8, 1), T("b", 9, 2)>>, "no", items, 11)
Gguf(flaw, items, cells) == File("gguf", <<K("k", "scalar")>>, <<T("a", 7, 1), T("b", 8, 2)>>, flaw, items, cells)
Safe(flaw, items, cells) == File("safetensors", <<>>, <<T("a", 0, 1), T("b", 1, 2)>>, flaw, items, cells)
MCFiles ==
  ("whole" :> Gguf("no", 7, 10)) @@ ("cut data" :> Gguf("no", 7, 9)) @@
  ("cut tensors" :> Gguf("no", 6, 0)) @@ ("cut keys" :> Gguf("no", 3, 0)) @@
  ("empty" :> Gguf("no", 0, 0)) @@
  ("magic" :> Gguf("magic", 7, 10)) @@ ("version" :> Gguf("version", 7, 10)) @@
  ("wide" :> Odd("wide", 8)) @@ ("array" :> Odd("array", 8)) @@ ("cut wide" :> Odd("wide", 5)) @@
  ("other" :> File("gguf", <<>>, <<T("b", 5, 1)>>, "no", 5, 6)) @@
  ("s whole" :> Safe("no", 2, 3)) @@ ("s cut data" :> Safe("no", 2, 2)) @@
  ("s cut text" :> Safe("no", 1, 0)) @@ ("s empty" :> Safe("no", 0, 0)) @@
  ("s json" :> Safe("json", 2, 3)) @@ ("s entry" :> Safe("entry", 2, 3)) @@
  ("s other" :> File("safetensors", <<>>, <<T("b", 0, 1)>>, "no", 2, 1)) @@
  ("s bare" :> File("safetensors", <<>>, <<T("a", 0, 1), [T("b", 1, 2) EXCEPT !.bare = TRUE]>>, "no", 2, 3))

Init == /\ subject \in {"tokenizer", "loader"}
        /\ TokenizerInit
        /\ LoaderInit
        /\ subject = "tokenizer" => format = "gguf"
Next == \/ subject = "tokenizer" /\ TokenizerNext /\ UNCHANGED <<subject, loader>>
        \/ subject = "loader" /\ LoaderNext /\ UNCHANGED <<subject, tokenizer>>
Spec == Init /\ [][Next]_<<subject, tokenizer, loader>>
===========================================================================
