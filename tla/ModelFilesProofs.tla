-------------------------- MODULE ModelFilesProofs --------------------------
(***************************************************************************)
(* What a model is read from, for every set of files and of texts.         *)
(*                                                                         *)
(* The loops of the code that run over a sequence are recursive functions  *)
(* of the index in the model.  That such a function exists, and what it    *)
(* keeps, is shown by induction in the form the provers can use: the       *)
(* indices at which a statement fails have no least one.                   *)
(***************************************************************************)
EXTENDS ModelFiles, BPEEncoder, FiniteSetTheorems, SequenceTheorems, WellFoundedInduction, TLAPS

-----------------------------------------------------------------------------
(* A set of natural numbers has a least one.                               *)
LEMMA LeastNatural ==
    ASSUME NEW S \in SUBSET Nat, S # {}
    PROVE  \E n \in S : \A k \in 0 .. n - 1 : k \notin S
<1>1. PICK n \in S : \A m \in S : <<m, n>> \notin OpToRel(<, Nat)
  BY NatLessThanWellFounded, WFMin
<1>2. \A m \in S : ~(m < n)
  BY <1>1 DEF OpToRel
<1>3. QED
  BY <1>2

(* A set that has 0, and with a number the next one, has all up to n.      *)
LEMMA Upwards ==
    ASSUME NEW n \in Nat, NEW S, 0 \in S,
           \A k \in 1 .. n : k - 1 \in S => k \in S
    PROVE  \A k \in 0 .. n : k \in S
<1> DEFINE Bad == {k \in 0 .. n : k \notin S}
<1> SUFFICES ASSUME Bad # {} PROVE FALSE
  OBVIOUS
<1>1. Bad \in SUBSET Nat
  OBVIOUS
<1>2. PICK m \in Bad : \A k \in 0 .. m - 1 : k \notin Bad
  BY <1>1, LeastNatural, Zenon
<1>3. m # 0 /\ m \in 1 .. n
  OBVIOUS
<1>4. m - 1 \in 0 .. m - 1 /\ m - 1 \in 0 .. n
  BY <1>3
<1>5. m - 1 \in S
  BY <1>2, <1>4
<1>6. QED
  BY <1>3, <1>5

(* g has the values of a loop of n turns, which begins with first, after   *)
(* each of them.                                                           *)
IsRun(g, n, V, first, turn) ==
    /\ g \in [0 .. n -> V]
    /\ g[0] = first
    /\ \A i \in 1 .. n : g[i] = turn[<<i, g[i - 1]>>]

(* Every loop whose turns make a value of V from one has such a function.  *)
LEMMA LoopRuns ==
    ASSUME NEW n \in Nat, NEW V, NEW first \in V, NEW turn \in [(1 .. n) \X V -> V]
    PROVE  \E g : IsRun(g, n, V, first, turn)
<1> DEFINE Runs(k, g) == /\ g \in [0 .. k -> V]
                         /\ g[0] = first
                         /\ \A i \in 1 .. k : g[i] = turn[<<i, g[i - 1]>>]
           S == {k \in 0 .. n : \E g : Runs(k, g)}
<1>1. 0 \in S
  <2>1. Runs(0, [i \in 0 .. 0 |-> first])
    OBVIOUS
  <2> HIDE DEF Runs
  <2>2. QED
    BY <2>1
<1>2. ASSUME NEW k \in 1 .. n, k - 1 \in S
      PROVE  k \in S
  <2>1. PICK g : Runs(k - 1, g)
    <3> HIDE DEF Runs
    <3>1. QED
      BY <1>2
  <2> DEFINE h == [i \in 0 .. k |-> IF i = k THEN turn[<<k, g[k - 1]>>] ELSE g[i]]
  <2>2. g[k - 1] \in V
    BY <2>1
  <2>3. turn[<<k, g[k - 1]>>] \in V
    BY <2>2
  <2>4. h \in [0 .. k -> V]
    BY <2>1, <2>3
  <2>5. h[0] = first
    BY <2>1
  <2>6. ASSUME NEW i \in 1 .. k PROVE h[i] = turn[<<i, h[i - 1]>>]
    <3>1. CASE i = k
      <4>1. k - 1 # k /\ k - 1 \in 0 .. k /\ k \in 0 .. k
        OBVIOUS
      <4>2. h[k] = turn[<<k, g[k - 1]>>] /\ h[k - 1] = g[k - 1]
        BY <4>1
      <4>3. QED
        BY <3>1, <4>2
    <3>2. CASE i # k
      <4>1. i \in 1 .. k - 1 /\ i - 1 # k /\ i - 1 \in 0 .. k /\ i \in 0 .. k
        BY <3>2
      <4>2. h[i] = g[i] /\ h[i - 1] = g[i - 1]
        BY <3>2, <4>1
      <4>3. QED
        BY <2>1, <4>1, <4>2
    <3>3. QED
      BY <3>1, <3>2
  <2>7. Runs(k, h)
    BY <2>4, <2>5, <2>6
  <2> HIDE DEF Runs, h
  <2>8. QED
    BY <2>7
<1>3. n \in S
  <2> HIDE DEF S
  <2>1. QED
    BY <1>1, <1>2, Upwards
<1>4. PICK g : Runs(n, g)
  <2> HIDE DEF Runs
  <2>1. QED
    BY <1>3
<1>5. IsRun(g, n, V, first, turn)
  BY <1>4 DEF IsRun
<1>6. QED
  BY <1>5

-----------------------------------------------------------------------------
(* The sizes of tensors add up to a number.                                *)
LEMMA SizeIsNat ==
    ASSUME NEW ts \in Seq(Tensor)
    PROVE  Size(ts) \in Nat
<1> DEFINE Turns(u) == [i \in 0 .. Len(ts) |-> IF i = 0 THEN 0 ELSE u[i - 1] + ts[i].size]
           upto == CHOOSE u : u = Turns(u)
<1>1. Len(ts) \in Nat /\ \A i \in 1 .. Len(ts) : ts[i].size \in Nat
  <2>1. Len(ts) \in Nat /\ \A i \in 1 .. Len(ts) : ts[i] \in Tensor
    OBVIOUS
  <2>2. \A t \in Tensor : t.size \in Nat
    BY DEF Tensor
  <2>3. QED
    BY <2>1, <2>2
<1>2. \E u : u = Turns(u)
  <2> DEFINE turn == [x \in (1 .. Len(ts)) \X Nat |-> x[2] + ts[x[1]].size]
  <2>1. turn \in [(1 .. Len(ts)) \X Nat -> Nat]
    BY <1>1
  <2>2. PICK g : IsRun(g, Len(ts), Nat, 0, turn)
    <3> HIDE DEF turn
    <3>1. QED
      BY <1>1, <2>1, LoopRuns
  <2>3. \A i \in 1 .. Len(ts) : g[i] = g[i - 1] + ts[i].size
    <3>1. ASSUME NEW i \in 1 .. Len(ts) PROVE g[i] = g[i - 1] + ts[i].size
      <4>1. g[i - 1] \in Nat
        BY <2>2 DEF IsRun
      <4>2. QED
        BY <2>2, <4>1 DEF IsRun
    <3>2. QED
      BY <3>1
  <2>4. g = Turns(g)
    BY <2>2, <2>3 DEF IsRun
  <2>5. QED
    BY <2>4
<1>3. upto = Turns(upto)
  <2> HIDE DEF Turns
  <2>1. QED
    BY <1>2
<1>4. \A k \in 0 .. Len(ts) : upto[k] \in Nat
  <2> DEFINE S == {k \in 0 .. Len(ts) : upto[k] \in Nat}
  <2> HIDE DEF upto
  <2>1. 0 \in S
    BY <1>3
  <2>2. \A k \in 1 .. Len(ts) : k - 1 \in S => k \in S
    BY <1>3, <1>1
  <2> HIDE DEF S
  <2>3. \A k \in 0 .. Len(ts) : k \in S
    BY <1>1, <2>1, <2>2, Upwards
  <2>4. QED
    BY <2>3 DEF S
<1>5. Size(ts) = upto[Len(ts)]
  BY DEF Size
<1>6. QED
  BY <1>4, <1>5

(* The greatest of numbers with a bound, and the least.                    *)
LEMMA MaxIsThere ==
    ASSUME NEW S \in SUBSET Int, S # {}, NEW b \in Int, \A x \in S : x <= b
    PROVE  Max(S) \in S /\ \A x \in S : x <= Max(S)
<1> DEFINE D == {d \in Nat : b - d \in S}
<1>1. D \in SUBSET Nat /\ D # {}
  <2>1. PICK x \in S : TRUE
    OBVIOUS
  <2>2. b - x \in Nat /\ b - (b - x) = x
    BY <2>1
  <2>3. QED
    BY <2>1, <2>2
<1>2. PICK d \in D : \A k \in 0 .. d - 1 : k \notin D
  <2> HIDE DEF D
  <2>1. QED
    BY <1>1, LeastNatural, Zenon
<1>3. ASSUME NEW x \in S PROVE x <= b - d
  <2>1. x \in Int /\ x <= b
    OBVIOUS
  <2>2. CASE b - x < d
    <3>1. b - x \in 0 .. d - 1 /\ b - (b - x) = x
      BY <2>1, <2>2
    <3>2. b - x \in D
      BY <3>1, <2>1
    <3>3. QED
      BY <1>2, <3>1, <3>2
  <2>3. QED
    BY <2>1, <2>2
<1>4. b - d \in S /\ \A x \in S : b - d >= x
  BY <1>3
<1>5. \E m \in S : \A x \in S : m >= x
  BY <1>4
<1>6. QED
  BY <1>5 DEF Max

(* Likewise the least.                                                     *)
LEMMA MinIsThere ==
    ASSUME NEW S \in SUBSET Int, S # {}, NEW b \in Int, \A x \in S : b <= x
    PROVE  Min(S) \in S /\ \A x \in S : Min(S) <= x
<1> DEFINE D == {d \in Nat : b + d \in S}
<1>1. D \in SUBSET Nat /\ D # {}
  <2>1. PICK x \in S : TRUE
    OBVIOUS
  <2>2. x - b \in Nat /\ b + (x - b) = x
    BY <2>1
  <2>3. QED
    BY <2>1, <2>2
<1>2. PICK d \in D : \A k \in 0 .. d - 1 : k \notin D
  <2> HIDE DEF D
  <2>1. QED
    BY <1>1, LeastNatural, Zenon
<1>3. ASSUME NEW x \in S PROVE b + d <= x
  <2>1. x \in Int /\ b <= x
    OBVIOUS
  <2>2. CASE x - b < d
    <3>1. x - b \in 0 .. d - 1 /\ b + (x - b) = x
      BY <2>1, <2>2
    <3>2. x - b \in D
      BY <3>1, <2>1
    <3>3. QED
      BY <1>2, <3>1, <3>2
  <2>3. QED
    BY <2>1, <2>2
<1>4. b + d \in S /\ \A x \in S : b + d =< x
  BY <1>3
<1>5. \E m \in S : \A x \in S : m =< x
  BY <1>4
<1>6. QED
  BY <1>5 DEF Min

(* A prefix that is long enough is the whole sequence.                     *)
LEMMA TakeAll ==
    ASSUME NEW X, NEW s \in Seq(X), NEW n \in Int, n >= Len(s)
    PROVE  Take(s, n) = s
<1>1. Len(s) \in Nat
  OBVIOUS
<1>2. Max({0, n}) = n
  <2>1. \A x \in {0, n} : n >= x
    BY <1>1
  <2>2. \A m \in {0, n} : (\A x \in {0, n} : m >= x) => m = n
    BY <1>1
  <2>3. QED
    BY <2>1, <2>2 DEF Max
<1>3. Min({Len(s), n}) = Len(s)
  <2>1. \A x \in {Len(s), n} : Len(s) =< x
    BY <1>1
  <2>2. \A m \in {Len(s), n} : (\A x \in {Len(s), n} : m =< x) => m = Len(s)
    BY <1>1
  <2>3. QED
    BY <2>1, <2>2 DEF Min
<1>4. SubSeq(s, 1, Len(s)) = s
  BY <1>1
<1>5. QED
  BY <1>2, <1>3, <1>4 DEF Take

(* A name that some tensor has is that of the last such tensor.            *)
LEMMA LastIsWanted ==
    ASSUME NEW ts \in Seq(Tensor), NEW n, Wanted(ts, n) # {}
    PROVE  /\ Max(Wanted(ts, n)) \in Wanted(ts, n)
           /\ LastOf(ts, n) \in Tensor
           /\ LastOf(ts, n).name = n
<1>1. Len(ts) \in Int /\ DOMAIN ts = 1 .. Len(ts)
  OBVIOUS
<1>2. Wanted(ts, n) \in SUBSET Int /\ \A i \in Wanted(ts, n) : i <= Len(ts)
  BY <1>1 DEF Wanted
<1>3. Max(Wanted(ts, n)) \in Wanted(ts, n)
  BY <1>1, <1>2, MaxIsThere, Zenon
<1>4. QED
  BY <1>3 DEF Wanted, LastOf

(* The names of tensors are those of which some are wanted.                *)
LEMMA NamesAreWanted ==
    ASSUME NEW ts \in Seq(Tensor), NEW n
    PROVE  n \in ToSet(NamesOf(ts)) <=> Wanted(ts, n) # {}
<1>1. DOMAIN NamesOf(ts) = DOMAIN ts /\ \A i \in DOMAIN ts : NamesOf(ts)[i] = ts[i].name
  BY DEF NamesOf
<1>2. QED
  BY <1>1 DEF ToSet, Wanted

-----------------------------------------------------------------------------
(* The files there are.                                                    *)
LEMMA FilesAreTyped ==
    ASSUME NEW p \in DOMAIN Files
    PROVE  /\ Files[p].format \in {"gguf", "safetensors"}
           /\ Files[p].keys \in Seq(Key)
           /\ Files[p].tensors \in Seq(Tensor)
           /\ Files[p].items \in Nat /\ Files[p].cells \in Nat
           /\ Files[p].format = "gguf" => Files[p].flaw \in {"magic", "version", "no"}
           /\ Files[p].format = "safetensors" => Files[p].flaw \in {"json", "entry", "no"}
<1>1. CASE Files[p] \in FilesOf("gguf", {"magic", "version"})
  BY <1>1 DEF FilesOf
<1>2. CASE Files[p] \in FilesOf("safetensors", {"json", "entry"})
  BY <1>2 DEF FilesOf
<1>3. QED
  BY <1>1, <1>2, FilesAssumption

(* A loader whose stream is good has the tables of the file it has open,   *)
(* but for the places of tensors without offsets.                          *)
HasTables(f) ==
    /\ data_offset_ = DataStart(f)
    /\ IF f.flaw \in {"no", "entry"}
       THEN /\ DOMAIN index = ToSet(NamesOf(f.tensors))
            /\ \A n \in DOMAIN index :
                 (\A i \in Wanted(f.tensors, n) : ~f.tensors[i].bare)
                   => index[n] = Place(LastOf(f.tensors, n))
       ELSE index = <<>>

(* Nothing is known before a file was opened.  A stream that is good has   *)
(* the file that was asked for last.  A header that was read has left its  *)
(* tables, and where it was not, a good stream is one that reads out of    *)
(* place: only of such a one can there be data after a lie.                *)
StreamInv ==
    /\ format \in {"gguf", "safetensors"}
    /\ stream \in [file : Paths \cup {None}, good : BOOLEAN]
    /\ again \in BOOLEAN /\ lied \in BOOLEAN
    /\ IF stream.file = None
       THEN /\ path_ \notin Paths /\ ~again /\ ~lied
            /\ metadata_ = {} /\ names = <<>> /\ index = <<>>
            /\ total_size_ = 0 /\ data_offset_ = 0
       ELSE LET F == Files[stream.file] IN
            /\ stream.good => ~again
            /\ ~again => path_ = stream.file
            /\ ~again /\ HeaderRead(F) => HasTables(F)
            /\ ~again /\ HeaderRead(F) /\ Sized(F) /\ Complete(F) => stream.good
            /\ stream.good => HeaderRead(F) \/ Shifted(F, F.items)
            /\ stream.good /\ lied => Shifted(F, F.items)

LoaderInv == StreamInv /\ AnswersForeseen

(* A sequence of tensors as a function.                                    *)
LEMMA TensorsAsFunction ==
    ASSUME NEW ts \in Seq(Tensor)
    PROVE  /\ Len(ts) \in Nat /\ DOMAIN ts = 1 .. Len(ts)
           /\ ts = [i \in DOMAIN ts |-> ts[i]]
           /\ \A i \in DOMAIN ts : ts[i] \in Tensor
OBVIOUS

(* An index that is empty has no names.                                    *)
LEMMA NothingIndexed == DOMAIN <<>> = {}
OBVIOUS

(* What load() leaves of an empty index is the last tensor of each name.   *)
LEMMA IndexOfTensors ==
    ASSUME NEW ts \in Seq(Tensor)
    PROVE  /\ DOMAIN With(<<>>, ts) = ToSet(NamesOf(ts))
           /\ \A n \in ToSet(NamesOf(ts)) : With(<<>>, ts)[n] = Place(LastOf(ts, n))
BY NothingIndexed DEF With

(* Tensors that differ from those of the header in the places of the bare  *)
(* ones only are indexed as they should be, but for these.                 *)
LEMMA IndexOfGuessed ==
    ASSUME NEW ts \in Seq(Tensor), NEW g \in Nat, NEW h \in Nat
    PROVE  /\ DOMAIN With(<<>>, Guessed(ts, g, h)) = ToSet(NamesOf(ts))
           /\ \A n \in ToSet(NamesOf(ts)) :
                 (\A i \in Wanted(ts, n) : ~ts[i].bare)
                   => With(<<>>, Guessed(ts, g, h))[n] = Place(LastOf(ts, n))
           /\ (\A i \in DOMAIN ts : ~ts[i].bare) => Guessed(ts, g, h) = ts
<1> DEFINE us == Guessed(ts, g, h)
<1>1. /\ DOMAIN us = DOMAIN ts
      /\ Len(ts) \in Nat /\ DOMAIN ts = 1 .. Len(ts)
      /\ \A i \in DOMAIN ts : ts[i] \in Tensor
  BY TensorsAsFunction, Zenon DEF Guessed
<1>2. ASSUME NEW i \in DOMAIN ts PROVE us[i].name = ts[i].name /\ (~ts[i].bare => us[i] = ts[i])
  <2>1. ts[i] \in Tensor
    BY <1>1
  <2>2. us[i] = IF ts[i].bare THEN [ts[i] EXCEPT !.offset = g, !.size = h] ELSE ts[i]
    BY DEF Guessed
  <2>3. [ts[i] EXCEPT !.offset = g, !.size = h].name = ts[i].name
    BY <2>1 DEF Tensor
  <2>4. QED
    BY <2>2, <2>3
<1>3. NamesOf(us) = NamesOf(ts)
  BY <1>1, <1>2 DEF NamesOf
<1>4. \A n : Wanted(us, n) = Wanted(ts, n)
  BY <1>1, <1>2 DEF Wanted
<1>5. DOMAIN <<>> = {}
  BY NothingIndexed
<1>6. DOMAIN With(<<>>, us) = ToSet(NamesOf(ts))
  BY <1>3, <1>5 DEF With
<1>7. ASSUME NEW n \in ToSet(NamesOf(ts)), \A i \in Wanted(ts, n) : ~ts[i].bare
      PROVE  With(<<>>, us)[n] = Place(LastOf(ts, n))
  <2>1. Max(Wanted(ts, n)) \in Wanted(ts, n)
    BY LastIsWanted, NamesAreWanted
  <2>2. LastOf(us, n) = LastOf(ts, n)
    BY <1>2, <1>4, <1>7, <2>1 DEF LastOf, Wanted
  <2>3. With(<<>>, us)[n] = Place(LastOf(us, n))
    BY <1>3, <1>5 DEF With
  <2>4. QED
    BY <2>2, <2>3
<1>8. (\A i \in DOMAIN ts : ~ts[i].bare) => us = ts
  <2> SUFFICES ASSUME \A i \in DOMAIN ts : ~ts[i].bare PROVE us = ts
    OBVIOUS
  <2>1. us = [i \in DOMAIN ts |-> ts[i]]
    BY <1>1, <1>2 DEF Guessed
  <2>2. ts = [i \in DOMAIN ts |-> ts[i]]
    BY TensorsAsFunction, Zenon
  <2>3. QED
    BY <2>1, <2>2
<1>9. QED
  BY <1>6, <1>7, <1>8

-----------------------------------------------------------------------------
(* How far a header is read from where it is.                              *)
LEMMA StraightIsNat ==
    ASSUME NEW f, f.format \in {"gguf", "safetensors"},
           f.keys \in Seq(Key), f.tensors \in Seq(Tensor)
    PROVE  Straight(f) \in Nat /\ Straight(f) >= 2
<1> DEFINE odd == {i \in DOMAIN f.keys : ~ReadAsWritten(f.keys[i].type)}
<1>1. CASE odd = {}
  <2>1. Len(f.keys) \in Nat /\ Len(f.tensors) \in Nat
    OBVIOUS
  <2>2. Items(f) \in Nat /\ Items(f) >= 2
    <3>1. CASE f.format = "gguf"
      <4>1. Items(f) = 4 + Len(f.keys) + Len(f.tensors)
        BY <3>1 DEF Items
      <4>2. \A k, t \in Nat : 4 + k + t \in Nat /\ 4 + k + t >= 2
        OBVIOUS
      <4>3. QED
        BY <2>1, <4>1, <4>2, Zenon
    <3>2. CASE f.format # "gguf"
      <4>1. Items(f) = 2
        BY <3>2 DEF Items
      <4>2. QED
        BY <4>1
    <3>3. QED
      BY <3>1, <3>2
  <2>3. QED
    BY <1>1, <2>2 DEF Straight
<1>2. CASE odd # {}
  <2>1. odd \in SUBSET Int /\ \A x \in odd : 1 <= x /\ x \in Int
    OBVIOUS
  <2> HIDE DEF odd
  <2>2. Min(odd) \in odd
    BY <1>2, <2>1, 1 \in Int, MinIsThere, Zenon
  <2>3. PICK x \in Int : x = Min(odd) /\ 1 <= x
    BY <2>1, <2>2, Zenon
  <2>4. Straight(f) = 3 + x
    BY <1>2, <2>3 DEF Straight, odd
  <2>5. QED
    BY <2>3, <2>4
<1>3. QED
  BY <1>1, <1>2

(* Nothing is out of place in a header of Safetensors, nor where nothing   *)
(* is read.                                                                *)
LEMMA InPlace ==
    ASSUME NEW p \in DOMAIN Files
    PROVE  /\ ~Shifted(Files[p], 0)
           /\ Files[p].format = "safetensors" =>
                Needed(Files[p]) = 2 /\ ~Shifted(Files[p], Files[p].items)
<1>1. PICK k \in Nat : k = Straight(Files[p]) /\ k >= 2
  BY FilesAreTyped, StraightIsNat
<1>2. ~Shifted(Files[p], 0)
  BY <1>1 DEF Shifted
<1>3. Files[p].format = "safetensors" => Needed(Files[p]) = 2
  BY FilesAreTyped DEF Needed, Items
<1>4. Files[p].format = "safetensors" => ~Shifted(Files[p], Files[p].items)
  BY <1>1, <1>3 DEF Shifted
<1>5. QED
  BY <1>2, <1>3, <1>4

(* The paths are those of the files the loader is for.                     *)
LEMMA PathsAreOfFormat ==
    ASSUME format \in {"gguf", "safetensors"}
    PROVE  Paths = {p \in DOMAIN Files : Files[p].format = format}
BY DEF Paths, PathsOf

(* The first load() that finds its file, if nothing it reads is behind the *)
(* end: what it leaves and answers is what the file says.                  *)
FirstLoad(path) ==
    /\ StreamInv /\ stream.file = None /\ path \in Paths
    /\ HeaderRead(Files[path])
    /\ \E ok \in Outcomes, right \in BOOLEAN :
         answer' = Answer("load", ok, Files[path].flaw = "no", right)

LEMMA WholeGgufRead ==
    ASSUME NEW f, NEW r \in Nat, NEW m, f.keys \in Seq(Key), f.tensors \in Seq(Tensor),
           r >= 4 + Len(f.keys) + Len(f.tensors),
           metadata_ = {}, names = <<>>, index = <<>>, total_size_ = 0,
           ReadTables(f, r, Len(f.keys), Len(f.tensors), 0, m)
    PROVE  /\ metadata_' = ToSet(NamesOf(f.keys))
           /\ names' = NamesOf(f.tensors)
           /\ index' = With(<<>>, f.tensors)
           /\ total_size_' = Size(f.tensors)
<1>1. PICK kn \in Nat, tn \in Nat : kn = Len(f.keys) /\ tn = Len(f.tensors)
  OBVIOUS
<1>2. r >= 4 + kn + tn
  BY <1>1
<1>3. r - 3 \in Int /\ r - 3 >= kn /\ r - 4 - kn \in Int /\ r - 4 - kn >= tn
  BY <1>2
<1>4. Take(f.keys, r - 3) = f.keys
  BY <1>1, <1>3, TakeAll
<1>5. Take(f.tensors, r - 4 - Len(f.keys)) = f.tensors
  BY <1>1, <1>3, TakeAll
<1> DEFINE behind == [i \in 1 .. Max({0, Len(f.tensors) - Len(f.tensors)}) |->
                        [name |-> m, offset |-> 0, size |-> 0]]
<1>6. behind = <<>>
  <2>1. {0, tn - tn} = {0}
    OBVIOUS
  <2>2. Max({0}) = 0
    <3>1. \A k \in {0} : k >= k
      OBVIOUS
    <3>2. QED
      BY <3>1 DEF Max
  <2>3. Max({0, Len(f.tensors) - Len(f.tensors)}) = 0
    BY <1>1, <2>1, <2>2
  <2>4. behind = [i \in 1 .. 0 |-> [name |-> m, offset |-> 0, size |-> 0]]
    BY <2>3
  <2>5. [i \in 1 .. 0 |-> [name |-> m, offset |-> 0, size |-> 0]] = <<>>
    OBVIOUS
  <2>6. QED
    BY <2>4, <2>5
<1> HIDE DEF behind
<1>7. f.tensors \o behind = f.tensors
  BY <1>6
<1>8. ~(Len(f.keys) > Len(f.keys))
  BY <1>1
<1>9. /\ metadata_' = metadata_ \cup ToSet(NamesOf(f.keys)) \cup {}
      /\ names' = names \o NamesOf(f.tensors)
      /\ index' = With(index, f.tensors)
      /\ total_size_' = total_size_ + Size(f.tensors)
  BY <1>4, <1>5, <1>7, <1>8 DEF ReadTables, behind
<1>10. names' = NamesOf(f.tensors)
  <2>1. NamesOf(f.tensors) \in Seq(STRING)
    <3>1. \A t \in Tensor : t.name \in STRING
      BY DEF Tensor
    <3>2. QED
      BY <3>1 DEF NamesOf
  <2>2. QED
    BY <1>9, <2>1
<1>11. Size(f.tensors) \in Nat
  BY SizeIsNat
<1>12. total_size_' = Size(f.tensors)
  BY <1>9, <1>11
<1>13. QED
  BY <1>9, <1>10, <1>12

LEMMA FirstLoadOfGguf ==
    ASSUME NEW path, FirstLoad(path), format = "gguf",
           NEW f, f = Files[path], LoadGguf(f, f.items)
    PROVE  /\ HasTables(f)'
           /\ answer'.ok = IF f.flaw = "no" THEN "true" ELSE "false"
           /\ answer'.ok = "true" => TablesRight(f)
<1>1. /\ path \in DOMAIN Files /\ f.format = "gguf"
      /\ f.keys \in Seq(Key) /\ f.tensors \in Seq(Tensor) /\ f.items \in Nat
      /\ f.flaw \in {"magic", "version", "no"}
  BY FilesAreTyped, PathsAreOfFormat DEF FirstLoad
<1>2. /\ metadata_ = {} /\ names = <<>> /\ index = <<>>
      /\ total_size_ = 0 /\ data_offset_ = 0 /\ f.items >= Needed(f)
      /\ ~Shifted(f, f.items)
  BY DEF FirstLoad, StreamInv, HeaderRead
<1>3. Accepted(f, f.items) = {f.flaw = "no"}
  BY <1>2 DEF Accepted
<1>4. data_offset_' = DataStart(f)
  BY <1>1, <1>2 DEF LoadGguf, DataStart
<1>5. CASE f.flaw # "no"
  <2>1. answer'.ok = "false" /\ index' = <<>>
    BY <1>2, <1>3, <1>5 DEF LoadGguf, tables
  <2>2. f.flaw \notin {"no", "entry"}
    BY <1>1, <1>5
  <2>3. QED
    BY <1>4, <1>5, <2>1, <2>2 DEF HasTables
<1>6. CASE f.flaw = "no"
  <2>1. Items(f) = 4 + Len(f.keys) + Len(f.tensors)
    BY <1>1 DEF Items
  <2>2. Needed(f) = Items(f)
    BY <1>6 DEF Needed
  <2>3. PICK i \in Nat, kn \in Nat, tn \in Nat :
          i = f.items /\ kn = Len(f.keys) /\ tn = Len(f.tensors)
    BY <1>1
  <2>4. i >= 4 + kn + tn
    BY <1>2, <2>1, <2>2, <2>3
  <2>5. i >= 3 /\ i >= 4 + kn
    BY <2>4
  <2>6. ~(f.items < Items(f))
    <3>1. ~(i < 4 + kn + tn)
      BY <2>4
    <3>2. Items(f) = 4 + kn + tn /\ f.items = i
      BY <2>1, <2>3
    <3> QED
      BY <3>1, <3>2, Zenon
  <2>7. answer'.ok = "true" /\ ReadGguf(f, f.items)
    <3>1. ~Thrown(f, f.items)
      BY <1>2, <2>6 DEF Thrown
    <3>2. FALSE \notin Accepted(f, f.items)
      BY <1>3, <1>6
    <3>3. QED
      BY <3>1, <3>2 DEF LoadGguf
  <2>8. \E n \in Nat : \E m : /\ n >= 4 + kn + tn
                              /\ ReadTables(f, n, Len(f.keys), Len(f.tensors), 0, m)
    <3>1. PICK k \in Nat : k = Straight(f)
      <4>1. Straight(f) \in Nat
        BY <1>1, StraightIsNat
      <4>2. QED
        BY <4>1
    <3>2. k >= 4 + kn + tn
      <4>1. ~(k < 4 + kn + tn /\ k <= i)
        BY <1>2, <2>1, <2>2, <2>3, <3>1 DEF Shifted
      <4>2. QED
        BY <2>4, <4>1
    <3>3. PICK n \in Nat : n = Min({f.items, Straight(f)}) /\ n \in {i, k}
      <4>1. \A x \in {i, k} : 0 <= x
        OBVIOUS
      <4>2. {i, k} \in SUBSET Int /\ {i, k} # {} /\ 0 \in Int
        OBVIOUS
      <4>3. Min({i, k}) \in {i, k}
        BY <4>1, <4>2, MinIsThere, Zenon
      <4>4. QED
        BY <2>3, <3>1, <4>3
    <3>4. n >= 4 + kn + tn /\ n >= 3 /\ n >= 4 + kn
      BY <2>4, <3>2, <3>3
    <3>5. n >= 3 /\ n >= 4 + Len(f.keys) /\ n >= Items(f)
      BY <2>1, <2>3, <3>4
    <3>6. \E nkeys \in {Len(f.keys)}, ntensors \in {Len(f.tensors)}, g \in {0}, m \in Misnomers(f, f.items) :
            ReadTables(f, n, nkeys, ntensors, g, m)
      BY <2>7, <3>3, <3>5 DEF ReadGguf
    <3>7. QED
      BY <3>4, <3>6
  <2>9. /\ metadata_' = ToSet(NamesOf(f.keys))
        /\ names' = NamesOf(f.tensors)
        /\ index' = With(<<>>, f.tensors)
        /\ total_size_' = Size(f.tensors)
    <3>1. PICK n \in Nat : \E m : /\ n >= 4 + kn + tn
                                /\ ReadTables(f, n, Len(f.keys), Len(f.tensors), 0, m)
      BY <2>8
    <3>2. PICK m : ReadTables(f, n, Len(f.keys), Len(f.tensors), 0, m)
      BY <3>1
    <3>3. n >= 4 + Len(f.keys) + Len(f.tensors)
      BY <2>3, <3>1
    <3>4. QED
      BY <1>1, <1>2, <3>2, <3>3, WholeGgufRead, Zenon
  <2>10. TablesRight(f)
    BY <2>9 DEF TablesRight
  <2>11. HasTables(f)'
    <3>1. Len(f.tensors) \in Nat
      BY <2>3
    <3>2. /\ DOMAIN index' = ToSet(NamesOf(f.tensors))
          /\ \A n \in ToSet(NamesOf(f.tensors)) : index'[n] = Place(LastOf(f.tensors, n))
      BY <1>1, <2>9, IndexOfTensors, Zenon
    <3>3. QED
      BY <1>4, <1>6, <3>2 DEF HasTables
  <2>12. QED
    BY <1>6, <2>7, <2>10, <2>11
<1>7. QED
  BY <1>5, <1>6

(* The same for Safetensors, but for tensors without offsets.              *)
LEMMA FirstLoadOfSafetensors ==
    ASSUME NEW path, FirstLoad(path), format = "safetensors",
           NEW f, f = Files[path], LoadSafetensors(f, f.items)
    PROVE  /\ HasTables(f)'
           /\ answer'.ok = IF f.flaw = "no" THEN "true" ELSE "false"
           /\ answer'.ok = "true" /\ Sized(f) => TablesRight(f)
<1>1. /\ path \in DOMAIN Files /\ f.format = "safetensors"
      /\ f.tensors \in Seq(Tensor) /\ f.items \in Nat
      /\ f.flaw \in {"json", "entry", "no"}
  BY FilesAreTyped, PathsAreOfFormat DEF FirstLoad
<1>2. index = <<>> /\ f.items >= 2
  <2>1. Needed(f) = 2
    BY <1>1 DEF Needed, Items
  <2>2. QED
    BY <2>1 DEF FirstLoad, StreamInv, HeaderRead
<1>3. data_offset_' = 8 + Len(f.tensors) /\ ParseHeader(f, f.items)
  <2>1. ~(f.items < 1) /\ f.items >= 1
    BY <1>1, <1>2
  <2>2. QED
    BY <2>1 DEF LoadSafetensors
<1>4. answer'.ok = (IF f.flaw = "no" THEN "true" ELSE "false") /\ ~(f.items < 2)
  <2>1. ~(f.items < 2)
    BY <1>1, <1>2
  <2>2. answer'.ok = IF f.items >= 2 /\ f.flaw = "no" THEN "true" ELSE "false"
    BY <1>3 DEF ParseHeader
  <2>3. QED
    BY <1>2, <2>1, <2>2, Zenon
<1>5. data_offset_' = DataStart(f)
  BY <1>1, <1>3 DEF DataStart
<1>6. CASE f.flaw = "json"
  <2>1. index' = <<>>
    BY <1>2, <1>3, <1>6 DEF ParseHeader
  <2>2. QED
    BY <1>4, <1>5, <1>6, <2>1 DEF HasTables
<1>7. CASE f.flaw # "json"
  <2>1. PICK g \in Garbage, h \in Garbage : index' = With(<<>>, Guessed(f.tensors, g, h))
    BY <1>2, <1>3, <1>4, <1>7 DEF ParseHeader
  <2>2. g \in Nat /\ h \in Nat
    BY FilesAssumption
  <2>3. PICK ts \in Seq(Tensor) : ts = f.tensors
    BY <1>1
  <2>4. index' = With(<<>>, Guessed(ts, g, h))
    BY <2>1, <2>3
  <2>5. /\ DOMAIN With(<<>>, Guessed(ts, g, h)) = ToSet(NamesOf(ts))
        /\ \A n \in ToSet(NamesOf(ts)) :
             (\A i \in Wanted(ts, n) : ~ts[i].bare)
               => With(<<>>, Guessed(ts, g, h))[n] = Place(LastOf(ts, n))
        /\ (\A i \in DOMAIN ts : ~ts[i].bare) => Guessed(ts, g, h) = ts
    BY <2>2, IndexOfGuessed, Zenon
  <2>6. HasTables(f)'
    <3>1. f.flaw \in {"no", "entry"}
      BY <1>1, <1>7
    <3>2. QED
      BY <1>5, <2>3, <2>4, <2>5, <3>1 DEF HasTables
  <2>7. (\A i \in DOMAIN f.tensors : ~f.tensors[i].bare) => TablesRight(f)
    <3>1. format # "gguf"
      OBVIOUS
    <3>2. QED
      BY <2>3, <2>4, <2>5, <3>1 DEF TablesRight
  <2>8. QED
    BY <1>4, <2>6, <2>7 DEF Sized
<1>8. QED
  BY <1>6, <1>7

(* What is indexed is a tensor of the file, and every one of them is.      *)
LEMMA IndexedIsWanted ==
    ASSUME NEW f, f.tensors \in Seq(Tensor), HasTables(f), NEW name
    PROVE  /\ name \in DOMAIN index <=> f.flaw \in {"no", "entry"} /\ Wanted(f.tensors, name) # {}
           /\ name \in DOMAIN index /\ (\A i \in Wanted(f.tensors, name) : ~f.tensors[i].bare)
                => index[name] = Place(LastOf(f.tensors, name))
<1>1. CASE f.flaw \in {"no", "entry"}
  <2>1. name \in ToSet(NamesOf(f.tensors)) <=> Wanted(f.tensors, name) # {}
    BY NamesAreWanted, Zenon
  <2>2. QED
    BY <1>1, <2>1 DEF HasTables
<1>2. CASE f.flaw \notin {"no", "entry"}
  <2>1. index = <<>>
    BY <1>2 DEF HasTables
  <2>2. QED
    BY <1>2, <2>1, NothingIndexed
<1>3. QED
  BY <1>1, <1>2

(* What is said of a file is the same whatever the loader does.            *)
LEMMA FilesStay ==
    ASSUME NEW g
    PROVE  /\ HeaderRead(g)' <=> HeaderRead(g)
           /\ Shifted(g, g.items)' <=> Shifted(g, g.items)
           /\ Sized(g)' <=> Sized(g)
           /\ Complete(g)' <=> Complete(g)
BY DEF HeaderRead, Shifted, Needed, Straight, Items, ReadAsWritten, Sized, Complete

-----------------------------------------------------------------------------
LEMMA LoaderInvInit ==
    LoaderInit => LoaderInv
<1> SUFFICES ASSUME LoaderInit PROVE LoaderInv
  OBVIOUS
<1>1. None \notin Paths
  BY FilesAssumption, PathsAreOfFormat DEF LoaderInit
<1>2. StreamInv
  BY <1>1 DEF LoaderInit, StreamInv
<1>3. AnswersForeseen
  BY <1>1 DEF LoaderInit, AnswersForeseen, Answer
<1>4. QED
  BY <1>2, <1>3 DEF LoaderInv

LEMMA LoadFileKeeps ==
    ASSUME LoaderInv, NEW path, LoadFile(path)
    PROVE  LoaderInv'
<1> DEFINE s == Opened(path)
           f == Files[s.file]
           r == Readable(s)
           due == path \in Paths /\ Files[path].flaw = "no"
<1>1. /\ StreamInv /\ format' = format /\ lied' = lied /\ path_' = path
      /\ again' = (again \/ stream.file # None)
  BY DEF LoaderInv, LoadFile
<1>2. /\ Paths' = Paths /\ None \notin Paths /\ Paths \subseteq DOMAIN Files
      /\ \A p \in Paths : Files[p].format = format
  <2>1. format \in {"gguf", "safetensors"}
    BY <1>1 DEF StreamInv
  <2>2. Paths' = Paths
    BY <1>1 DEF Paths
  <2>3. QED
    BY <2>1, <2>2, FilesAssumption, PathsAreOfFormat
<1>3. /\ format \in {"gguf", "safetensors"}
      /\ stream \in [file : Paths \cup {None}, good : BOOLEAN]
      /\ again \in BOOLEAN /\ lied \in BOOLEAN
  BY <1>1 DEF StreamInv
<1>4. CASE stream.file = None /\ path \notin Paths
  <2>1. s.file = None
    BY <1>3, <1>4 DEF Opened
  <2>2. /\ stream' = s
        /\ answer' = Answer("load", "false", due, FALSE)
        /\ UNCHANGED <<tables, data_offset_>>
    BY <2>1 DEF LoadFile
  <2>3. stream'.file = None /\ stream' \in [file : Paths \cup {None}, good : BOOLEAN]
    BY <1>3, <1>4, <2>2 DEF Opened
  <2>4. ~again /\ ~lied
    BY <1>1, <1>4 DEF StreamInv
  <2>5. /\ metadata_ = {} /\ names = <<>> /\ index = <<>>
        /\ total_size_ = 0 /\ data_offset_ = 0
    BY <1>1, <1>4 DEF StreamInv
  <2>6. StreamInv'
    BY <1>1, <1>2, <1>3, <1>4, <2>2, <2>3, <2>4, <2>5 DEF StreamInv, tables
  <2>7. AnswersForeseen'
    BY <1>1, <1>2, <1>4, <2>4 DEF AnswersForeseen
  <2>8. QED
    BY <2>6, <2>7 DEF LoaderInv
<1>5. CASE stream.file = None /\ path \in Paths
  <2>1. s = [file |-> path, good |-> TRUE]
    BY <1>5 DEF Opened
  <2>2. s.file = path /\ s.good = TRUE /\ path # None /\ path \in DOMAIN Files
    BY <1>2, <1>5, <2>1
  <2>3. PICK g : g = Files[path]
    OBVIOUS
  <2>4. f = g /\ r = g.items /\ g.format = format
    BY <1>2, <1>5, <2>2, <2>3 DEF Readable
  <2>13. due = (g.flaw = "no")
    BY <1>5, <2>3
  <2>14. /\ \E good \in IF Shifted(f, r) THEN BOOLEAN ELSE {s.good /\ r >= Needed(f)} :
              stream' = [s EXCEPT !.good = good]
         /\ \E ok \in Outcomes, right \in BOOLEAN : answer' = Answer("load", ok, due, right)
         /\ IF format = "gguf" THEN LoadGguf(f, r) ELSE LoadSafetensors(f, r)
         /\ answer'.right = (path \in Paths /\ TablesRight(Files[path]))
    <3>1. s.file # None
      BY <2>2
    <3>2. QED
      BY <3>1 DEF LoadFile
  <2> HIDE DEF s, f, r, due
  <2>15. PICK good \in IF Shifted(g, g.items) THEN BOOLEAN ELSE {g.items >= Needed(g)} :
           stream' = [s EXCEPT !.good = good]
    BY <2>2, <2>4, <2>14
  <2>16. PICK ok \in Outcomes, right \in BOOLEAN : answer' = Answer("load", ok, g.flaw = "no", right)
    <3>1. PICK ok \in Outcomes, right \in BOOLEAN : answer' = Answer("load", ok, due, right)
      BY <2>14
    <3>2. QED
      BY <2>13, <3>1
  <2>17. answer'.call = "load" /\ answer'.ok = ok /\ answer'.due = (g.flaw = "no")
    BY <2>16 DEF Answer
  <2>18. IF format = "gguf" THEN LoadGguf(g, g.items) ELSE LoadSafetensors(g, g.items)
    BY <2>4, <2>14, Zenon
  <2>19. answer'.right = TablesRight(g)
    <3>1. answer'.right = (path \in Paths /\ TablesRight(g))
      BY <2>3, <2>14
    <3>2. TablesRight(g) \in BOOLEAN
      BY DEF TablesRight
    <3>3. QED
      BY <1>5, <3>1, <3>2
  <2>6. stream' = [file |-> path, good |-> good]
    BY <2>1, <2>15
  <2>7. ~again /\ ~lied /\ again' = FALSE /\ lied' = FALSE
    BY <1>1, <1>5 DEF StreamInv
  <2>8. ASSUME HeaderRead(g)
        PROVE  /\ HasTables(g)'
               /\ answer'.ok = IF g.flaw = "no" THEN "true" ELSE "false"
               /\ answer'.ok = "true" /\ Sized(g) => TablesRight(g)
    <3>1. FirstLoad(path)
      BY <1>1, <1>5, <2>3, <2>8, <2>16 DEF FirstLoad
    <3>2. CASE format = "gguf"
      <4>1. LoadGguf(g, g.items)
        BY <2>18, <3>2
      <4>2. QED
        BY <2>3, <3>1, <3>2, <4>1, FirstLoadOfGguf
    <3>3. CASE format # "gguf"
      <4>1. LoadSafetensors(g, g.items) /\ format = "safetensors"
        BY <1>3, <2>18, <3>3
      <4>2. QED
        BY <2>3, <3>1, <4>1, FirstLoadOfSafetensors
    <3>4. QED
      BY <3>2, <3>3
  <2>20. (g.items >= Needed(g)) \in BOOLEAN
    <3>1. g.keys \in Seq(Key) /\ g.tensors \in Seq(Tensor) /\ g.items \in Nat
      BY <2>2, <2>3, FilesAreTyped
    <3>2. Len(g.keys) \in Nat /\ Len(g.tensors) \in Nat
      BY <3>1
    <3>3. \A k, t \in Nat : 4 + k + t \in Int
      OBVIOUS
    <3>4. Items(g) \in Int
      BY <3>2, <3>3 DEF Items
    <3>5. Needed(g) \in Int
      BY <3>4 DEF Needed
    <3>6. QED
      BY <3>1, <3>5
  <2>21. /\ good \in BOOLEAN
         /\ HeaderRead(g) => good
         /\ good => HeaderRead(g) \/ Shifted(g, g.items)
    BY <2>15, <2>20 DEF HeaderRead
  <2>10. StreamInv'
    <3>1. /\ stream'.file = path /\ stream'.good = good /\ (stream'.file # None)
          /\ Files[stream'.file] = g
          /\ stream' \in [file : Paths \cup {None}, good : BOOLEAN]
      BY <1>5, <2>2, <2>3, <2>6, <2>21
    <3>2. /\ HeaderRead(g)' => HasTables(g)'
          /\ HeaderRead(g)' => good
          /\ good => HeaderRead(g)' \/ Shifted(g, g.items)'
      BY <2>8, <2>21, FilesStay
    <3>3. /\ HeaderRead(Files[stream.file])' => HasTables(Files[stream.file])'
          /\ HeaderRead(Files[stream.file])' => good
          /\ good => HeaderRead(Files[stream.file])' \/ Shifted(Files[stream.file], Files[stream.file].items)'
      BY <3>1, <3>2
    <3>4. QED
      BY <1>1, <1>2, <1>3, <2>7, <3>1, <3>3 DEF StreamInv
  <2>22. ASSUME HeaderRead(g), Sized(g)
         PROVE  /\ answer'.ok = IF answer'.due THEN "true" ELSE "false"
                /\ answer'.ok = "true" => answer'.right
    BY <2>8, <2>17, <2>19, <2>22
  <2>23. ASSUME format = "gguf", answer'.due, g.items >= 2 PROVE answer'.ok # "false"
    <3>1. LoadGguf(g, g.items) /\ g.flaw = "no"
      BY <2>17, <2>18, <2>23
    <3>2. Accepted(g, g.items) = {TRUE}
      BY <2>23, <3>1 DEF Accepted
    <3>3. FALSE \notin Accepted(g, g.items)
      BY <3>2
    <3>4. QED
      BY <3>1, <3>3 DEF LoadGguf
  <2>24. ASSUME format # "gguf", answer'.ok = "true" PROVE answer'.due /\ HeaderRead(g)
    <3>1. LoadSafetensors(g, g.items)
      BY <2>18, <2>24
    <3>2. ParseHeader(g, g.items)
      BY <2>24, <3>1 DEF LoadSafetensors
    <3>3. g.items >= 2 /\ g.flaw = "no"
      BY <2>24, <3>2 DEF ParseHeader
    <3>4. Needed(g) = 2 /\ ~Shifted(g, g.items)
      BY <1>3, <2>2, <2>3, <2>4, <2>24, InPlace
    <3>5. QED
      BY <2>17, <3>3, <3>4 DEF HeaderRead
  <2>11. AnswersForeseen'
    <3>1. Files[path_]' = g /\ format' = format
      BY <1>1, <2>3
    <3>2. /\ HeaderRead(g)' <=> HeaderRead(g)
          /\ Sized(g)' <=> Sized(g)
      BY FilesStay
    <3>3. /\ HeaderRead(Files[path_])' <=> HeaderRead(g)
          /\ Sized(Files[path_])' <=> Sized(g)
      BY <3>1, <3>2
    <3>4. QED
      BY <2>7, <2>17, <2>22, <2>23, <2>24, <3>1, <3>3 DEF AnswersForeseen
  <2>12. QED
    BY <2>10, <2>11 DEF LoaderInv
<1>6. CASE stream.file # None
  <2>1. s = [stream EXCEPT !.good = FALSE]
    BY <1>6 DEF Opened
  <2>2. s.file = stream.file /\ s.good = FALSE
    BY <1>3, <2>1
  <2>3. stream.file \in DOMAIN Files /\ r = 0
    BY <1>2, <1>3, <1>6, <2>2 DEF Readable
  <2>4. /\ \E good \in IF Shifted(f, r) THEN BOOLEAN ELSE {s.good /\ r >= Needed(f)} :
             stream' = [s EXCEPT !.good = good]
        /\ \E ok \in Outcomes, right \in BOOLEAN : answer' = Answer("load", ok, due, right)
        /\ IF format = "gguf" THEN LoadGguf(f, r) ELSE LoadSafetensors(f, r)
    BY <1>6, <2>2 DEF LoadFile
  <2>5. ~Shifted(f, r)
    BY <2>2, <2>3, InPlace
  <2> HIDE DEF s, r, f
  <2>6. stream' = [file |-> stream.file, good |-> FALSE]
    BY <1>3, <2>1, <2>2, <2>4, <2>5
  <2>7. again' = TRUE /\ answer'.call = "load"
    <3> HIDE DEF due
    <3>1. \A ok, right : Answer("load", ok, due, right).call = "load"
      BY DEF Answer
    <3>2. again' = TRUE
      BY <1>1, <1>6
    <3>3. QED
      BY <2>4, <3>1, <3>2
  <2>8. ASSUME format # "gguf" PROVE answer'.ok # "true"
    <3>1. LoadSafetensors(f, r) /\ ~(r >= 2)
      BY <2>3, <2>4, <2>8
    <3>2. QED
      BY <3>1 DEF LoadSafetensors, ParseHeader
  <2>9. StreamInv'
    BY <1>1, <1>2, <1>3, <1>6, <2>6, <2>7 DEF StreamInv
  <2>10. AnswersForeseen'
    BY <1>1, <2>7, <2>8 DEF AnswersForeseen
  <2>11. QED
    BY <2>9, <2>10 DEF LoaderInv
<1>7. QED
  BY <1>4, <1>5, <1>6

LEMMA LoadTensorDataKeeps ==
    ASSUME LoaderInv, NEW name, NEW room \in Buffers, LoadTensorData(name, room)
    PROVE  LoaderInv'
<1> DEFINE f == Files[path_]
           ts == IF path_ \in Paths THEN f.tensors ELSE <<>>
           wanted == Wanted(ts, name)
           t == LastOf(ts, name)
           due == wanted # {} /\ f.flaw \in {"no", "entry"} /\ t.size <= room
           found == name \in DOMAIN index /\ index[name].size <= room
           first == data_offset_ + index[name].offset
           read == stream.good /\ first + index[name].size <= End(Files[stream.file])
           right == /\ read /\ stream.file = path_ /\ wanted # {}
                    /\ first = DataStart(f) + t.offset /\ index[name].size = t.size
           straight == \A i \in wanted : ~ts[i].bare
<1>1. StreamInv /\ UNCHANGED <<format, path_, tables, data_offset_, again>>
  BY DEF LoaderInv, LoadTensorData
<1>2. /\ Paths' = Paths /\ None \notin Paths /\ Paths \subseteq DOMAIN Files
      /\ \A p \in Paths : Files[p].format = format
  <2>1. format \in {"gguf", "safetensors"}
    BY <1>1 DEF StreamInv
  <2>2. Paths' = Paths
    BY <1>1 DEF Paths
  <2>3. QED
    BY <2>1, <2>2, FilesAssumption, PathsAreOfFormat
<1>3. /\ format \in {"gguf", "safetensors"}
      /\ stream \in [file : Paths \cup {None}, good : BOOLEAN]
      /\ again \in BOOLEAN /\ lied \in BOOLEAN
  BY <1>1 DEF StreamInv
<1>4. \/ ~found /\ answer' = Answer("tensor", "false", due, FALSE) /\ UNCHANGED <<stream, lied>>
      \/ /\ found /\ answer' = Answer("tensor", "true", due, right)
         /\ stream' = [stream EXCEPT !.good = read]
         /\ lied' = (lied \/ (~right /\ straight))
  BY DEF LoadTensorData
(* The tables of a header that was read as it is written. *)
<1>5. ASSUME ~again, stream.file # None, HeaderRead(Files[stream.file])
      PROVE  /\ path_ \in Paths /\ stream.file = path_
             /\ f.tensors \in Seq(Tensor) /\ ts = f.tensors
             /\ data_offset_ = DataStart(f)
             /\ name \in DOMAIN index <=> f.flaw \in {"no", "entry"} /\ wanted # {}
             /\ name \in DOMAIN index /\ straight
                  => index[name].offset = t.offset /\ index[name].size = t.size
  <2>1. HasTables(Files[stream.file]) /\ path_ = stream.file
    BY <1>1, <1>5 DEF StreamInv
  <2>2. path_ \in Paths /\ path_ \in DOMAIN Files
    BY <1>2, <1>3, <1>5, <2>1
  <2>3. f.tensors \in Seq(Tensor) /\ ts = f.tensors /\ HasTables(f)
    BY <2>1, <2>2, FilesAreTyped
  <2>4. data_offset_ = DataStart(f)
    BY <2>3 DEF HasTables
  <2> HIDE DEF f, ts
  <2>5. /\ name \in DOMAIN index <=> f.flaw \in {"no", "entry"} /\ wanted # {}
        /\ name \in DOMAIN index /\ straight => index[name] = Place(t)
    BY <2>3, IndexedIsWanted
  <2>6. Place(t).offset = t.offset /\ Place(t).size = t.size
    BY DEF Place
  <2>7. QED
    BY <2>1, <2>2, <2>3, <2>4, <2>5, <2>6
<1>6. ASSUME ~again, path_ \in Paths
      PROVE  stream.file # None /\ stream.file = path_ /\ f = Files[stream.file]
  <2>1. stream.file # None
    BY <1>1, <1>6 DEF StreamInv
  <2>2. path_ = stream.file
    BY <1>1, <1>6, <2>1 DEF StreamInv
  <2>3. QED
    BY <2>1, <2>2
<1>14. ASSUME ~again, path_ \in Paths, HeaderRead(f), Sized(f)
       PROVE  straight
  <2>1. ts = f.tensors /\ wanted \subseteq DOMAIN ts
    BY <1>5, <1>6, <1>14 DEF Wanted
  <2>2. QED
    BY <1>14, <2>1 DEF Sized
<1>7. ASSUME ~again, path_ \in Paths, HeaderRead(f), Sized(f), Complete(f), name \in DOMAIN index
      PROVE  read /\ right
  <2>1. /\ wanted # {} /\ f.tensors \in Seq(Tensor) /\ ts = f.tensors
        /\ data_offset_ = DataStart(f)
        /\ index[name].offset = t.offset /\ index[name].size = t.size
    BY <1>5, <1>6, <1>7, <1>14
  <2>2. stream.good /\ stream.file = path_
    BY <1>1, <1>6, <1>7 DEF StreamInv
  <2>3. Len(f.tensors) \in Nat /\ f.cells \in Nat
    BY <1>2, <1>7, <2>1, FilesAreTyped
  <2>4. PICK d \in Nat, c \in Nat : d = DataStart(f) /\ c = f.cells
    BY <2>3 DEF DataStart
  <2>5. \A i \in DOMAIN ts : ts[i].offset + ts[i].size <= c
    BY <1>7, <2>1, <2>4 DEF Complete
  <2>6. t \in Tensor /\ t.offset + t.size <= c
    <3> HIDE DEF ts
    <3>1. Max(wanted) \in wanted /\ t \in Tensor
      BY <2>1, LastIsWanted
    <3>2. wanted \subseteq DOMAIN ts
      BY DEF Wanted
    <3>3. QED
      BY <2>5, <3>1, <3>2 DEF LastOf
  <2>7. PICK o \in Nat, z \in Nat : o = t.offset /\ z = t.size
    BY <2>6 DEF Tensor
  <2>8. End(Files[stream.file]) = d + c
    BY <2>2, <2>4 DEF End
  <2>9. first = d + o /\ index[name].size = z
    BY <2>1, <2>4, <2>7
  <2>10. (d + o) + z <= d + c
    BY <2>6, <2>7
  <2>11. read
    BY <2>2, <2>8, <2>9, <2>10
  <2>12. QED
    BY <2>1, <2>2, <2>4, <2>7, <2>9, <2>11
<1>8. \A g : HasTables(g)' <=> HasTables(g)
  BY <1>1 DEF HasTables, tables, DataStart, NamesOf, Wanted, LastOf, Place
<1> HIDE DEF f, ts, wanted, t, straight
<1>15. /\ HeaderRead(f)' <=> HeaderRead(f)
       /\ Sized(f)' <=> Sized(f)
       /\ Complete(f)' <=> Complete(f)
       /\ Shifted(f, f.items)' <=> Shifted(f, f.items)
  <2>1. f' = f
    BY <1>1 DEF f
  <2>2. PICK g : g = f
    OBVIOUS
  <2>3. QED
    BY <2>1, <2>2, FilesStay
<1>16. Files[path_]' = f /\ Files[path_] = f
  BY <1>1 DEF f
<1>9. CASE ~found
  <2>1. answer' = Answer("tensor", "false", due, FALSE) /\ UNCHANGED <<stream, lied>>
    BY <1>4, <1>9
  <2>2. StreamInv'
    BY <1>1, <1>2, <1>3, <1>8, <2>1, FilesStay DEF StreamInv, tables
  <2>3. ASSUME path_ \in Paths, ~again, HeaderRead(f), Sized(f) PROVE due = FALSE
    <3>1. SUFFICES ASSUME due PROVE FALSE
      OBVIOUS
    <3>2. straight
      BY <1>14, <2>3
    <3>3. name \in DOMAIN index
      BY <1>5, <1>6, <2>3, <3>1
    <3>4. index[name].size = t.size
      BY <1>5, <1>6, <2>3, <3>2, <3>3
    <3>5. QED
      BY <1>9, <3>1, <3>3, <3>4
  <2> HIDE DEF due
  <2>4. answer'.call = "tensor" /\ answer'.ok = "false" /\ answer'.due = due /\ answer'.right = FALSE
    BY <2>1 DEF Answer
  <2>5. AnswersForeseen'
    BY <1>1, <1>2, <1>15, <1>16, <2>3, <2>4 DEF AnswersForeseen
  <2>6. QED
    BY <2>2, <2>5 DEF LoaderInv
<1>10. CASE found
  <2>1. /\ answer' = Answer("tensor", "true", due, right)
        /\ stream' = [stream EXCEPT !.good = read]
        /\ lied' = (lied \/ (~right /\ straight))
    BY <1>4, <1>10
  <2>2. name \in DOMAIN index
    BY <1>10
  <2>3. stream.file # None
    <3>1. index # <<>>
      BY <2>2, NothingIndexed
    <3>2. QED
      BY <1>1, <3>1 DEF StreamInv
  <2>4. read \in BOOLEAN /\ right \in BOOLEAN
    OBVIOUS
  <2>5. ASSUME read
        PROVE  /\ stream.good /\ ~again /\ stream.file = path_
               /\ HeaderRead(f) \/ Shifted(f, f.items)
               /\ lied' => Shifted(f, f.items)
    <3>1. stream.good
      BY <2>5
    <3>2. /\ ~again /\ stream.file = path_
          /\ HeaderRead(f) \/ Shifted(f, f.items)
          /\ lied => Shifted(f, f.items)
      BY <1>1, <1>16, <2>3, <3>1 DEF StreamInv
    <3>3. HeaderRead(f) /\ straight => right
      BY <1>5, <1>16, <2>2, <2>3, <2>5, <3>2
    <3>4. QED
      BY <2>1, <3>1, <3>2, <3>3
  <2>6. /\ stream' = [file |-> stream.file, good |-> read] /\ lied' \in BOOLEAN
    <3>1. straight \in BOOLEAN
      BY DEF straight
    <3> HIDE DEF read, right
    <3>2. QED
      BY <1>3, <2>1
  <2>7. ASSUME path_ \in Paths, ~again, HeaderRead(f), Sized(f), Complete(f) PROVE read /\ right
    BY <1>7, <2>2, <2>7
  <2>8. StreamInv'
    <3> HIDE DEF read, right
    <3>1. stream'.file = stream.file /\ stream'.good = read
      BY <2>6
    <3>2. stream' \in [file : Paths \cup {None}, good : BOOLEAN]
      BY <1>3, <2>4, <2>6
    <3>3. ~again => path_ = stream.file /\ path_ \in Paths /\ Files[stream.file] = f
      <4>1. ~again => path_ = stream.file
        BY <1>1, <2>3 DEF StreamInv
      <4>2. QED
        BY <1>3, <1>16, <2>3, <4>1
    <3>4. ~again /\ HeaderRead(f) => HasTables(f)
      BY <1>1, <2>3, <3>3 DEF StreamInv
    <3>5. ~again =>
            /\ HeaderRead(f)' => HasTables(f)'
            /\ HeaderRead(f)' /\ Sized(f)' /\ Complete(f)' => read
            /\ read => HeaderRead(f)' \/ Shifted(f, f.items)'
            /\ read /\ lied' => Shifted(f, f.items)'
      <4>1. PICK g : g = f
        OBVIOUS
      <4>2. HasTables(g)' <=> HasTables(g)
        BY <1>8
      <4>3. f' = f
        BY <1>1 DEF f
      <4>4. HasTables(f)' <=> HasTables(f)
        BY <4>1, <4>2, <4>3
      <4>5. QED
        BY <1>15, <2>5, <2>7, <3>3, <3>4, <4>4
    <3>6. ~again => Files[stream.file]' = f'
      BY <1>16, <3>1, <3>3 DEF f
    <3>7. ~again =>
            /\ HeaderRead(Files[stream.file])' => HasTables(Files[stream.file])'
            /\ HeaderRead(Files[stream.file])' /\ Sized(Files[stream.file])' /\ Complete(Files[stream.file])' => read
            /\ read => HeaderRead(Files[stream.file])' \/ Shifted(Files[stream.file], Files[stream.file].items)'
            /\ read /\ lied' => Shifted(Files[stream.file], Files[stream.file].items)'
      BY <3>5, <3>6
    <3>8. read => ~again
      BY <2>5
    <3>9. again' = again /\ path_' = path_ /\ format' = format
      BY <1>1
    <3>10. QED
      BY <1>2, <1>3, <2>3, <2>6, <3>1, <3>2, <3>3, <3>7, <3>8, <3>9 DEF StreamInv
  <2>9. ASSUME path_ \in Paths, ~again, HeaderRead(f), Sized(f) PROVE due = TRUE
    <3>1. straight
      BY <1>14, <2>9
    <3>2. f.flaw \in {"no", "entry"} /\ wanted # {}
      BY <1>5, <1>6, <2>2, <2>9
    <3>3. index[name].size = t.size
      BY <1>5, <1>6, <2>2, <2>9, <3>1
    <3>4. QED
      BY <1>10, <3>2, <3>3
  <2>10. right => read
    OBVIOUS
  <2> HIDE DEF due, right, read
  <2>11. answer'.call = "tensor" /\ answer'.ok = "true" /\ answer'.due = due /\ answer'.right = right
    BY <2>1 DEF Answer
  <2>12. AnswersForeseen'
    BY <1>1, <1>2, <1>15, <1>16, <2>5, <2>7, <2>9, <2>10, <2>11 DEF AnswersForeseen
  <2>13. QED
    BY <2>8, <2>12 DEF LoaderInv
<1>11. QED
  BY <1>9, <1>10

(* LOADERS ANSWER AS FORESEEN, for every set of files: see AnswersForeseen.*)
(* The keys of a file are of any types, those the code does not read as    *)
(* they are written among them.  The invariant says what the stream stands *)
(* for: while it is good it has the file that was asked for last, and      *)
(* either the tables are of that file or its header was read out of place; *)
(* once load() was called again, or a read has failed where nothing was out*)
(* of place, it is never good.                                             *)
THEOREM LoadersAnswer == LoaderSpec => []AnswersForeseen
<1>1. LoaderInit => LoaderInv
  BY LoaderInvInit
<1>2. LoaderInv /\ [LoaderNext]_loader => LoaderInv'
  <2> SUFFICES ASSUME LoaderInv, [LoaderNext]_loader PROVE LoaderInv'
    OBVIOUS
  <2>1. CASE \E path \in Paths \cup {"absent"} : LoadFile(path)
    BY <2>1, LoadFileKeeps
  <2>2. CASE \E name \in Names, room \in Buffers : LoadTensorData(name, room)
    BY <2>2, LoadTensorDataKeeps
  <2>3. CASE UNCHANGED loader
    <3>1. UNCHANGED loader
      BY <2>3
    <3>2. /\ format' = format /\ path_' = path_ /\ stream' = stream /\ answer' = answer
          /\ again' = again /\ lied' = lied /\ Paths' = Paths /\ data_offset_' = data_offset_
          /\ metadata_' = metadata_ /\ names' = names /\ index' = index /\ total_size_' = total_size_
      BY <3>1 DEF loader, tables, Paths
    <3>3. \A g : HasTables(g)' <=> HasTables(g)
      BY <3>2 DEF HasTables, DataStart, NamesOf, Wanted, LastOf, Place
    <3>4. StreamInv'
      BY <3>2, <3>3, FilesStay DEF LoaderInv, StreamInv
    <3>5. AnswersForeseen'
      BY <3>2, FilesStay DEF LoaderInv, AnswersForeseen
    <3>6. QED
      BY <3>4, <3>5 DEF LoaderInv
  <2>4. QED
    BY <2>1, <2>2, <2>3 DEF LoaderNext
<1>3. LoaderInv => AnswersForeseen
  BY DEF LoaderInv
<1>4. QED
  BY <1>1, <1>2, <1>3, PTL DEF LoaderSpec

-----------------------------------------------------------------------------
(* Where a sequence is replaced it has the pair, no two such places are    *)
(* next to each other, and there is one if the sequence has the pair.      *)
LEMMA OccurrencesArePlaces ==
    ASSUME NEW s \in Seq(Int), NEW p
    PROVE  /\ Occurrences(s, p) \subseteq Places(s, p)
           /\ \A i \in Occurrences(s, p) : i - 1 \notin Occurrences(s, p)
           /\ Places(s, p) # {} => Occurrences(s, p) # {}
<1> DEFINE Turns(u) == [i \in 0 .. Len(s) - 1 |->
                          IF i = 0 THEN {}
                          ELSE IF Pair(s, i) = p /\ i - 1 \notin u[i - 1] THEN u[i - 1] \cup {i}
                               ELSE u[i - 1]]
           taken == CHOOSE u : u = Turns(u)
           V == SUBSET Places(s, p)
           n == Len(s) - 1
<1>1. CASE s = <<>>
  <2>1. Places(s, p) = {}
    <3>1. Len(s) - 1 = -1 /\ 1 .. -1 = {}
      BY <1>1
    <3>2. QED
      BY <3>1 DEF Places
  <2>2. Occurrences(s, p) = {}
    BY <1>1 DEF Occurrences
  <2>3. QED
    BY <2>1, <2>2
<1>2. CASE s # <<>>
  <2>1. Len(s) \in Nat /\ n \in Nat
    BY <1>2
  <2>2. \E u : u \in [0 .. n -> V] /\ u = Turns(u)
    <3> DEFINE turn == [x \in (1 .. n) \X V |->
                          IF Pair(s, x[1]) = p /\ x[1] - 1 \notin x[2] THEN x[2] \cup {x[1]} ELSE x[2]]
    <3>1. turn \in [(1 .. n) \X V -> V]
      <4>1. ASSUME NEW x \in (1 .. n) \X V
            PROVE  (IF Pair(s, x[1]) = p /\ x[1] - 1 \notin x[2] THEN x[2] \cup {x[1]} ELSE x[2]) \in V
        <5>1. x[1] \in 1 .. n /\ x[2] \in V
          OBVIOUS
        <5>2. Pair(s, x[1]) = p => x[1] \in Places(s, p)
          BY <5>1 DEF Places
        <5>3. QED
          BY <5>1, <5>2
      <4>2. QED
        BY <4>1
    <3>2. {} \in V
      OBVIOUS
    <3> HIDE DEF V, n
    <3>3. PICK g : IsRun(g, n, V, {}, turn)
      <4> HIDE DEF turn
      <4>1. QED
        BY <2>1, <3>1, <3>2, LoopRuns
    <3>4. g \in [0 .. n -> V] /\ g[0] = {}
      BY <3>3 DEF IsRun
    <3>5. ASSUME NEW i \in 1 .. n
          PROVE  g[i] = IF Pair(s, i) = p /\ i - 1 \notin g[i - 1] THEN g[i - 1] \cup {i} ELSE g[i - 1]
      <4>1. g[i - 1] \in V
        BY <2>1, <3>4
      <4>2. g[i] = turn[<<i, g[i - 1]>>]
        BY <3>3 DEF IsRun
      <4>3. QED
        BY <4>1, <4>2
    <3>6. g = Turns(g)
      <4>1. g = [i \in 0 .. n |-> g[i]]
        BY <3>4
      <4>2. \A i \in 0 .. n : i = 0 \/ i \in 1 .. n
        BY <2>1
      <4>3. QED
        BY <3>4, <3>5, <4>1, <4>2 DEF n
    <3>7. QED
      BY <3>4, <3>6
  <2>3. taken = Turns(taken)
    <3> HIDE DEF Turns
    <3>1. QED
      BY <2>2
  <2> DEFINE Q(k) == /\ taken[k] \in V /\ taken[k] \subseteq 1 .. k
                     /\ \A i \in taken[k] : i - 1 \notin taken[k]
                     /\ (\E j \in Places(s, p) : j <= k) => taken[k] # {}
  <2>4. \A k \in 0 .. n : Q(k)
    <3> DEFINE S == {k \in 0 .. n : Q(k)}
    <3> HIDE DEF taken
    <3>5. \A j \in Places(s, p) : j \in 1 .. n /\ Pair(s, j) = p
      BY DEF Places
    <3>1. 0 \in S
      <4>1. taken[0] = {}
        BY <2>1, <2>3
      <4>2. \A j \in Places(s, p) : ~(j <= 0)
        BY <3>5
      <4>3. QED
        BY <2>1, <4>1, <4>2
    <3>2. ASSUME NEW k \in 1 .. n, k - 1 \in S PROVE k \in S
      <4>1. taken[k] = IF Pair(s, k) = p /\ k - 1 \notin taken[k - 1] THEN taken[k - 1] \cup {k} ELSE taken[k - 1]
        <5>1. k \in 0 .. Len(s) - 1 /\ k # 0
          BY <2>1
        <5>2. Turns(taken)[k] = IF Pair(s, k) = p /\ k - 1 \notin taken[k - 1] THEN taken[k - 1] \cup {k} ELSE taken[k - 1]
          BY <5>1
        <5> HIDE DEF Turns
        <5>3. QED
          BY <2>3, <5>2
      <4>2. Pair(s, k) = p => k \in Places(s, p)
        BY DEF Places
      <4>3. taken[k - 1] \in V /\ taken[k - 1] \subseteq 1 .. k - 1
        BY <3>2
      <4>4. taken[k] \in V /\ taken[k] \subseteq 1 .. k
        BY <4>1, <4>2, <4>3
      <4>5. ASSUME NEW i \in taken[k] PROVE i - 1 \notin taken[k]
        <5>1. CASE i \in taken[k - 1]
          <6>1. i - 1 \notin taken[k - 1] /\ i \in 1 .. k - 1
            BY <3>2, <4>3, <5>1
          <6>2. i - 1 # k
            BY <6>1
          <6>3. QED
            BY <4>1, <6>1, <6>2
        <5>2. CASE i \notin taken[k - 1]
          <6>1. i = k /\ k - 1 \notin taken[k - 1] /\ k - 1 # k
            BY <4>1, <5>2
          <6>2. QED
            BY <4>1, <6>1
        <5>3. QED
          BY <5>1, <5>2
      <4>6. ASSUME NEW j \in Places(s, p), j <= k PROVE taken[k] # {}
        <5>1. CASE taken[k - 1] # {}
          BY <4>1, <5>1
        <5>2. CASE taken[k - 1] = {}
          <6>1. ~(j <= k - 1)
            BY <3>2, <5>2
          <6>2. j = k
            BY <3>5, <4>6, <6>1
          <6>3. Pair(s, k) = p
            BY <3>5, <6>2
          <6>4. QED
            BY <4>1, <5>2, <6>3
        <5>3. QED
          BY <5>1, <5>2
      <4>7. QED
        BY <4>4, <4>5, <4>6
    <3> HIDE DEF S
    <3>3. \A k \in 0 .. n : k \in S
      BY <2>1, <3>1, <3>2, Upwards
    <3>4. QED
      BY <3>3 DEF S
  <2>5. Occurrences(s, p) = taken[n]
    BY <1>2 DEF Occurrences
  <2>6. n \in 0 .. n /\ \A j \in Places(s, p) : j <= n
    BY <2>1 DEF Places
  <2> HIDE DEF taken, n
  <2>7. /\ taken[n] \in V /\ \A i \in taken[n] : i - 1 \notin taken[n]
        /\ (\E j \in Places(s, p) : j <= n) => taken[n] # {}
    <3>1. Q(n)
      <4> HIDE DEF Q
      <4>1. QED
        BY <2>4, <2>6
    <3>2. QED
      BY <3>1
  <2>8. Places(s, p) # {} => taken[n] # {}
    BY <2>6, <2>7
  <2>9. QED
    BY <2>5, <2>7, <2>8
<1>3. QED
  BY <1>1, <1>2

LEMMA Appended ==
    ASSUME NEW X, NEW v \in Seq(X), NEW x \in X
    PROVE  Append(v, x) \in Seq(X)
OBVIOUS

(* What is kept of a sequence are places of it, one after the other.       *)
IsKeeping(u, s, at) ==
    /\ u[0] = <<>> /\ u[Len(s)] = Kept(s, at)
    /\ \A i \in 0 .. Len(s) : u[i] \in Seq(DOMAIN s)
    /\ \A i \in 1 .. Len(s) : u[i] = IF i - 1 \in at THEN u[i - 1] ELSE Append(u[i - 1], i)

LEMMA KeptArePlaces ==
    ASSUME NEW s \in Seq(Int), NEW at
    PROVE  Kept(s, at) \in Seq(DOMAIN s) /\ \E u : IsKeeping(u, s, at)
<1> DEFINE Turns(u) == [i \in 0 .. Len(s) |->
                          IF i = 0 THEN <<>>
                          ELSE IF i - 1 \in at THEN u[i - 1] ELSE Append(u[i - 1], i)]
           upto == CHOOSE u : u = Turns(u)
           V == Seq(DOMAIN s)
           n == Len(s)
<1>1. n \in Nat /\ DOMAIN s = 1 .. n /\ <<>> \in V
  OBVIOUS
<1>2. \E u : u = Turns(u)
  <2> DEFINE turn == [x \in (1 .. n) \X V |-> IF x[1] - 1 \in at THEN x[2] ELSE Append(x[2], x[1])]
  <2>1. turn \in [(1 .. n) \X V -> V]
    <3>1. ASSUME NEW x \in (1 .. n) \X V
          PROVE  (IF x[1] - 1 \in at THEN x[2] ELSE Append(x[2], x[1])) \in V
      <4>1. x[1] \in DOMAIN s /\ x[2] \in V
        BY <1>1
      <4>2. Append(x[2], x[1]) \in V
        BY <4>1, Appended, Zenon
      <4>3. QED
        BY <4>1, <4>2, Zenon
    <3>2. QED
      BY <3>1
  <2> HIDE DEF V, n
  <2>2. PICK g : IsRun(g, n, V, <<>>, turn)
    <3> HIDE DEF turn
    <3>1. QED
      BY <1>1, <2>1, LoopRuns
  <2>3. g \in [0 .. n -> V] /\ g[0] = <<>>
    BY <2>2 DEF IsRun
  <2>4. ASSUME NEW i \in 1 .. n
        PROVE  g[i] = IF i - 1 \in at THEN g[i - 1] ELSE Append(g[i - 1], i)
    <3>1. g[i - 1] \in V
      BY <1>1, <2>3
    <3>2. g[i] = turn[<<i, g[i - 1]>>]
      BY <2>2 DEF IsRun
    <3>3. QED
      BY <3>1, <3>2
  <2>5. g = Turns(g)
    <3>1. g = [i \in 0 .. n |-> g[i]]
      BY <2>3
    <3>2. \A i \in 0 .. n : i = 0 \/ i \in 1 .. n
      BY <1>1
    <3>3. QED
      BY <2>3, <2>4, <3>1, <3>2 DEF n
  <2>6. QED
    BY <2>5
<1>3. upto = Turns(upto)
  <2> HIDE DEF Turns
  <2>1. QED
    BY <1>2
<1>8. ASSUME NEW k \in 1 .. n
      PROVE  upto[k] = IF k - 1 \in at THEN upto[k - 1] ELSE Append(upto[k - 1], k)
  <2>1. k \in 0 .. Len(s) /\ k # 0
    BY <1>1
  <2> HIDE DEF upto
  <2>2. Turns(upto)[k] = IF k - 1 \in at THEN upto[k - 1] ELSE Append(upto[k - 1], k)
    BY <2>1
  <2> HIDE DEF Turns
  <2>3. QED
    BY <1>3, <2>2
<1>9. upto[0] = <<>>
  <2> HIDE DEF upto
  <2>1. QED
    BY <1>1, <1>3
<1>4. \A k \in 0 .. n : upto[k] \in V
  <2> DEFINE S == {k \in 0 .. n : upto[k] \in V}
  <2> HIDE DEF upto
  <2>1. 0 \in S
    <3>1. upto[0] \in V
      BY <1>1, <1>9, Zenon
    <3>2. 0 \in 0 .. n
      BY <1>1
    <3>3. QED
      BY <3>1, <3>2, Zenon
  <2>2. ASSUME NEW k \in 1 .. n, k - 1 \in S PROVE k \in S
    <3>1. upto[k] = IF k - 1 \in at THEN upto[k - 1] ELSE Append(upto[k - 1], k)
      BY <1>8
    <3>2. k \in DOMAIN s /\ upto[k - 1] \in V
      BY <1>1, <2>2
    <3>3. upto[k] \in V
      <4>1. Append(upto[k - 1], k) \in V
        BY <3>2, Appended, Zenon
      <4>2. QED
        BY <3>1, <3>2, <4>1, Zenon
    <3>4. QED
      BY <1>1, <3>3
  <2> HIDE DEF S
  <2>3. \A k \in 0 .. n : k \in S
    BY <1>1, <2>1, <2>2, Upwards
  <2>4. QED
    BY <2>3 DEF S
<1>5. Kept(s, at) = upto[n]
  BY DEF Kept
<1>6. n \in 0 .. n
  BY <1>1
<1> HIDE DEF upto
<1>10. IsKeeping(upto, s, at)
  BY <1>4, <1>5, <1>8, <1>9 DEF IsKeeping
<1>7. QED
  BY <1>4, <1>5, <1>6, <1>10

(* A token of a sequence after a merge is the new one, where the sequence  *)
(* had the pair, or one that it had; likewise what it stands for.          *)
MergedAt(s, p, id, o, k) ==
    \/ \E i \in Places(s, p) : /\ Merged(s, p, id)[k] = id
                               /\ Joined(o, s, p)[k] = o[i] \o o[i + 1]
    \/ \E i \in DOMAIN s : /\ Merged(s, p, id)[k] = s[i]
                           /\ Joined(o, s, p)[k] = o[i]

LEMMA MergedIs ==
    ASSUME NEW s \in Seq(Int), NEW p, NEW id \in Int, NEW o
    PROVE  /\ Merged(s, p, id) \in Seq(Int)
           /\ \A k \in DOMAIN Merged(s, p, id) : MergedAt(s, p, id, o, k)
<1> DEFINE at == Occurrences(s, p)
           kept == Kept(s, at)
<1>1. at \subseteq Places(s, p)
  BY OccurrencesArePlaces
<1>2. kept \in Seq(DOMAIN s)
  BY KeptArePlaces
<1>3. /\ Merged(s, p, id) = [k \in DOMAIN kept |-> IF kept[k] \in at THEN id ELSE s[kept[k]]]
      /\ Joined(o, s, p) = [k \in DOMAIN kept |->
                              IF kept[k] \in at THEN o[kept[k]] \o o[kept[k] + 1] ELSE o[kept[k]]]
  BY DEF Merged, Joined
<1> HIDE DEF at, kept
<1>4. Len(kept) \in Nat /\ DOMAIN kept = 1 .. Len(kept) /\ \A k \in DOMAIN kept : kept[k] \in DOMAIN s
  BY <1>2
<1>5. \A i \in DOMAIN s : s[i] \in Int
  OBVIOUS
<1>6. Merged(s, p, id) \in [1 .. Len(kept) -> Int]
  BY <1>3, <1>4, <1>5
<1>7. Merged(s, p, id) \in Seq(Int)
  BY <1>4, <1>6
<1>8. ASSUME NEW k \in DOMAIN Merged(s, p, id)
      PROVE  MergedAt(s, p, id, o, k)
  <2>1. k \in DOMAIN kept /\ kept[k] \in DOMAIN s
    BY <1>3, <1>4
  <2>2. CASE kept[k] \in at
    <3>1. Merged(s, p, id)[k] = id /\ Joined(o, s, p)[k] = o[kept[k]] \o o[kept[k] + 1]
      BY <1>3, <2>1, <2>2
    <3>2. QED
      BY <1>1, <2>2, <3>1 DEF MergedAt
  <2>3. CASE kept[k] \notin at
    <3>1. Merged(s, p, id)[k] = s[kept[k]] /\ Joined(o, s, p)[k] = o[kept[k]]
      BY <1>3, <2>1, <2>3
    <3>2. QED
      BY <2>1, <3>1 DEF MergedAt
  <2>4. QED
    BY <2>2, <2>3
<1>9. QED
  BY <1>7, <1>8

(* A pair that is counted is somewhere.                                    *)
LEMMA CountedIsThere ==
    ASSUME tokenized \in Seq(Seq(Int)), NEW p, \A w \in DOMAIN tokenized : Places(tokenized[w], p) = {}
    PROVE  Frequency(p) = 0
<1> DEFINE Turns(u) == [w \in 0 .. Len(tokenized) |->
                          IF w = 0 THEN 0 ELSE u[w - 1] + Cardinality(Places(tokenized[w], p))]
           upto == CHOOSE u : u = Turns(u)
           n == Len(tokenized)
<1>1. n \in Nat /\ DOMAIN tokenized = 1 .. n
  OBVIOUS
<1>2. \A w \in 1 .. n : Cardinality(Places(tokenized[w], p)) = 0
  BY <1>1, FS_EmptySet
<1>3. \E u : u = Turns(u)
  <2>1. [w \in 0 .. n |-> 0] = Turns([w \in 0 .. n |-> 0])
    BY <1>1, <1>2
  <2> HIDE DEF Turns
  <2>2. QED
    BY <2>1
<1>4. upto = Turns(upto)
  <2> HIDE DEF Turns
  <2>1. QED
    BY <1>3
<1>5. \A k \in 0 .. n : upto[k] = 0
  <2> DEFINE S == {k \in 0 .. n : upto[k] = 0}
  <2> HIDE DEF upto
  <2>1. 0 \in S
    BY <1>1, <1>4
  <2>2. ASSUME NEW k \in 1 .. n, k - 1 \in S PROVE k \in S
    <3>1. upto[k] = upto[k - 1] + Cardinality(Places(tokenized[k], p))
      <4>1. k \in 0 .. Len(tokenized) /\ k # 0
        BY <1>1
      <4>2. Turns(upto)[k] = upto[k - 1] + Cardinality(Places(tokenized[k], p))
        BY <4>1
      <4> HIDE DEF Turns
      <4>3. QED
        BY <1>4, <4>2
    <3>2. QED
      BY <1>1, <1>2, <2>2, <3>1
  <2> HIDE DEF S
  <2>3. \A k \in 0 .. n : k \in S
    BY <1>1, <2>1, <2>2, Upwards
  <2>4. QED
    BY <2>3 DEF S
<1>6. Frequency(p) = upto[n]
  BY DEF Frequency
<1>7. n \in 0 .. n
  BY <1>1
<1> HIDE DEF upto, n
<1>8. QED
  BY <1>5, <1>6, <1>7

(* decode() finds no text where each token has none.                       *)
LEMMA DecodedIsUnknown ==
    ASSUME NEW ts \in Seq(Int), \A i \in DOMAIN ts : Text(ts[i]) \in Seq({Unknown})
    PROVE  ToSet(Decode(ts)) \subseteq {Unknown}
<1> DEFINE Turns(u) == [i \in 0 .. Len(ts) |-> IF i = 0 THEN <<>> ELSE u[i - 1] \o Text(ts[i])]
           upto == CHOOSE u : u = Turns(u)
           V == Seq({Unknown})
           n == Len(ts)
<1>1. n \in Nat /\ DOMAIN ts = 1 .. n /\ <<>> \in V
  OBVIOUS
<1>2. \A v \in V, w \in V : v \o w \in V
  OBVIOUS
<1>3. \A i \in 1 .. n : Text(ts[i]) \in V
  BY <1>1
<1> HIDE DEF V
<1>4. \E u : u = Turns(u)
  <2> DEFINE turn == [x \in (1 .. n) \X V |-> x[2] \o Text(ts[x[1]])]
  <2>1. turn \in [(1 .. n) \X V -> V]
    BY <1>1, <1>2, <1>3
  <2> HIDE DEF n
  <2>2. PICK g : IsRun(g, n, V, <<>>, turn)
    <3> HIDE DEF turn
    <3>1. QED
      BY <1>1, <2>1, LoopRuns
  <2>3. g \in [0 .. n -> V] /\ g[0] = <<>>
    BY <2>2 DEF IsRun
  <2>4. ASSUME NEW i \in 1 .. n PROVE g[i] = g[i - 1] \o Text(ts[i])
    <3>1. g[i - 1] \in V
      BY <1>1, <2>3
    <3>2. g[i] = turn[<<i, g[i - 1]>>]
      BY <2>2 DEF IsRun
    <3>3. QED
      BY <3>1, <3>2
  <2>5. g = Turns(g)
    <3>1. g = [i \in 0 .. n |-> g[i]]
      BY <2>3
    <3>2. \A i \in 0 .. n : i = 0 \/ i \in 1 .. n
      BY <1>1
    <3>3. QED
      BY <2>3, <2>4, <3>1, <3>2 DEF n
  <2>6. QED
    BY <2>5
<1>5. upto = Turns(upto)
  <2> HIDE DEF Turns
  <2>1. QED
    BY <1>4
<1>6. \A k \in 0 .. n : upto[k] \in V
  <2> DEFINE S == {k \in 0 .. n : upto[k] \in V}
  <2> HIDE DEF upto
  <2>1. 0 \in S
    BY <1>1, <1>5
  <2>2. ASSUME NEW k \in 1 .. n, k - 1 \in S PROVE k \in S
    <3>1. upto[k] = upto[k - 1] \o Text(ts[k])
      BY <1>1, <1>5
    <3>2. upto[k - 1] \in V /\ Text(ts[k]) \in V
      BY <1>3, <2>2
    <3>3. upto[k] \in V
      BY <1>2, <3>1, <3>2, Zenon
    <3>4. QED
      BY <1>1, <3>3
  <2> HIDE DEF S
  <2>3. \A k \in 0 .. n : k \in S
    BY <1>1, <2>1, <2>2, Upwards
  <2>4. QED
    BY <2>3 DEF S
<1>7. Decode(ts) = upto[n]
  BY DEF Decode
<1>8. n \in 0 .. n
  BY <1>1
<1> HIDE DEF upto, n
<1>9. Decode(ts) \in V
  BY <1>6, <1>7, <1>8
<1>10. \A v \in Seq({Unknown}) : \A i \in DOMAIN v : v[i] = Unknown
  OBVIOUS
<1>11. QED
  BY <1>9, <1>10 DEF V, ToSet

-----------------------------------------------------------------------------
(* The ids of a vocabulary v have a bound.  It is free if no code of cs is *)
(* an id or the next one; then every id is a code, or it is less than the  *)
(* number of entries, so that the next one is new.                         *)
Bounded(v) == \E n \in Nat : DOMAIN v \subseteq -n .. n
Free(cs, v) == \A c \in cs : c \notin 0 .. Cardinality(DOMAIN v)
Dense(cs, v) == DOMAIN v \subseteq cs \cup 0 .. Cardinality(DOMAIN v) - 1
Exact(v, r) == \A e \in DOMAIN r : r[e] \in DOMAIN v /\ v[r[e]] = e
Good(cs, v, r) == /\ Bounded(v)
                  /\ Free(cs, v) => Dense(cs, v) /\ Exact(v, r)

LEMMA BoundedIsFinite ==
    ASSUME NEW v, Bounded(v)
    PROVE  IsFiniteSet(DOMAIN v) /\ Cardinality(DOMAIN v) \in Nat /\ DOMAIN v \subseteq Int
<1>1. PICK n \in Nat : DOMAIN v \subseteq -n .. n
  BY DEF Bounded
<1>2. IsFiniteSet(-n .. n)
  BY FS_Interval
<1>3. IsFiniteSet(DOMAIN v)
  BY <1>1, <1>2, FS_Subset
<1>4. QED
  BY <1>1, <1>3, FS_CardinalityType

(* A vocabulary that gets the next id for a token, and ids ps that mean    *)
(* nothing new, stays good.                                                *)
Grows(cs, v, r, v2, r2, token, ps) ==
    LET id == Cardinality(DOMAIN v)
    IN /\ \E m \in Nat : ps \subseteq -m .. m
       /\ Free(cs, v) => ps \subseteq cs \cup 0 .. id - 1
       /\ DOMAIN v2 = DOMAIN v \cup {id} \cup ps /\ v2[id] = token
       /\ \A x \in DOMAIN v \ {id} : v2[x] = v[x]
       /\ DOMAIN r2 = DOMAIN r \cup {token} /\ r2[token] = id
       /\ \A e \in DOMAIN r \ {token} : r2[e] = r[e]

LEMMA GrownIsGood ==
    ASSUME NEW cs, NEW v, NEW r, Good(cs, v, r), NEW v2, NEW r2, NEW token, NEW ps,
           Grows(cs, v, r, v2, r2, token, ps)
    PROVE  /\ Good(cs, v2, r2)
           /\ Free(cs, v2) => /\ Free(cs, v) /\ Cardinality(DOMAIN v) \notin DOMAIN v
                              /\ Cardinality(DOMAIN v) \notin cs
                              /\ Cardinality(DOMAIN v) < Cardinality(DOMAIN v2)
<1> DEFINE id == Cardinality(DOMAIN v)
<1>10. /\ Free(cs, v) => ps \subseteq cs \cup 0 .. id - 1
       /\ DOMAIN v2 = DOMAIN v \cup {id} \cup ps /\ v2[id] = token
       /\ \A x \in DOMAIN v \ {id} : v2[x] = v[x]
       /\ DOMAIN r2 = DOMAIN r \cup {token} /\ r2[token] = id
       /\ \A e \in DOMAIN r \ {token} : r2[e] = r[e]
  BY DEF Grows
<1>11. PICK m \in Nat : ps \subseteq -m .. m
  BY DEF Grows
<1>1. Bounded(v) /\ IsFiniteSet(DOMAIN v) /\ id \in Nat /\ DOMAIN v \subseteq Int
  BY BoundedIsFinite DEF Good
<1>2. Bounded(v2)
  <2>1. PICK n \in Nat : DOMAIN v \subseteq -n .. n
    BY <1>1 DEF Bounded
  <2>2. n + m + id \in Nat
    BY <1>1
  <2>3. ASSUME NEW x \in DOMAIN v2 PROVE x \in -(n + m + id) .. n + m + id
    <3>1. CASE x \in DOMAIN v
      <4>1. x \in -n .. n
        BY <2>1, <3>1
      <4>2. QED
        BY <1>1, <4>1
    <3>2. CASE x \in ps
      <4>1. x \in -m .. m
        BY <1>11, <3>2
      <4>2. QED
        BY <1>1, <4>1
    <3>3. CASE x = id
      BY <1>1, <3>3
    <3>4. QED
      BY <1>10, <3>1, <3>2, <3>3
  <2>4. QED
    BY <2>2, <2>3 DEF Bounded
<1>3. IsFiniteSet(DOMAIN v2) /\ Cardinality(DOMAIN v2) \in Nat
  BY <1>2, BoundedIsFinite
<1>4. Cardinality(DOMAIN v) <= Cardinality(DOMAIN v2)
  <2>1. DOMAIN v \subseteq DOMAIN v2
    BY <1>10
  <2>2. QED
    BY <1>3, <2>1, FS_Subset
<1>5. ASSUME Free(cs, v2) PROVE Free(cs, v)
  <2>1. PICK a \in Nat, b \in Nat : a = Cardinality(DOMAIN v) /\ b = Cardinality(DOMAIN v2)
    BY <1>1, <1>3
  <2>2. 0 .. a \subseteq 0 .. b
    BY <1>4, <2>1
  <2>3. QED
    BY <1>5, <2>1, <2>2 DEF Free
<1>6. ASSUME Free(cs, v2)
      PROVE  /\ Free(cs, v) /\ Dense(cs, v) /\ Exact(v, r)
             /\ id \notin DOMAIN v /\ id \notin cs /\ id < Cardinality(DOMAIN v2)
  <2>1. Free(cs, v) /\ Dense(cs, v) /\ Exact(v, r)
    BY <1>5, <1>6 DEF Good
  <2>2. id \notin cs
    <3>1. id \in 0 .. id
      BY <1>1
    <3>2. QED
      BY <2>1, <3>1 DEF Free
  <2>3. id \notin DOMAIN v
    <3>1. id \notin 0 .. id - 1
      BY <1>1
    <3>2. QED
      BY <2>1, <2>2, <3>1 DEF Dense
  <2>4. Cardinality(DOMAIN v \cup {id}) = id + 1
    BY <1>1, <2>3, FS_AddElement
  <2>5. DOMAIN v \cup {id} \subseteq DOMAIN v2
    BY <1>10
  <2>6. Cardinality(DOMAIN v \cup {id}) <= Cardinality(DOMAIN v2)
    BY <1>3, <2>5, FS_Subset
  <2>7. id < Cardinality(DOMAIN v2)
    BY <1>1, <1>3, <2>4, <2>6
  <2>8. QED
    BY <2>1, <2>2, <2>3, <2>7
<1>7. ASSUME Free(cs, v2) PROVE Dense(cs, v2)
  <2>1. PICK b \in Nat : b = Cardinality(DOMAIN v2)
    BY <1>3
  <2>2. id < b
    BY <1>6, <1>7, <2>1
  <2>3. 0 .. id - 1 \subseteq 0 .. b - 1 /\ id \in 0 .. b - 1
    BY <1>1, <2>2
  <2>4. DOMAIN v \subseteq cs \cup 0 .. id - 1 /\ ps \subseteq cs \cup 0 .. id - 1
    BY <1>6, <1>7, <1>10 DEF Dense
  <2>5. QED
    BY <1>10, <2>1, <2>3, <2>4 DEF Dense
<1>8. ASSUME Free(cs, v2) PROVE Exact(v2, r2)
  <2>1. Exact(v, r) /\ id \notin DOMAIN v
    BY <1>6, <1>8
  <2>2. ASSUME NEW e \in DOMAIN r2 PROVE r2[e] \in DOMAIN v2 /\ v2[r2[e]] = e
    <3>1. CASE e = token
      BY <1>10, <3>1
    <3>2. CASE e # token
      <4>1. e \in DOMAIN r /\ r2[e] = r[e]
        BY <1>10, <3>2
      <4>2. r[e] \in DOMAIN v /\ v[r[e]] = e
        BY <2>1, <4>1 DEF Exact
      <4>3. QED
        BY <1>10, <2>1, <4>1, <4>2
    <3>3. QED
      BY <3>1, <3>2
  <2>3. QED
    BY <2>2 DEF Exact
<1>9. QED
  BY <1>2, <1>6, <1>7, <1>8 DEF Good

(* So does one that gets a special token.                                  *)
LEMMA AddedIsGood ==
    ASSUME NEW cs, NEW v, Good(cs, v.vocab, v.reverse), NEW token
    PROVE  Good(cs, Added(v, token).vocab, Added(v, token).reverse)
<1>1. PICK id : id = Cardinality(DOMAIN v.vocab)
  OBVIOUS
<1>2. PICK v2 : v2 = Put(v.vocab, id, token)
  OBVIOUS
<1>3. PICK r2 : r2 = Put(v.reverse, token, id)
  OBVIOUS
<1>4. Added(v, token).vocab = v2 /\ Added(v, token).reverse = r2
  BY <1>1, <1>2, <1>3 DEF Added
<1>5. /\ DOMAIN v2 = DOMAIN v.vocab \cup {id} \cup {} /\ v2[id] = token
      /\ \A x \in DOMAIN v.vocab \ {id} : v2[x] = v.vocab[x]
  BY <1>2 DEF Put
<1>6. /\ DOMAIN r2 = DOMAIN v.reverse \cup {token} /\ r2[token] = id
      /\ \A e \in DOMAIN v.reverse \ {token} : r2[e] = v.reverse[e]
  BY <1>3 DEF Put
<1>7. Grows(cs, v.vocab, v.reverse, v2, r2, token, {})
  <2>1. {} \subseteq -0 .. 0 /\ 0 \in Nat
    OBVIOUS
  <2>2. QED
    BY <1>1, <1>5, <1>6, <2>1 DEF Grows
<1>8. Good(cs, v2, r2)
  BY <1>7, GrownIsGood, Zenon
<1>9. QED
  BY <1>4, <1>8

(* The tokens of the words are codes and ids of merged pairs.  One that is *)
(* found in the vocabulary is found under an empty string.                 *)
WordsFit ==
    /\ \A w \in DOMAIN tokenized : \A i \in DOMAIN tokenized[w] :
         /\ tokenized[w][i] \in codes \cup 0 .. Cardinality(Entries) - 1
         /\ tokenized[w][i] \in Entries => vocab_[tokenized[w][i]] = <<>>
    /\ \A v, w \in DOMAIN tokenized : \A i \in DOMAIN tokenized[v], j \in DOMAIN tokenized[w] :
         tokenized[v][i] = tokenized[w][j] => origin[v][i] = origin[w][j]

TokenizerInv ==
    /\ tokenized \in Seq(Seq(Int))
    /\ limit = 0 => tokenized = <<>>
    /\ Good(codes, vocab_, reverse_vocab_)
    /\ saved # NoFile => Bounded(saved) /\ (Free(codes, saved) => Dense(codes, saved))
    /\ Free(codes, vocab_) => WordsFit

LEMMA NoWordsFit ==
    ASSUME tokenized = <<>>
    PROVE  tokenized \in Seq(Seq(Int)) /\ WordsFit
<1>1. DOMAIN tokenized = {} /\ tokenized \in Seq(Seq(Int))
  OBVIOUS
<1>2. QED
  BY <1>1 DEF WordsFit

(* An empty vocabulary.                                                    *)
LEMMA NothingIsGood ==
    ASSUME NEW cs
    PROVE  Good(cs, <<>>, <<>>)
<1>1. DOMAIN <<>> = {}
  OBVIOUS
<1>2. Bounded(<<>>)
  <2>1. {} \subseteq -0 .. 0 /\ 0 \in Nat
    OBVIOUS
  <2> DEFINE e == <<>>
  <2>2. DOMAIN e = {}
    BY <1>1
  <2> HIDE DEF e
  <2>3. Bounded(e)
    BY <2>1, <2>2 DEF Bounded
  <2>4. QED
    BY <2>3 DEF e
<1>3. Dense(cs, <<>>) /\ Exact(<<>>, <<>>)
  BY <1>1 DEF Dense, Exact
<1>4. QED
  BY <1>2, <1>3 DEF Good

LEMMA TokenizerInvInit ==
    TokenizerInit => TokenizerInv
<1> SUFFICES ASSUME TokenizerInit PROVE TokenizerInv
  OBVIOUS
<1>1. tokenized = <<>> /\ vocab_ = <<>> /\ reverse_vocab_ = <<>> /\ saved = NoFile
  BY DEF TokenizerInit
<1>2. Good(codes, vocab_, reverse_vocab_)
  BY <1>1, NothingIsGood
<1>3. tokenized \in Seq(Seq(Int)) /\ WordsFit
  BY <1>1, NoWordsFit
<1>4. QED
  BY <1>1, <1>2, <1>3 DEF TokenizerInv

(* More codes leave fewer vocabularies free.                               *)
LEMMA FewerAreFree ==
    ASSUME NEW cs, NEW ds, cs \subseteq ds, NEW v, Free(cs, v) => Dense(cs, v)
    PROVE  Free(ds, v) => Dense(ds, v)
BY DEF Free, Dense

LEMMA TrainKeeps ==
    ASSUME TokenizerInv, NEW texts \in Corpora, NEW n \in Limits, Train(texts, n)
    PROVE  TokenizerInv'
<1> DEFINE S == CodesOf(texts)
<1>1. texts \in Seq(Seq(Chars) \ {<<>>}) /\ n # 0
  BY TokenizerAssumption
<1>2. \A w \in DOMAIN texts : texts[w] \in Seq(Chars)
  BY <1>1
<1>3. \A w \in DOMAIN texts : \A i \in DOMAIN texts[w] : texts[w][i] \in Chars /\ texts[w][i] \in S
  <2>1. ASSUME NEW w \in DOMAIN texts, NEW i \in DOMAIN texts[w]
        PROVE  texts[w][i] \in Chars /\ texts[w][i] \in S
    <3>1. texts[w][i] \in ToSet(texts[w])
      BY DEF ToSet
    <3>2. texts[w] \in Seq(Chars)
      BY <1>2
    <3>3. QED
      BY <3>1, <3>2 DEF CodesOf
  <2>2. QED
    BY <2>1
<1>4. IsFiniteSet(S) /\ Cardinality(S) \in Nat
  <2>1. S \subseteq Chars
    BY <1>2 DEF CodesOf, ToSet
  <2>2. IsFiniteSet(Chars)
    <3>1. -128 \in Int /\ 127 \in Int
      OBVIOUS
    <3>2. QED
      BY <3>1, FS_Interval DEF Chars
  <2>3. QED
    BY <2>1, <2>2, FS_Subset, FS_CardinalityType
<1>5. PICK order \in SetToSeqs(S) :
        /\ vocab_' = [id \in 0 .. Len(order) - 1 |-> <<Basic(order[id + 1])>>]
        /\ reverse_vocab_' = [e \in {<<Basic(c)>> : c \in ToSet(order)} |->
                                CHOOSE id \in 0 .. Len(order) - 1 : <<Basic(order[id + 1])>> = e]
  BY DEF Train, BuildVocab
<1>6. PICK m \in Nat : m = Len(order) /\ DOMAIN order = 1 .. m
  <2>1. order \in [1 .. Cardinality(S) -> S]
    BY DEF SetToSeqs
  <2>2. order \in Seq(S)
    BY <1>4, <2>1
  <2>3. QED
    BY <2>2
<1> HIDE DEF S
<1>7. DOMAIN vocab_' = 0 .. m - 1
  BY <1>5, <1>6
<1>8. Cardinality(DOMAIN vocab_') = m
  <2>1. 0 \in Int /\ m - 1 \in Int
    BY <1>6
  <2>2. Cardinality(0 .. m - 1) = IF 0 > m - 1 THEN 0 ELSE (m - 1) - 0 + 1
    BY <2>1, FS_Interval
  <2>3. QED
    BY <1>7, <2>2
<1>9. Bounded(vocab_')
  <2>1. 0 .. m - 1 \subseteq -m .. m
    OBVIOUS
  <2>2. QED
    BY <1>7, <2>1 DEF Bounded
<1>10. Dense(codes', vocab_')
  BY <1>7, <1>8 DEF Dense
<1>11. Exact(vocab_', reverse_vocab_')
  <2>1. ASSUME NEW e \in DOMAIN reverse_vocab_'
        PROVE  reverse_vocab_'[e] \in DOMAIN vocab_' /\ vocab_'[reverse_vocab_'[e]] = e
    <3>1. PICK c \in ToSet(order) : e = <<Basic(c)>>
      BY <1>5
    <3>2. PICK k \in 1 .. m : order[k] = c
      BY <1>6 DEF ToSet
    <3>3. k - 1 \in 0 .. m - 1 /\ (k - 1) + 1 = k
      OBVIOUS
    <3>4. <<Basic(order[(k - 1) + 1])>> = e
      BY <3>1, <3>2, <3>3
    <3> DEFINE P(id) == <<Basic(order[id + 1])>> = e
               it == CHOOSE id \in 0 .. m - 1 : P(id)
    <3>5. \E id \in 0 .. m - 1 : P(id)
      BY <3>3, <3>4
    <3>6. reverse_vocab_'[e] = it
      BY <1>5, <1>6
    <3>7. it \in 0 .. m - 1 /\ P(it)
      <4> HIDE DEF P
      <4>1. QED
        BY <3>5
    <3> HIDE DEF it
    <3>8. vocab_'[it] = <<Basic(order[it + 1])>>
      BY <1>5, <1>6, <3>7
    <3>9. QED
      BY <1>7, <3>6, <3>7, <3>8
  <2>2. QED
    BY <2>1 DEF Exact
<1>12. /\ tokenized' = texts /\ limit' = n /\ codes' = codes \cup S /\ saved' = saved
       /\ origin' = [w \in DOMAIN texts |-> [i \in DOMAIN texts[w] |-> <<texts[w][i]>>]]
  BY DEF Train, S
<1>13. tokenized' \in Seq(Seq(Int))
  <2>1. Chars \subseteq Int
    BY DEF Chars
  <2>2. ASSUME NEW w \in DOMAIN texts PROVE texts[w] \in Seq(Int)
    <3>1. texts[w] \in Seq(Chars)
      BY <1>2
    <3>2. Len(texts[w]) \in Nat /\ texts[w] \in [1 .. Len(texts[w]) -> Chars]
      BY <3>1
    <3>3. texts[w] \in [1 .. Len(texts[w]) -> Int]
      BY <2>1, <3>2
    <3>4. QED
      BY <3>2, <3>3
  <2>3. Len(texts) \in Nat /\ texts \in [1 .. Len(texts) -> Seq(Int)]
    BY <1>1, <2>2
  <2>4. QED
    BY <1>12, <2>3
<1>14. Free(codes', vocab_') => WordsFit'
  <2> SUFFICES ASSUME Free(codes', vocab_') PROVE WordsFit'
    OBVIOUS
  <2>1. ASSUME NEW w \in DOMAIN texts, NEW i \in DOMAIN texts[w]
        PROVE  texts[w][i] \in codes' /\ texts[w][i] \notin DOMAIN vocab_'
    <3>1. texts[w][i] \in codes'
      BY <1>3, <1>12
    <3>2. texts[w][i] \notin 0 .. m
      BY <1>8, <3>1 DEF Free
    <3>3. 0 .. m - 1 \subseteq 0 .. m
      OBVIOUS
    <3>4. QED
      BY <1>7, <3>1, <3>2, <3>3
  <2>2. \A w \in DOMAIN texts : \A i \in DOMAIN texts[w] : origin'[w][i] = <<texts[w][i]>>
    BY <1>12
  <2>3. QED
    BY <1>12, <2>1, <2>2 DEF WordsFit, Entries
<1>15. saved' # NoFile => Bounded(saved') /\ (Free(codes', saved') => Dense(codes', saved'))
  <2>1. ASSUME saved # NoFile PROVE Bounded(saved) /\ (Free(codes', saved) => Dense(codes', saved))
    <3>1. Bounded(saved) /\ (Free(codes, saved) => Dense(codes, saved)) /\ codes \subseteq codes'
      BY <1>12, <2>1 DEF TokenizerInv
    <3>2. QED
      BY <3>1, FewerAreFree
  <2>2. QED
    BY <1>12, <2>1
<1>16. Good(codes', vocab_', reverse_vocab_')
  BY <1>9, <1>10, <1>11 DEF Good
<1>17. TokenizerInv'
  BY <1>1, <1>12, <1>13, <1>14, <1>15, <1>16 DEF TokenizerInv, NoFile
<1>18. QED
  BY <1>17

(* A call that leaves the words and the codes, and makes a good vocabulary.*)
LEMMA CallKeeps ==
    ASSUME TokenizerInv, limit = 0,
           UNCHANGED <<tokenized, origin, limit, codes, saved>>,
           Good(codes, vocab_', reverse_vocab_')
    PROVE  TokenizerInv'
<1>1. tokenized = <<>> /\ (saved # NoFile => Bounded(saved) /\ (Free(codes, saved) => Dense(codes, saved)))
  BY DEF TokenizerInv
<1>2. tokenized' = <<>>
  BY <1>1
<1>3. DOMAIN tokenized' = {} /\ tokenized' \in Seq(Seq(Int))
  BY <1>2
<1>4. WordsFit'
  BY <1>3 DEF WordsFit
<1>5. Good(codes', vocab_', reverse_vocab_')
  OBVIOUS
<1>6. saved' # NoFile => Bounded(saved') /\ (Free(codes', saved') => Dense(codes', saved'))
  BY <1>1
<1>7. QED
  BY <1>2, <1>3, <1>4, <1>5, <1>6 DEF TokenizerInv, NoFile

LEMMA AddSpecialTokenKeeps ==
    ASSUME TokenizerInv, NEW token, AddSpecialToken(token)
    PROVE  TokenizerInv'
<1>1. Good(codes, Vocabulary.vocab, Vocabulary.reverse)
  BY DEF TokenizerInv, Vocabulary
<1>2. PICK v : v = Added(Vocabulary, token)
  OBVIOUS
<1>3. Good(codes, v.vocab, v.reverse)
  BY <1>1, <1>2, AddedIsGood
<1>4. /\ limit = 0 /\ UNCHANGED <<tokenized, origin, limit, codes, saved>>
      /\ vocab_' = v.vocab /\ reverse_vocab_' = v.reverse
  BY <1>2 DEF AddSpecialToken, Becomes, Called
<1>5. QED
  BY <1>3, <1>4, CallKeeps

LEMMA SetSpecialTokensKeeps ==
    ASSUME TokenizerInv, NEW tokens, SetSpecialTokens(tokens)
    PROVE  TokenizerInv'
<1>1. Good(codes, Vocabulary.vocab, Vocabulary.reverse)
  BY DEF TokenizerInv, Vocabulary
<1>2. PICK v1 : v1 = Added(Vocabulary, tokens[1])
  OBVIOUS
<1>3. PICK v2 : v2 = Added(v1, tokens[2])
  OBVIOUS
<1>4. PICK v3 : v3 = Added(v2, tokens[3])
  OBVIOUS
<1>5. PICK v4 : v4 = Added(v3, tokens[4])
  OBVIOUS
<1>6. Good(codes, v1.vocab, v1.reverse)
  BY <1>1, <1>2, AddedIsGood
<1>7. Good(codes, v2.vocab, v2.reverse)
  BY <1>3, <1>6, AddedIsGood
<1>8. Good(codes, v3.vocab, v3.reverse)
  BY <1>4, <1>7, AddedIsGood
<1>9. Good(codes, v4.vocab, v4.reverse)
  BY <1>5, <1>8, AddedIsGood
<1>10. /\ limit = 0 /\ UNCHANGED <<tokenized, origin, limit, codes, saved>>
       /\ vocab_' = v4.vocab /\ reverse_vocab_' = v4.reverse
  BY <1>2, <1>3, <1>4, <1>5 DEF SetSpecialTokens, Becomes, Called
<1>11. QED
  BY <1>9, <1>10, CallKeeps

LEMMA SaveKeeps ==
    ASSUME TokenizerInv, Save
    PROVE  TokenizerInv'
<1>1. /\ saved' = vocab_ /\ tokenized = <<>>
      /\ UNCHANGED <<vocab_, reverse_vocab_, tokenized, origin, limit, codes>>
  BY DEF Save, Called, TokenizerInv
<1>2. Good(codes, vocab_, reverse_vocab_) /\ tokenized \in Seq(Seq(Int))
  BY DEF TokenizerInv
<1>3. DOMAIN tokenized' = {}
  BY <1>1
<1>4. WordsFit'
  BY <1>3 DEF WordsFit
<1>5. Bounded(vocab_) /\ (Free(codes, vocab_) => Dense(codes, vocab_))
  BY <1>2 DEF Good
<1>6. QED
  BY <1>1, <1>2, <1>4, <1>5 DEF TokenizerInv

LEMMA LoadKeeps ==
    ASSUME TokenizerInv, Load
    PROVE  TokenizerInv'
<1>1. /\ saved # NoFile /\ limit = 0 /\ vocab_' = saved
      /\ UNCHANGED <<tokenized, origin, limit, codes, saved>>
  BY DEF Load, Called
<1> DEFINE ids(e) == {id \in DOMAIN saved : saved[id] = e}
<1>2. PICK upwards \in BOOLEAN :
        reverse_vocab_' = [e \in Range(saved) |-> IF upwards THEN Max(ids(e)) ELSE Min(ids(e))]
  BY DEF Load
<1>3. Bounded(saved) /\ (Free(codes, saved) => Dense(codes, saved))
  BY <1>1 DEF TokenizerInv
<1>4. PICK n \in Nat : DOMAIN saved \subseteq -n .. n
  BY <1>3 DEF Bounded
<1>5. ASSUME NEW e \in Range(saved)
      PROVE  reverse_vocab_'[e] \in DOMAIN saved /\ saved[reverse_vocab_'[e]] = e
  <2>1. PICK x \in DOMAIN saved : saved[x] = e
    BY DEF Range
  <2>2. ids(e) \in SUBSET Int /\ ids(e) # {} /\ \A i \in ids(e) : -n <= i /\ i <= n
    BY <1>4, <2>1
  <2>3. -n \in Int /\ n \in Int
    OBVIOUS
  <2> HIDE DEF ids
  <2>4. Max(ids(e)) \in ids(e)
    BY <2>2, <2>3, MaxIsThere
  <2>5. Min(ids(e)) \in ids(e)
    BY <2>2, <2>3, MinIsThere
  <2>6. reverse_vocab_'[e] \in ids(e)
    BY <1>2, <2>4, <2>5
  <2>7. QED
    BY <2>6 DEF ids
<1>6. DOMAIN reverse_vocab_' = Range(saved)
  BY <1>2
<1>7. Good(codes, vocab_', reverse_vocab_')
  <2>1. Exact(saved, reverse_vocab_')
    BY <1>5, <1>6 DEF Exact
  <2>2. QED
    BY <1>1, <1>3, <2>1 DEF Good
<1>8. QED
  BY <1>1, <1>7, CallKeeps

LEMMA TrainReturnKeeps ==
    ASSUME TokenizerInv, TrainReturn
    PROVE  TokenizerInv'
<1>1. tokenized' = <<>> /\ UNCHANGED <<vocab_, reverse_vocab_, codes, saved>>
  BY DEF TrainReturn
<1>2. /\ Good(codes, vocab_, reverse_vocab_)
      /\ saved # NoFile => Bounded(saved) /\ (Free(codes, saved) => Dense(codes, saved))
  BY DEF TokenizerInv
<1>3. DOMAIN tokenized' = {} /\ tokenized' \in Seq(Seq(Int))
  BY <1>1
<1>4. WordsFit'
  BY <1>3 DEF WordsFit
<1>5. QED
  BY <1>1, <1>2, <1>3, <1>4 DEF TokenizerInv

(* A round of train(): the pair that is merged is one of the words, the id *)
(* it gets is no token, and stands for the same wherever the pair was.     *)
LEMMA RoundKeeps ==
    ASSUME TokenizerInv, Round
    PROVE  TokenizerInv'
<1>1. /\ tokenized \in Seq(Seq(Int)) /\ (limit = 0 => tokenized = <<>>)
      /\ Good(codes, vocab_, reverse_vocab_)
      /\ saved # NoFile => Bounded(saved) /\ (Free(codes, saved) => Dense(codes, saved))
      /\ Free(codes, vocab_) => WordsFit
  BY DEF TokenizerInv
<1>2. PICK id : id = Cardinality(Entries)
  OBVIOUS
<1>3. id \in Nat /\ DOMAIN vocab_ \subseteq Int
  BY <1>1, <1>2, BoundedIsFinite DEF Good, Entries
<1>4. PICK p, best : /\ best > 0 /\ Frequency(p) = best
                     /\ AddMerged(p, id)
                     /\ tokenized' = [w \in DOMAIN tokenized |-> Merged(tokenized[w], p, id)]
                     /\ origin' = [w \in DOMAIN tokenized |-> Joined(origin[w], tokenized[w], p)]
  BY <1>2, Zenon DEF Round
<1>5. UNCHANGED <<limit, codes, saved>>
  BY DEF Round
<1>6. Frequency(p) # 0
  BY <1>4
<1>7. PICK w0 \in DOMAIN tokenized : Places(tokenized[w0], p) # {}
  BY <1>1, <1>6, CountedIsThere
<1>8. PICK i0 \in 1 .. Len(tokenized[w0]) - 1 : Pair(tokenized[w0], i0) = p
  BY <1>7 DEF Places
<1>9. \A w \in DOMAIN tokenized : tokenized[w] \in Seq(Int)
  BY <1>1
<1>10. \A s \in Seq(Int) : \A i \in 1 .. Len(s) - 1 : i \in DOMAIN s /\ i + 1 \in DOMAIN s
  OBVIOUS
<1>11. \A w \in DOMAIN tokenized : \A i \in Places(tokenized[w], p) :
         /\ i \in DOMAIN tokenized[w] /\ i + 1 \in DOMAIN tokenized[w]
         /\ p = <<tokenized[w][i], tokenized[w][i + 1]>>
  BY <1>9, <1>10 DEF Places, Pair
<1>12. /\ i0 \in DOMAIN tokenized[w0] /\ i0 + 1 \in DOMAIN tokenized[w0]
       /\ p[1] = tokenized[w0][i0] /\ p[2] = tokenized[w0][i0 + 1]
  BY <1>8, <1>9, <1>10 DEF Pair
<1>13. p[1] \in Int /\ p[2] \in Int
  BY <1>9, <1>12
<1>14. PICK token : token = Entry(p[1]) \o Entry(p[2])
  OBVIOUS
<1>15. vocab_' = Put(Known(p), id, token) /\ reverse_vocab_' = Put(reverse_vocab_, token, id)
  BY <1>4, <1>14 DEF AddMerged
<1>16. Grows(codes, vocab_, reverse_vocab_, vocab_', reverse_vocab_', token, {p[1], p[2]})
  <2>1. \E m \in Nat : {p[1], p[2]} \subseteq -m .. m
    <3>1. \A x \in Int : \E k \in Nat : -k <= x /\ x <= k
      <4>1. ASSUME NEW x \in Int PROVE \E k \in Nat : -k <= x /\ x <= k
        <5>1. CASE x >= 0
          <6>1. x \in Nat /\ -x <= x /\ x <= x
            BY <5>1
          <6>2. QED
            BY <6>1
        <5>2. CASE x < 0
          <6>1. -x \in Nat /\ -(-x) <= x /\ x <= -x
            BY <5>2
          <6>2. QED
            BY <6>1
        <5>3. QED
          BY <5>1, <5>2
      <4>2. QED
        BY <4>1
    <3>2. PICK a \in Nat : -a <= p[1] /\ p[1] <= a
      BY <1>13, <3>1
    <3>3. PICK b \in Nat : -b <= p[2] /\ p[2] <= b
      BY <1>13, <3>1
    <3>4. a + b \in Nat /\ p[1] \in -(a + b) .. a + b /\ p[2] \in -(a + b) .. a + b
      BY <1>13, <3>2, <3>3
    <3>5. QED
      BY <3>4
  <2>2. Free(codes, vocab_) => {p[1], p[2]} \subseteq codes \cup 0 .. id - 1
    BY <1>1, <1>2, <1>12 DEF WordsFit
  <2>3. DOMAIN vocab_' = DOMAIN vocab_ \cup {id} \cup {p[1], p[2]} /\ vocab_'[id] = token
    BY <1>15 DEF Put, Known, Entries
  <2>4. \A x \in DOMAIN vocab_ \ {id} : vocab_'[x] = vocab_[x]
    BY <1>15 DEF Put, Known, Entry, Entries
  <2>5. /\ DOMAIN reverse_vocab_' = DOMAIN reverse_vocab_ \cup {token} /\ reverse_vocab_'[token] = id
        /\ \A e \in DOMAIN reverse_vocab_ \ {token} : reverse_vocab_'[e] = reverse_vocab_[e]
    BY <1>15 DEF Put
  <2>6. id = Cardinality(DOMAIN vocab_)
    BY <1>2 DEF Entries
  <2>7. QED
    BY <2>1, <2>2, <2>3, <2>4, <2>5, <2>6 DEF Grows
<1>17. /\ Good(codes, vocab_', reverse_vocab_')
       /\ Free(codes, vocab_') => /\ Free(codes, vocab_) /\ id \notin DOMAIN vocab_ /\ id \notin codes
                                  /\ id < Cardinality(DOMAIN vocab_')
  <2>1. id = Cardinality(DOMAIN vocab_)
    BY <1>2 DEF Entries
  <2>2. QED
    BY <1>1, <1>16, <2>1, GrownIsGood
<1>18. \A w \in DOMAIN tokenized :
         /\ tokenized'[w] = Merged(tokenized[w], p, id) /\ origin'[w] = Joined(origin[w], tokenized[w], p)
         /\ Merged(tokenized[w], p, id) \in Seq(Int)
  <2>1. ASSUME NEW w \in DOMAIN tokenized PROVE Merged(tokenized[w], p, id) \in Seq(Int)
    <3>1. tokenized[w] \in Seq(Int) /\ id \in Int
      BY <1>3, <1>9
    <3>2. QED
      BY <3>1, MergedIs, Zenon
  <2>2. QED
    BY <1>4, <2>1
<1>19. /\ DOMAIN tokenized' = DOMAIN tokenized /\ tokenized' \in Seq(Seq(Int))
       /\ limit' = 0 => tokenized' = <<>>
  <2>1. Len(tokenized) \in Nat /\ DOMAIN tokenized = 1 .. Len(tokenized)
    BY <1>1
  <2>2. tokenized' \in [1 .. Len(tokenized) -> Seq(Int)]
    BY <1>4, <1>18, <2>1
  <2>3. DOMAIN tokenized # {}
    BY <1>7
  <2>4. limit # 0
    <3>1. DOMAIN <<>> = {}
      OBVIOUS
    <3>2. QED
      BY <1>1, <2>3, <3>1
  <2>5. QED
    BY <1>4, <1>5, <2>1, <2>2, <2>4
<1>20. ASSUME Free(codes, vocab_') PROVE WordsFit'
  <2>1. /\ Free(codes, vocab_) /\ WordsFit /\ id \notin DOMAIN vocab_ /\ id \notin codes
        /\ id < Cardinality(DOMAIN vocab_')
    BY <1>1, <1>17, <1>20
  <2>2. \A w \in DOMAIN tokenized : \A i \in DOMAIN tokenized[w] :
          /\ tokenized[w][i] \in codes \cup 0 .. id - 1
          /\ tokenized[w][i] \in DOMAIN vocab_ => vocab_[tokenized[w][i]] = <<>>
    BY <1>2, <2>1 DEF WordsFit, Entries
  <2>3. id \notin codes \cup 0 .. id - 1
    BY <1>3, <2>1
  <2>4. \A w \in DOMAIN tokenized : \A i \in DOMAIN tokenized[w] :
          tokenized[w][i] # id /\ Entry(tokenized[w][i]) = <<>>
    BY <2>2, <2>3 DEF Entry, Entries
  <2>5. Entry(p[1]) = <<>> /\ Entry(p[2]) = <<>>
    BY <1>12, <2>4
  <2>6. token = <<>>
    <3>1. <<>> \o <<>> = <<>>
      OBVIOUS
    <3>2. QED
      BY <1>14, <2>5, <3>1
  (* what all of the new ids stand for *)
  <2>7. PICK whole : whole = origin[w0][i0] \o origin[w0][i0 + 1]
    OBVIOUS
  <2>8. \A w \in DOMAIN tokenized : \A i \in Places(tokenized[w], p) :
          origin[w][i] \o origin[w][i + 1] = whole
    <3>1. ASSUME NEW w \in DOMAIN tokenized, NEW i \in Places(tokenized[w], p)
          PROVE  origin[w][i] \o origin[w][i + 1] = whole
      <4>1. /\ i \in DOMAIN tokenized[w] /\ i + 1 \in DOMAIN tokenized[w]
            /\ p = <<tokenized[w][i], tokenized[w][i + 1]>>
        BY <1>11
      <4>2. tokenized[w][i] = tokenized[w0][i0] /\ tokenized[w][i + 1] = tokenized[w0][i0 + 1]
        BY <1>12, <4>1
      <4>3. origin[w][i] = origin[w0][i0] /\ origin[w][i + 1] = origin[w0][i0 + 1]
        BY <1>12, <2>1, <4>1, <4>2 DEF WordsFit
      <4>4. QED
        BY <2>7, <4>3
    <3>2. QED
      BY <3>1
  <2>9. \A w \in DOMAIN tokenized : \A k \in DOMAIN tokenized'[w] :
          \/ tokenized'[w][k] = id /\ origin'[w][k] = whole
          \/ \E i \in DOMAIN tokenized[w] :
               tokenized'[w][k] = tokenized[w][i] /\ origin'[w][k] = origin[w][i]
    <3>1. ASSUME NEW w \in DOMAIN tokenized, NEW k \in DOMAIN tokenized'[w]
          PROVE  \/ tokenized'[w][k] = id /\ origin'[w][k] = whole
                 \/ \E i \in DOMAIN tokenized[w] :
                      tokenized'[w][k] = tokenized[w][i] /\ origin'[w][k] = origin[w][i]
      <4>1. PICK s \in Seq(Int), o \in {origin[w]} : s = tokenized[w] /\ o = origin[w]
        BY <1>9
      <4>2. tokenized'[w] = Merged(s, p, id) /\ origin'[w] = Joined(o, s, p)
        BY <1>18, <4>1
      <4>3. k \in DOMAIN Merged(s, p, id) /\ id \in Int
        BY <1>3, <4>2
      <4>4. MergedAt(s, p, id, o, k)
        BY <4>3, MergedIs, Zenon
      <4>5. \A i \in Places(s, p) : o[i] \o o[i + 1] = whole
        BY <2>8, <4>1
      <4>6. QED
        BY <4>1, <4>2, <4>4, <4>5 DEF MergedAt
    <3>2. QED
      BY <3>1
  <2>10. ASSUME NEW w \in DOMAIN tokenized, NEW k \in DOMAIN tokenized'[w]
         PROVE  /\ tokenized'[w][k] \in codes' \cup 0 .. Cardinality(Entries') - 1
                /\ tokenized'[w][k] \in Entries' => vocab_'[tokenized'[w][k]] = <<>>
    <3>1. PICK t : t = tokenized'[w][k]
      OBVIOUS
    <3>2. \/ t = id
          \/ t \in codes \cup 0 .. id - 1 /\ t # id /\ Entry(t) = <<>>
      BY <2>2, <2>4, <2>9, <3>1
    <3>3. PICK m \in Nat : m = Cardinality(Entries') /\ id < m
      <4>1. Cardinality(DOMAIN vocab_') \in Nat
        BY <1>17, BoundedIsFinite DEF Good
      <4>2. QED
        BY <2>1, <4>1 DEF Entries
    <3>4. id \in 0 .. m - 1 /\ 0 .. id - 1 \subseteq 0 .. m - 1
      BY <1>3, <3>3
    <3>5. t \in codes' \cup 0 .. m - 1
      BY <1>5, <3>2, <3>4
    <3>6. t \in DOMAIN vocab_' => vocab_'[t] = <<>>
      <4>1. CASE t = id
        BY <1>15, <2>6, <4>1 DEF Put
      <4>2. CASE t # id
        <5>1. Entry(t) = <<>>
          BY <3>2, <4>2
        <5>2. t \in DOMAIN vocab_' => vocab_'[t] = Entry(t)
          BY <1>15, <4>2 DEF Put, Known
        <5>3. QED
          BY <5>1, <5>2
      <4>3. QED
        BY <4>1, <4>2
    <3>7. QED
      BY <3>1, <3>3, <3>5, <3>6 DEF Entries
  <2>11. ASSUME NEW v \in DOMAIN tokenized, NEW w \in DOMAIN tokenized,
                NEW i \in DOMAIN tokenized'[v], NEW j \in DOMAIN tokenized'[w],
                tokenized'[v][i] = tokenized'[w][j]
         PROVE  origin'[v][i] = origin'[w][j]
    <3>1. CASE tokenized'[v][i] = id
      <4>1. origin'[v][i] = whole
        BY <2>4, <2>9, <3>1
      <4>2. origin'[w][j] = whole
        BY <2>4, <2>9, <2>11, <3>1
      <4>3. QED
        BY <4>1, <4>2
    <3>2. CASE tokenized'[v][i] # id
      <4>1. PICK a \in DOMAIN tokenized[v] : tokenized'[v][i] = tokenized[v][a] /\ origin'[v][i] = origin[v][a]
        BY <2>9, <3>2
      <4>2. PICK b \in DOMAIN tokenized[w] : tokenized'[w][j] = tokenized[w][b] /\ origin'[w][j] = origin[w][b]
        BY <2>9, <2>11, <3>2
      <4>3. origin[v][a] = origin[w][b]
        <5>1. tokenized[v][a] = tokenized[w][b]
          BY <2>11, <4>1, <4>2
        <5>2. WordsFit
          BY <2>1
        <5>3. QED
          BY <4>1, <4>2, <5>1, <5>2 DEF WordsFit
      <4>4. QED
        BY <4>1, <4>2, <4>3
    <3>3. QED
      BY <3>1, <3>2
  <2>12. QED
    BY <1>19, <2>10, <2>11 DEF WordsFit
<1>21. QED
  BY <1>1, <1>5, <1>17, <1>19, <1>20 DEF TokenizerInv, NoFile

LEMMA TokenizerInvKept ==
    ASSUME TokenizerInv, [TokenizerNext]_tokenizer
    PROVE  TokenizerInv'
<1>1. CASE \E texts \in Corpora, n \in Limits : Train(texts, n)
  BY <1>1, TrainKeeps
<1>2. CASE Round
  BY <1>2, RoundKeeps
<1>3. CASE TrainReturn
  BY <1>3, TrainReturnKeeps
<1>4. CASE \E tokens \in Specials : SetSpecialTokens(tokens) \/ AddSpecialToken(tokens[1])
  BY <1>4, SetSpecialTokensKeeps, AddSpecialTokenKeeps
<1>5. CASE Save
  BY <1>5, SaveKeeps
<1>6. CASE Load
  BY <1>6, LoadKeeps
<1>7. CASE UNCHANGED tokenizer
  <2>1. UNCHANGED <<vocab_, reverse_vocab_, tokenized, origin, limit, codes, saved>>
    BY <1>7 DEF tokenizer
  <2>2. WordsFit' <=> WordsFit
    BY <2>1 DEF WordsFit, Entries
  <2>3. QED
    BY <2>1, <2>2 DEF TokenizerInv, NoFile
<1>8. QED
  BY <1>1, <1>2, <1>3, <1>4, <1>5, <1>6, <1>7 DEF TokenizerNext

(* TOKENIZERS AGREE WITH THEIR VOCABULARY, for every set of texts: see     *)
(* VocabularyForeseen.  While no code is an id or the next one, the number *)
(* of entries is always a new id.                                          *)
THEOREM TokenizersVocabulary == TokenizerSpec => []VocabularyForeseen
<1>1. TokenizerInit => TokenizerInv
  BY TokenizerInvInit
<1>2. TokenizerInv /\ [TokenizerNext]_tokenizer => TokenizerInv'
  BY TokenizerInvKept
<1>3. TokenizerInv => VocabularyForeseen
  <2> SUFFICES ASSUME TokenizerInv, Apart PROVE VocabularyForeseen
    BY DEF VocabularyForeseen
  <2>1. Free(codes, vocab_)
    BY DEF Apart, Free, Entries
  <2>2. Exact(vocab_, reverse_vocab_) /\ WordsFit /\ tokenized \in Seq(Seq(Int))
    BY <2>1 DEF TokenizerInv, Good
  <2>3. ASSUME NEW w \in DOMAIN tokenized
        PROVE  ToSet(Decode(tokenized[w])) \subseteq {Unknown}
    <3>1. tokenized[w] \in Seq(Int)
      BY <2>2
    <3>2. <<>> \in Seq({Unknown}) /\ <<Unknown>> \in Seq({Unknown})
      OBVIOUS
    <3>3. \A i \in DOMAIN tokenized[w] : Text(tokenized[w][i]) \in Seq({Unknown})
      BY <2>2, <3>2 DEF WordsFit, Text
    <3>4. QED
      BY <3>1, <3>3, DecodedIsUnknown
  <2>4. QED
    BY <2>2, <2>3 DEF VocabularyForeseen, Exact, WordsFit
<1>4. QED
  BY <1>1, <1>2, <1>3, PTL DEF TokenizerSpec

-----------------------------------------------------------------------------
(* What bpe_merge() makes of a word.  The numbers merges_ has for pairs    *)
(* are frequencies, so that no replacement brings the code -1 in.          *)
RulesFit == \A q \in DOMAIN merges_ : merges_[q] \in Nat

LEMMA MergeableIs ==
    ASSUME RulesFit, NEW s \in Seq(Int), NEW i \in Mergeable(s)
    PROVE  /\ i \in 1 .. Len(s) - 1 /\ i \in DOMAIN s /\ i + 1 \in DOMAIN s
           /\ merges_[Pair(s, i)] \in Nat
BY DEF Mergeable, RulesFit

(* A sequence put together from two.                                       *)
LEMMA Glued ==
    ASSUME NEW a \in Seq(Int), NEW c \in Seq(Int)
    PROVE  /\ a \o c \in Seq(Int) /\ Len(a \o c) = Len(a) + Len(c)
           /\ \A k \in 1 .. Len(a) : (a \o c)[k] = a[k]
           /\ \A k \in 1 .. Len(c) : (a \o c)[Len(a) + k] = c[k]
<1>1. Len(a) \in Nat /\ Len(c) \in Nat
  OBVIOUS
<1>2. /\ a \o c \in Seq(Int) /\ Len(a \o c) = Len(a) + Len(c)
      /\ \A i \in 1 .. Len(a) + Len(c) : (a \o c)[i] = IF i <= Len(a) THEN a[i] ELSE c[i - Len(a)]
  BY ConcatProperties
<1>3. ASSUME NEW k \in 1 .. Len(a) PROVE (a \o c)[k] = a[k]
  BY <1>1, <1>2
<1>4. ASSUME NEW k \in 1 .. Len(c) PROVE (a \o c)[Len(a) + k] = c[k]
  <2>1. Len(a) + k \in 1 .. Len(a) + Len(c) /\ ~(Len(a) + k <= Len(a)) /\ (Len(a) + k) - Len(a) = k
    BY <1>1
  <2>2. QED
    BY <1>2, <2>1
<1>5. QED
  BY <1>2, <1>3, <1>4

(* The rest of a sequence.                                                 *)
LEMMA RestIs ==
    ASSUME NEW s \in Seq(Int), NEW i \in 1 .. Len(s) + 1
    PROVE  /\ SubSeq(s, i, Len(s)) \in Seq(Int) /\ Len(SubSeq(s, i, Len(s))) = Len(s) - i + 1
           /\ \A k \in 1 .. Len(s) - i + 1 : SubSeq(s, i, Len(s))[k] = s[i + k - 1]
<1>1. Len(s) \in Nat /\ i \in Int /\ \A j \in i .. Len(s) : s[j] \in Int
  OBVIOUS
<1>2. /\ SubSeq(s, i, Len(s)) \in Seq(Int)
      /\ Len(SubSeq(s, i, Len(s))) = IF i <= Len(s) THEN Len(s) - i + 1 ELSE 0
      /\ \A k \in 1 .. Len(s) - i + 1 : SubSeq(s, i, Len(s))[k] = s[i + k - 1]
  BY <1>1, SubSeqProperties
<1>3. QED
  BY <1>1, <1>2

(* A replacement makes a word one shorter, and brings no negative in.      *)
LEMMA ReplacedIs ==
    ASSUME RulesFit, NEW s \in Seq(Int), NEW i \in Mergeable(s)
    PROVE  /\ Replaced(s, i) \in Seq(Int)
           /\ Len(Replaced(s, i)) = Len(s) - 1 /\ Len(Replaced(s, i)) >= 1
           /\ -1 \in ToSet(Replaced(s, i)) => -1 \in ToSet(s)
<1> DEFINE a == SubSeq(s, 1, i - 1)
           x == merges_[Pair(s, i)]
           c == SubSeq(s, i + 2, Len(s))
<1>1. i \in 1 .. Len(s) - 1 /\ x \in Nat /\ Len(s) \in Nat
  BY MergeableIs
<1>2. PICK m \in Nat : m = Len(s) /\ i \in 1 .. m - 1
  BY <1>1
<1>3. a \in Seq(Int) /\ Len(a) = i - 1 /\ \A k \in 1 .. i - 1 : a[k] = s[k]
  BY <1>1, <1>2
<1>4. c \in Seq(Int) /\ Len(c) = m - i - 1 /\ \A k \in 1 .. m - i - 1 : c[k] = s[i + 1 + k]
  <2>1. i + 2 \in 1 .. m + 1 /\ m - (i + 2) + 1 = m - i - 1
    BY <1>2
  <2>2. c \in Seq(Int) /\ Len(c) = m - i - 1 /\ \A k \in 1 .. m - i - 1 : c[k] = s[(i + 2) + k - 1]
    BY <1>2, <2>1, RestIs
  <2>3. \A k \in 1 .. m - i - 1 : (i + 2) + k - 1 = i + 1 + k
    BY <1>2
  <2>4. QED
    BY <2>2, <2>3
<1>5. Replaced(s, i) = a \o <<x>> \o c
  BY DEF Replaced
<1> HIDE DEF a, c, x
<1>6. PICK b \in Seq(Int) : b = a \o <<x>>
  <2>1. <<x>> \in Seq(Int)
    BY <1>1
  <2>2. QED
    BY <1>3, <2>1, Glued
<1>7. Len(b) = i /\ b[i] = x /\ \A k \in 1 .. i - 1 : b[k] = s[k]
  <2>1. <<x>> \in Seq(Int) /\ Len(<<x>>) = 1 /\ <<x>>[1] = x /\ 1 \in 1 .. 1
    BY <1>1
  <2>2. Len(b) = (i - 1) + 1 /\ b[(i - 1) + 1] = x /\ \A k \in 1 .. i - 1 : b[k] = a[k]
    BY <1>3, <1>6, <2>1, Glued
  <2>3. (i - 1) + 1 = i
    BY <1>1
  <2>4. QED
    BY <1>3, <2>2, <2>3
<1>8. PICK r : r = b \o c
  OBVIOUS
<1>9. /\ r \in Seq(Int) /\ Len(r) = m - 1
      /\ \A k \in 1 .. i : r[k] = b[k]
      /\ \A k \in 1 .. m - i - 1 : r[i + k] = s[i + 1 + k]
  <2>1. /\ r \in Seq(Int) /\ Len(r) = i + (m - i - 1)
        /\ \A k \in 1 .. i : r[k] = b[k]
        /\ \A k \in 1 .. m - i - 1 : r[i + k] = c[k]
    <3>1. /\ r \in Seq(Int) /\ Len(r) = Len(b) + Len(c)
          /\ \A k \in 1 .. Len(b) : r[k] = b[k]
          /\ \A k \in 1 .. Len(c) : r[Len(b) + k] = c[k]
      BY <1>4, <1>8, Glued, Zenon
    <3>2. QED
      BY <1>4, <1>7, <3>1, Zenon
  <2>2. i + (m - i - 1) = m - 1
    BY <1>2
  <2>3. QED
    BY <1>4, <2>1, <2>2
<1>10. ASSUME NEW k \in 1 .. m - 1, r[k] = -1
       PROVE  -1 \in ToSet(s)
  <2>1. CASE k <= i
    <3>1. k # i
      BY <1>1, <1>7, <1>9, <1>10, <2>1
    <3>2. k \in 1 .. i - 1 /\ k \in 1 .. i
      BY <1>1, <2>1, <3>1
    <3>3. s[k] = -1
      BY <1>7, <1>9, <1>10, <3>2
    <3>4. k \in DOMAIN s
      BY <1>2, <1>10
    <3>5. QED
      BY <3>3, <3>4 DEF ToSet
  <2>2. CASE k > i
    <3>1. k - i \in 1 .. m - i - 1 /\ i + (k - i) = k
      BY <1>2, <2>2
    <3>2. s[i + 1 + (k - i)] = -1
      BY <1>9, <1>10, <3>1
    <3>3. i + 1 + (k - i) \in DOMAIN s
      BY <1>2, <3>1
    <3>4. QED
      BY <3>2, <3>3 DEF ToSet
  <2>3. QED
    BY <1>2, <2>1, <2>2
<1>11. DOMAIN r = 1 .. m - 1
  BY <1>9
<1>12. -1 \in ToSet(r) => -1 \in ToSet(s)
  BY <1>10, <1>11 DEF ToSet
<1>13. Replaced(s, i) = r
  BY <1>5, <1>6, <1>8
<1>14. m - 1 >= 1
  BY <1>1, <1>2
<1>15. QED
  BY <1>2, <1>9, <1>12, <1>13, <1>14

(* The rounds in which Rewritten() is made.                                *)
IsRewriting(u, s) ==
    /\ u[0] = {s} /\ u[Len(s)] = Rewritten(s)
    /\ \A n \in 0 .. Len(s) : u[n] \subseteq Seq(Int)
    /\ \A n \in 1 .. Len(s) :
         u[n] = u[n - 1] \cup UNION {{Replaced(t, i) : i \in Mergeable(t)} : t \in u[n - 1]}

LEMMA RewrittenInRounds ==
    ASSUME RulesFit, NEW s \in Seq(Int)
    PROVE  \E u : IsRewriting(u, s)
<1> DEFINE Next1(A) == A \cup UNION {{Replaced(t, i) : i \in Mergeable(t)} : t \in A}
           Turns(u) == [n \in 0 .. Len(s) |->
                          IF n = 0 THEN {s}
                          ELSE u[n - 1] \cup UNION {{Replaced(t, i) : i \in Mergeable(t)} : t \in u[n - 1]}]
           upto == CHOOSE u : u = Turns(u)
           V == SUBSET Seq(Int)
           m == Len(s)
<1>1. m \in Nat /\ {s} \in V
  OBVIOUS
<1>2. ASSUME NEW A \in V PROVE Next1(A) \in V
  <2>1. ASSUME NEW t \in A, NEW i \in Mergeable(t) PROVE Replaced(t, i) \in Seq(Int)
    BY ReplacedIs
  <2>2. QED
    BY <2>1
<1> HIDE DEF V
<1>3. \E u : u = Turns(u)
  <2> DEFINE turn == [x \in (1 .. m) \X V |-> Next1(x[2])]
  <2>1. turn \in [(1 .. m) \X V -> V]
    <3> HIDE DEF Next1
    <3>1. QED
      BY <1>2
  <2> HIDE DEF m
  <2>2. PICK g : IsRun(g, m, V, {s}, turn)
    <3> HIDE DEF turn
    <3>1. QED
      BY <1>1, <2>1, LoopRuns
  <2>3. g \in [0 .. m -> V] /\ g[0] = {s}
    BY <2>2 DEF IsRun
  <2>4. ASSUME NEW i \in 1 .. m PROVE g[i] = Next1(g[i - 1])
    <3>1. g[i - 1] \in V
      BY <1>1, <2>3
    <3>2. g[i] = turn[<<i, g[i - 1]>>]
      BY <2>2 DEF IsRun
    <3> HIDE DEF Next1
    <3>3. QED
      BY <3>1, <3>2
  <2>5. g = Turns(g)
    <3>1. g = [i \in 0 .. m |-> g[i]]
      BY <2>3
    <3>2. \A i \in 0 .. m : i = 0 \/ i \in 1 .. m
      BY <1>1
    <3>3. QED
      BY <2>3, <2>4, <3>1, <3>2 DEF m
  <2>6. QED
    BY <2>5
<1>4. upto = Turns(upto)
  <2> HIDE DEF Turns
  <2>1. QED
    BY <1>3
<1> HIDE DEF upto
<1>5. upto[0] = {s}
  BY <1>1, <1>4
<1>6. ASSUME NEW k \in 1 .. m PROVE upto[k] = Next1(upto[k - 1])
  <2>1. k \in 0 .. Len(s) /\ k # 0
    BY <1>1
  <2>2. Turns(upto)[k] = Next1(upto[k - 1])
    BY <2>1
  <2> HIDE DEF Turns, Next1
  <2>3. QED
    BY <1>4, <2>2
<1>7. \A k \in 0 .. m : upto[k] \in V
  <2> DEFINE S == {k \in 0 .. m : upto[k] \in V}
  <2>1. 0 \in S
    BY <1>1, <1>5
  <2>2. ASSUME NEW k \in 1 .. m, k - 1 \in S PROVE k \in S
    <3> HIDE DEF Next1
    <3>1. QED
      BY <1>1, <1>2, <1>6, <2>2
  <2> HIDE DEF S
  <2>3. \A k \in 0 .. m : k \in S
    BY <1>1, <2>1, <2>2, Upwards
  <2>4. QED
    BY <2>3 DEF S
<1>8. Rewritten(s) = upto[m]
  BY DEF Rewritten, upto
<1>9. IsRewriting(upto, s)
  BY <1>5, <1>6, <1>7, <1>8 DEF IsRewriting, V
<1>10. QED
  BY <1>9

(* Rewritten() is closed: the word is in it, and with a word what a        *)
(* replacement makes of that.                                              *)
Reached(s, x) == /\ x \in Rewritten(s) /\ x \in Seq(Int)
                 /\ 1 <= Len(x) /\ Len(x) <= Len(s)
                 /\ -1 \in ToSet(x) => -1 \in ToSet(s)

LEMMA RewrittenIsClosed ==
    ASSUME RulesFit, NEW s \in Seq(Int), s # <<>>
    PROVE  /\ Reached(s, s)
           /\ \A x : Reached(s, x) => \A i \in Mergeable(x) : Reached(s, Replaced(x, i))
<1>1. PICK u : IsRewriting(u, s)
  BY RewrittenInRounds
<1>2. PICK m \in Nat : m = Len(s) /\ m >= 1
  OBVIOUS
<1>3. /\ u[0] = {s} /\ u[m] = Rewritten(s)
      /\ \A n \in 0 .. m : u[n] \subseteq Seq(Int)
      /\ \A n \in 1 .. m : u[n] = u[n - 1] \cup UNION {{Replaced(t, i) : i \in Mergeable(t)} : t \in u[n - 1]}
  BY <1>1, <1>2 DEF IsRewriting
<1>4. \A n \in 1 .. m : /\ u[n - 1] \subseteq u[n]
                        /\ \A t \in u[n - 1] : \A i \in Mergeable(t) : Replaced(t, i) \in u[n]
  BY <1>3
(* a set of a round is in that of the last one *)
<1>5. \A n \in 0 .. m : u[n] \subseteq u[m]
  <2> DEFINE S == {k \in 0 .. m : u[m - k] \subseteq u[m]}
  <2>1. 0 \in S
    <3>1. m - 0 = m
      OBVIOUS
    <3>2. QED
      BY <3>1
  <2>2. ASSUME NEW k \in 1 .. m, k - 1 \in S PROVE k \in S
    <3>1. m - k + 1 \in 1 .. m /\ (m - k + 1) - 1 = m - k /\ m - (k - 1) = m - k + 1
      OBVIOUS
    <3>2. u[m - k] \subseteq u[m - k + 1]
      BY <1>4, <3>1
    <3>3. u[m - k + 1] \subseteq u[m]
      BY <2>2, <3>1
    <3>4. QED
      BY <3>2, <3>3
  <2> HIDE DEF S
  <2>3. \A k \in 0 .. m : k \in S
    BY <2>1, <2>2, Upwards
  <2>4. ASSUME NEW n \in 0 .. m PROVE u[n] \subseteq u[m]
    <3>1. m - n \in 0 .. m /\ m - (m - n) = n
      OBVIOUS
    <3>2. QED
      BY <2>3, <3>1 DEF S
  <2>5. QED
    BY <2>4
(* a word that has become k shorter was made in round k *)
<1> DEFINE Made(n, x) == /\ x \in Seq(Int) /\ 1 <= Len(x) /\ Len(x) <= m /\ m - Len(x) <= n
                         /\ x \in u[m - Len(x)]
                         /\ -1 \in ToSet(x) => -1 \in ToSet(s)
<1>6. ASSUME NEW n \in Nat, NEW x, Made(n, x), NEW i \in Mergeable(x)
      PROVE  Made(n + 1, Replaced(x, i))
  <2>1. /\ Replaced(x, i) \in Seq(Int)
        /\ Len(Replaced(x, i)) = Len(x) - 1 /\ Len(Replaced(x, i)) >= 1
        /\ -1 \in ToSet(Replaced(x, i)) => -1 \in ToSet(x)
    BY <1>6, ReplacedIs
  <2>2. PICK l \in Nat : l = Len(x) /\ l >= 2 /\ l <= m /\ m - l <= n
    BY <1>6, <2>1
  <2>3. m - (l - 1) \in 1 .. m /\ m - (l - 1) - 1 = m - l
    BY <2>2
  <2>4. Replaced(x, i) \in u[m - (l - 1)]
    BY <1>4, <1>6, <2>2, <2>3
  <2>5. 1 <= l - 1 /\ l - 1 <= m /\ m - (l - 1) <= n + 1
    BY <2>2
  <2>6. QED
    BY <1>6, <2>1, <2>2, <2>4, <2>5
<1>7. \A n \in 0 .. m : \A x \in u[n] : Made(n, x)
  <2> DEFINE S == {n \in 0 .. m : \A x \in u[n] : Made(n, x)}
  <2>1. 0 \in S
    <3>1. Made(0, s)
      <4>1. m - m = 0 /\ 1 <= m /\ m <= m
        BY <1>2
      <4>2. QED
        BY <1>2, <1>3, <4>1
    <3> HIDE DEF Made
    <3>2. QED
      BY <1>3, <3>1
  <2>2. ASSUME NEW k \in 1 .. m, k - 1 \in S PROVE k \in S
    <3>1. ASSUME NEW x, Made(k - 1, x) PROVE Made(k, x)
      BY <3>1
    <3>2. k - 1 \in Nat /\ (k - 1) + 1 = k
      OBVIOUS
    <3> HIDE DEF Made
    <3>3. ASSUME NEW x \in u[k] PROVE Made(k, x)
      <4>1. CASE x \in u[k - 1]
        BY <2>2, <3>1, <4>1
      <4>2. CASE x \notin u[k - 1]
        <5>1. PICK t \in u[k - 1] : \E i \in Mergeable(t) : x = Replaced(t, i)
          BY <1>3, <4>2
        <5>2. PICK i \in Mergeable(t) : x = Replaced(t, i)
          BY <5>1
        <5>3. Made(k - 1, t)
          BY <2>2
        <5>4. QED
          BY <1>6, <3>2, <5>2, <5>3
      <4>3. QED
        BY <4>1, <4>2
    <3>4. QED
      BY <3>3
  <2> HIDE DEF S
  <2>3. \A k \in 0 .. m : k \in S
    BY <2>1, <2>2, Upwards
  <2>4. QED
    BY <2>3 DEF S
<1>8. Reached(s, s)
  <2>1. s \in u[0] /\ 0 \in 0 .. m
    BY <1>3
  <2>2. s \in Rewritten(s)
    BY <1>3, <1>5, <2>1
  <2>3. QED
    BY <1>2, <2>2 DEF Reached
<1>9. ASSUME NEW x, Reached(s, x), NEW i \in Mergeable(x) PROVE Reached(s, Replaced(x, i))
  <2>1. Made(m, x)
    <3>1. x \in u[m] /\ m \in 0 .. m
      BY <1>3, <1>9 DEF Reached
    <3> HIDE DEF Made
    <3>2. QED
      BY <1>7, <3>1
  <2>2. Made(m + 1, Replaced(x, i))
    <3> HIDE DEF Made
    <3>1. QED
      BY <1>6, <2>1
  <2>3. PICK l \in Nat : l = Len(Replaced(x, i)) /\ 1 <= l /\ l <= m
    BY <2>2
  <2>4. m - l \in 0 .. m /\ Replaced(x, i) \in u[m - l]
    BY <2>2, <2>3
  <2>5. Replaced(x, i) \in Rewritten(s)
    BY <1>3, <1>5, <2>4
  <2>6. QED
    BY <1>2, <2>2, <2>5 DEF Reached
<1>10. QED
  BY <1>8, <1>9

(* Putting together does not depend on the order, and a prefix is short.   *)
LEMMA GluedTwice ==
    ASSUME NEW a \in Seq(Int), NEW b \in Seq(Int), NEW c \in Seq(Int)
    PROVE  (a \o b) \o c = a \o (b \o c)
BY ConcatAssociative

LEMMA PrefixIs ==
    ASSUME NEW x, NEW k \in Nat, \A j \in 1 .. k : x[j] \in Int
    PROVE  /\ SubSeq(x, 1, k) \in Seq(Int) /\ Len(SubSeq(x, 1, k)) = k
           /\ \A j \in 1 .. k : SubSeq(x, 1, k)[j] = x[j]
<1>1. /\ SubSeq(x, 1, k) \in Seq(Int) /\ Len(SubSeq(x, 1, k)) = IF 1 <= k THEN k - 1 + 1 ELSE 0
      /\ \A j \in 1 .. k - 1 + 1 : SubSeq(x, 1, k)[j] = x[1 + j - 1]
  BY SubSeqProperties
<1>2. k - 1 + 1 = k /\ (IF 1 <= k THEN k ELSE 0) = k /\ \A j \in 1 .. k : 1 + j - 1 = j
  OBVIOUS
<1>3. QED
  BY <1>1, <1>2, Zenon

(* A token may go from the rest to what is in front of it.                 *)
LEMMA TokenMoves ==
    ASSUME NEW m \in Seq(Int), NEW t \in Seq(Int), NEW i \in 1 .. Len(t)
    PROVE  Append(m, t[i]) \o SubSeq(t, i + 1, Len(t)) = m \o SubSeq(t, i, Len(t))
<1>1. Len(t) \in i .. Len(t) /\ t[i] \in Int /\ i + 1 \in 1 .. Len(t) + 1
  OBVIOUS
<1>2. SubSeq(t, i, Len(t)) = <<t[i]>> \o SubSeq(t, i + 1, Len(t))
  BY <1>1, SubSeqRecursiveFirst
<1>3. Append(m, t[i]) = m \o <<t[i]>>
  BY <1>1, AppendIsConcat
<1>4. m \in Seq(Int) /\ SubSeq(t, i + 1, Len(t)) \in Seq(Int) /\ <<t[i]>> \in Seq(Int)
  BY <1>1, RestIs
<1>5. (m \o <<t[i]>>) \o SubSeq(t, i + 1, Len(t)) = m \o (<<t[i]>> \o SubSeq(t, i + 1, Len(t)))
  BY <1>4, GluedTwice
<1>6. QED
  BY <1>2, <1>3, <1>5

(* The pair at the begin of the rest, and what is around it.               *)
BeginsWithPair(m, t, i, x, l) ==
    /\ x = m \o SubSeq(t, i, Len(t)) /\ x \in Seq(Int)
    /\ l \in 1 .. Len(x) - 1
    /\ Pair(x, l) = Pair(t, i)
    /\ SubSeq(x, 1, l - 1) = m
    /\ SubSeq(x, l + 2, Len(x)) = SubSeq(t, i + 2, Len(t))

LEMMA PairMoves ==
    ASSUME NEW m \in Seq(Int), NEW t \in Seq(Int), NEW i \in 1 .. Len(t) - 1
    PROVE  \E x, l : BeginsWithPair(m, t, i, x, l)
<1> DEFINE d == SubSeq(t, i, Len(t))
<1>1. PICK n \in Nat : n = Len(t) /\ i \in 1 .. n - 1
  OBVIOUS
<1>2. PICK k \in Nat, l \in Nat : k = Len(m) /\ l = k + 1
  OBVIOUS
<1>3. d \in Seq(Int) /\ Len(d) = n - i + 1 /\ \A j \in 1 .. n - i + 1 : d[j] = t[i + j - 1]
  <2>1. i \in 1 .. Len(t) + 1
    BY <1>1
  <2>2. QED
    BY <1>1, <2>1, RestIs
<1>4. PICK x : x = m \o d
  OBVIOUS
<1> HIDE DEF d
<1>5. /\ x \in Seq(Int) /\ Len(x) = k + (n - i + 1)
      /\ \A j \in 1 .. k : x[j] = m[j]
      /\ \A j \in 1 .. n - i + 1 : x[k + j] = d[j]
  <2>1. /\ m \o d \in Seq(Int) /\ Len(m \o d) = Len(m) + Len(d)
        /\ \A j \in 1 .. Len(m) : (m \o d)[j] = m[j]
        /\ \A j \in 1 .. Len(d) : (m \o d)[Len(m) + j] = d[j]
    <3>1. d \in Seq(Int)
      BY <1>3
    <3>2. QED
      BY <3>1, Glued
  <2>2. QED
    BY <1>2, <1>3, <1>4, <2>1, Zenon
<1>6. l \in 1 .. Len(x) - 1
  BY <1>1, <1>2, <1>5
<1>7. Pair(x, l) = Pair(t, i)
  <2>1. 1 \in 1 .. n - i + 1 /\ 2 \in 1 .. n - i + 1 /\ i + 1 - 1 = i /\ i + 2 - 1 = i + 1
    BY <1>1
  <2>2. x[k + 1] = t[i] /\ x[k + 2] = t[i + 1]
    BY <1>3, <1>5, <2>1
  <2>3. l = k + 1 /\ l + 1 = k + 2
    BY <1>2
  <2>4. QED
    BY <2>2, <2>3 DEF Pair
<1>8. SubSeq(x, 1, l - 1) = m
  <2>1. l - 1 = k
    BY <1>2
  <2>2. \A j \in 1 .. k : x[j] \in Int
    BY <1>1, <1>2, <1>5
  <2>3. /\ SubSeq(x, 1, k) \in Seq(Int) /\ Len(SubSeq(x, 1, k)) = k
        /\ \A j \in 1 .. k : SubSeq(x, 1, k)[j] = x[j]
    BY <2>2, PrefixIs
  <2>5. QED
    BY <1>2, <1>5, <2>1, <2>3, SeqEqual
<1>9. SubSeq(x, l + 2, Len(x)) = SubSeq(t, i + 2, Len(t))
  <2> DEFINE f == SubSeq(x, l + 2, Len(x))
             g == SubSeq(t, i + 2, Len(t))
  <2>1. i + 2 \in 1 .. Len(t) + 1 /\ l + 2 \in 1 .. Len(x) + 1
    BY <1>1, <1>2, <1>5
  <2>2. /\ f \in Seq(Int) /\ Len(f) = Len(x) - (l + 2) + 1
        /\ \A j \in 1 .. Len(x) - (l + 2) + 1 : f[j] = x[(l + 2) + j - 1]
    BY <1>5, <2>1, RestIs
  <2>3. /\ g \in Seq(Int) /\ Len(g) = Len(t) - (i + 2) + 1
        /\ \A j \in 1 .. Len(t) - (i + 2) + 1 : g[j] = t[(i + 2) + j - 1]
    BY <2>1, RestIs
  <2> HIDE DEF f, g
  <2>4. Len(x) - (l + 2) + 1 = n - i - 1 /\ Len(t) - (i + 2) + 1 = n - i - 1
    BY <1>1, <1>2, <1>5
  <2>5. ASSUME NEW j \in 1 .. n - i - 1 PROVE f[j] = g[j]
    <3>1. (l + 2) + j - 1 = k + (j + 2) /\ (i + 2) + j - 1 = i + (j + 2) - 1 /\ j + 2 \in 1 .. n - i + 1
      BY <1>1, <1>2
    <3>2. f[j] = x[k + (j + 2)] /\ g[j] = t[i + (j + 2) - 1]
      BY <2>2, <2>3, <2>4, <3>1
    <3>3. QED
      BY <1>3, <1>5, <3>1, <3>2
  <2>6. f = g
    BY <2>2, <2>3, <2>4, <2>5, SeqEqual
  <2>7. QED
    BY <2>6 DEF f, g
<1>10. BeginsWithPair(m, t, i, x, l)
  BY <1>4, <1>5, <1>6, <1>7, <1>8, <1>9 DEF BeginsWithPair, d
<1>11. QED
  BY <1>10

(* What a merge makes of the places of t that are kept.                    *)
MergedOf(k, t, at, id) == [j \in DOMAIN k |-> IF k[j] \in at THEN id ELSE t[k[j]]]

LEMMA MergedOfGrows ==
    ASSUME NEW t \in Seq(Int), NEW at, NEW id \in Int,
           NEW k \in Seq(DOMAIN t), NEW i \in DOMAIN t
    PROVE  /\ MergedOf(k, t, at, id) \in Seq(Int)
           /\ MergedOf(Append(k, i), t, at, id)
                = Append(MergedOf(k, t, at, id), IF i \in at THEN id ELSE t[i])
<1> DEFINE of(j) == IF j \in at THEN id ELSE t[j]
           m == MergedOf(k, t, at, id)
           l == Append(k, i)
           r == MergedOf(l, t, at, id)
<1>1. \A j \in DOMAIN t : of(j) \in Int
  OBVIOUS
<1>2. PICK n \in Nat : n = Len(k) /\ DOMAIN k = 1 .. n /\ \A j \in 1 .. n : k[j] \in DOMAIN t
  OBVIOUS
<1>3. /\ l \in Seq(DOMAIN t) /\ Len(l) = n + 1 /\ DOMAIN l = 1 .. n + 1
      /\ l[n + 1] = i /\ \A j \in 1 .. n : l[j] = k[j]
  <2>1. l \in Seq(DOMAIN t)
    BY Appended
  <2>2. Len(l) = n + 1 /\ l[n + 1] = i /\ \A j \in 1 .. n : l[j] = k[j]
    BY <1>2
  <2>3. QED
    BY <2>1, <2>2
<1>4. m = [j \in 1 .. n |-> of(k[j])] /\ r = [j \in 1 .. n + 1 |-> of(l[j])]
  BY <1>2, <1>3 DEF MergedOf
<1> HIDE DEF of, m, l, r
<1>5. m \in [1 .. n -> Int] /\ r \in [1 .. n + 1 -> Int]
  <2>1. \A j \in 1 .. n + 1 : l[j] \in DOMAIN t
    BY <1>3
  <2>2. QED
    BY <1>1, <1>2, <1>4, <2>1
<1>6. m \in Seq(Int) /\ Len(m) = n /\ r \in Seq(Int) /\ Len(r) = n + 1
  BY <1>5
<1>7. PICK x \in Int : x = of(i)
  BY <1>1
<1>8. /\ Append(m, x) \in Seq(Int) /\ Len(Append(m, x)) = n + 1
      /\ Append(m, x)[n + 1] = x /\ \A j \in 1 .. n : Append(m, x)[j] = m[j]
  BY <1>6, AppendProperties
<1>9. \A j \in 1 .. n + 1 : r[j] = Append(m, x)[j]
  <2>1. ASSUME NEW j \in 1 .. n + 1 PROVE r[j] = Append(m, x)[j]
    <3>1. CASE j = n + 1
      BY <1>3, <1>4, <1>7, <1>8, <3>1
    <3>2. CASE j # n + 1
      <4>1. j \in 1 .. n
        BY <3>2
      <4>2. r[j] = of(k[j]) /\ m[j] = of(k[j])
        BY <1>3, <1>4, <4>1
      <4>3. QED
        BY <1>8, <4>1, <4>2
    <3>3. QED
      BY <3>1, <3>2
  <2>2. QED
    BY <2>1
<1>10. r = Append(m, x)
  BY <1>6, <1>8, <1>9, SeqEqual
<1>11. QED
  BY <1>6, <1>7, <1>10 DEF m, r, l, of

(* A pair in front of which everything is merged is replaced.              *)
LEMMA PairIsReplaced ==
    ASSUME RulesFit, NEW s \in Seq(Int), s # <<>>, NEW t \in Seq(Int), NEW m \in Seq(Int),
           NEW i \in 1 .. Len(t) - 1, Reached(s, m \o SubSeq(t, i, Len(t))),
           Pair(t, i) \in merge_rules_, Pair(t, i) \in DOMAIN merges_
    PROVE  Reached(s, Append(m, merges_[Pair(t, i)]) \o SubSeq(t, i + 2, Len(t)))
<1>2. PICK x, l : BeginsWithPair(m, t, i, x, l)
  BY PairMoves
<1>3. /\ x = m \o SubSeq(t, i, Len(t)) /\ x \in Seq(Int)
      /\ l \in 1 .. Len(x) - 1
      /\ Pair(x, l) = Pair(t, i)
      /\ SubSeq(x, 1, l - 1) = m
      /\ SubSeq(x, l + 2, Len(x)) = SubSeq(t, i + 2, Len(t))
  BY <1>2 DEF BeginsWithPair
<1>4. l \in Mergeable(x)
  BY <1>3 DEF Mergeable
<1>5. Reached(s, Replaced(x, l))
  BY <1>3, <1>4, RewrittenIsClosed
<1>6. Replaced(x, l) = m \o <<merges_[Pair(t, i)]>> \o SubSeq(t, i + 2, Len(t))
  BY <1>3 DEF Replaced
<1>7. merges_[Pair(t, i)] \in Int
  BY DEF RulesFit
<1>8. Append(m, merges_[Pair(t, i)]) = m \o <<merges_[Pair(t, i)]>>
  BY <1>7, AppendIsConcat
<1>9. QED
  BY <1>5, <1>6, <1>8

(* MERGES ARE MADE OF REPLACEMENTS: what a merge makes of a word is reached*)
(* with one replacement after the other, from the left.                    *)
LEMMA MergedIsReached ==
    ASSUME RulesFit, NEW s \in Seq(Int), s # <<>>, NEW t, Reached(s, t),
           NEW p, p \in merge_rules_, p \in DOMAIN merges_
    PROVE  Reached(s, Merged(t, p, merges_[p]))
<1> DEFINE at == Occurrences(t, p)
           id == merges_[p]
           M(k) == MergedOf(k, t, at, id)
           Rest(i) == SubSeq(t, IF i \in at THEN i + 2 ELSE i + 1, Len(t))
<1>1. t \in Seq(Int) /\ id \in Int
  BY DEF Reached, RulesFit
<1>2. PICK n \in Nat : n = Len(t) /\ n >= 1 /\ DOMAIN t = 1 .. n
  BY <1>1 DEF Reached
<1>3. /\ \A i \in at : i \in 1 .. n - 1 /\ Pair(t, i) = p /\ i - 1 \notin at
  BY <1>1, <1>2, OccurrencesArePlaces DEF Places
<1>4. PICK u : IsKeeping(u, t, at)
  BY <1>1, KeptArePlaces
<1> HIDE DEF at, id
<1>5. /\ u[0] = <<>> /\ u[n] = Kept(t, at)
      /\ \A i \in 0 .. n : u[i] \in Seq(DOMAIN t)
      /\ \A i \in 1 .. n : u[i] = IF i - 1 \in at THEN u[i - 1] ELSE Append(u[i - 1], i)
  BY <1>2, <1>4 DEF IsKeeping
<1>6. Merged(t, p, id) = M(u[n])
  BY <1>5 DEF Merged, MergedOf, at
<1>7. \A i \in 0 .. n : M(u[i]) \in Seq(Int)
  <2>1. ASSUME NEW i \in 0 .. n PROVE M(u[i]) \in Seq(Int)
    <3>1. 1 \in DOMAIN t /\ u[i] \in Seq(DOMAIN t)
      BY <1>2, <1>5
    <3>2. QED
      BY <1>1, <3>1, MergedOfGrows
  <2>2. QED
    BY <2>1
<1> DEFINE S == {i \in 0 .. n : Reached(s, M(u[i]) \o Rest(i))}
<1>8. 0 \in S
  <2>1. 0 \notin at
    <3>1. 0 \notin 1 .. n - 1
      OBVIOUS
    <3>2. QED
      BY <1>3, <3>1, Zenon
  <2>2. Rest(0) = t
    <3>1. Rest(0) = SubSeq(t, 1, Len(t))
      BY <2>1
    <3>2. QED
      BY <1>1, <3>1
  <2>3. M(<<>>) = <<>>
    BY DEF MergedOf
  <2>4. M(u[0]) \o Rest(0) = t
    <3> HIDE DEF M, Rest
    <3>1. QED
      <4>1. M(u[0]) = <<>>
        BY <1>5, <2>3, Zenon
      <4>2. <<>> \o t = t
        BY <1>1
      <4>3. QED
        BY <2>2, <4>1, <4>2, Zenon
  <2>5. 0 \in 0 .. n
    OBVIOUS
  <2> HIDE DEF M, Rest
  <2>6. QED
    BY <2>4, <2>5
<1>9. ASSUME NEW i \in 1 .. n, i - 1 \in S PROVE i \in S
  <2>1. i - 1 \in 0 .. n /\ i \in 0 .. n /\ i \in DOMAIN t /\ (i - 1) + 1 = i /\ (i - 1) + 2 = i + 1
    BY <1>2
  <2>2. CASE i - 1 \in at
    <3>1. i \notin at
      BY <1>3, <2>2
    <3>2. u[i] = u[i - 1]
      BY <1>5, <2>2
    <3>3. Rest(i - 1) = SubSeq(t, i + 1, Len(t)) /\ Rest(i) = SubSeq(t, i + 1, Len(t))
      BY <2>1, <2>2, <3>1
    <3>4. Reached(s, M(u[i - 1]) \o Rest(i - 1))
      BY <1>9
    <3> HIDE DEF M, Rest
    <3>5. QED
      BY <2>1, <3>2, <3>3, <3>4
  <2>3. CASE i - 1 \notin at
    <3>1. PICK m \in Seq(Int) : m = M(u[i - 1])
      BY <1>7, <2>1
    <3>2. u[i] = Append(u[i - 1], i) /\ u[i - 1] \in Seq(DOMAIN t)
      BY <1>5, <2>1, <2>3
    <3>3. M(u[i]) = Append(m, IF i \in at THEN id ELSE t[i])
      <4>1. MergedOf(Append(u[i - 1], i), t, at, id)
              = Append(MergedOf(u[i - 1], t, at, id), IF i \in at THEN id ELSE t[i])
        <5> HIDE DEF M, Rest, S
        <5>1. PICK k \in Seq(DOMAIN t) : k = u[i - 1]
          BY <3>2
        <5>2. MergedOf(Append(k, i), t, at, id) = Append(MergedOf(k, t, at, id), IF i \in at THEN id ELSE t[i])
          BY <1>1, <2>1, MergedOfGrows
        <5>3. QED
          BY <5>1, <5>2, Zenon
      <4>2. QED
        BY <3>1, <3>2, <4>1, Zenon
    <3>4. Rest(i - 1) = SubSeq(t, i, Len(t))
      BY <2>1, <2>3
    <3>5. PICK x : x = m \o SubSeq(t, i, Len(t)) /\ Reached(s, x)
      BY <1>9, <3>1, <3>4
    <3>6. CASE i \notin at
      <4>1. M(u[i]) = Append(m, t[i]) /\ Rest(i) = SubSeq(t, i + 1, Len(t))
        BY <3>3, <3>6
      <4>2. Append(m, t[i]) \o SubSeq(t, i + 1, Len(t)) = m \o SubSeq(t, i, Len(t))
        <5>1. i \in 1 .. Len(t)
          BY <1>2
        <5>2. QED
          BY <1>1, <5>1, TokenMoves
      <4> HIDE DEF M, Rest
      <4>3. QED
        BY <2>1, <3>5, <4>1, <4>2
    <3>7. CASE i \in at
      <4>1. M(u[i]) = Append(m, id) /\ Rest(i) = SubSeq(t, i + 2, Len(t))
        BY <3>3, <3>7
      <4>2. i \in 1 .. Len(t) - 1 /\ Pair(t, i) = p
        BY <1>2, <1>3, <3>7
      <4> HIDE DEF M, Rest, S
      <4>3. Reached(s, Append(m, merges_[p]) \o SubSeq(t, i + 2, Len(t)))
        BY <1>1, <3>5, <4>2, PairIsReplaced
      <4>4. QED
        BY <2>1, <4>1, <4>3 DEF S, id
    <3>8. QED
      BY <3>6, <3>7
  <2>4. QED
    BY <2>2, <2>3
<1>10. n \in S
  <2> HIDE DEF S
  <2>1. \A i \in 0 .. n : i \in S
    BY <1>8, <1>9, Upwards
  <2>2. QED
    BY <2>1
<1>11. Rest(n) = <<>>
  <2>1. n \notin at
    BY <1>3
  <2>2. QED
    BY <1>1, <1>2, <2>1
<1>12. M(u[n]) \o Rest(n) = M(u[n])
  <2>1. M(u[n]) \in Seq(Int)
    BY <1>7
  <2> HIDE DEF M, Rest
  <2>2. QED
    BY <1>11, <2>1
<1> HIDE DEF M, Rest
<1>13. QED
  BY <1>6, <1>10, <1>12 DEF id

(* A merge of a pair that a word has makes it shorter.                     *)
LEMMA MergedIsShorter ==
    ASSUME NEW t \in Seq(Int), NEW p, NEW id, Places(t, p) # {}
    PROVE  Len(Merged(t, p, id)) < Len(t)
<1> DEFINE at == Occurrences(t, p)
<1>1. PICK n \in Nat : n = Len(t)
  OBVIOUS
<1>2. PICK a \in at : a \in 1 .. n - 1
  BY <1>1, OccurrencesArePlaces DEF Places
<1>3. PICK u : IsKeeping(u, t, at)
  BY KeptArePlaces
<1> HIDE DEF at
<1>4. /\ u[0] = <<>> /\ u[n] = Kept(t, at)
      /\ \A i \in 0 .. n : u[i] \in Seq(DOMAIN t)
      /\ \A i \in 1 .. n : u[i] = IF i - 1 \in at THEN u[i - 1] ELSE Append(u[i - 1], i)
  BY <1>1, <1>3 DEF IsKeeping
<1> DEFINE S == {i \in 0 .. n : Len(u[i]) <= i /\ (a < i => Len(u[i]) <= i - 1)}
<1>5. 0 \in S
  BY <1>2, <1>4
<1>6. ASSUME NEW i \in 1 .. n, i - 1 \in S PROVE i \in S
  <2>1. i - 1 \in 0 .. n /\ u[i - 1] \in Seq(DOMAIN t)
    BY <1>4
  <2>2. PICK l \in Nat : l = Len(u[i - 1]) /\ l <= i - 1 /\ (a < i - 1 => l <= i - 1 - 1)
    BY <1>6, <2>1
  <2>3. CASE i - 1 \in at
    <3>1. Len(u[i]) = l
      BY <1>4, <2>2, <2>3
    <3>2. QED
      BY <2>2, <3>1
  <2>4. CASE i - 1 \notin at
    <3>1. Len(u[i]) = l + 1
      <4>1. u[i] = Append(u[i - 1], i)
        BY <1>4, <2>4
      <4>2. QED
        BY <2>1, <2>2, <4>1
    <3>2. a # i - 1
      BY <2>4
    <3>3. QED
      BY <1>2, <2>2, <3>1, <3>2
  <2>5. QED
    BY <2>3, <2>4
<1>7. n \in S
  <2> HIDE DEF S
  <2>1. \A i \in 0 .. n : i \in S
    BY <1>5, <1>6, Upwards
  <2>2. QED
    BY <2>1
<1>8. Len(u[n]) < n
  BY <1>2, <1>4, <1>7
<1>9. Len(Merged(t, p, id)) = Len(u[n])
  <2>1. u[n] \in Seq(DOMAIN t)
    BY <1>4
  <2>2. PICK l \in Nat : l = Len(u[n]) /\ DOMAIN u[n] = 1 .. l
    BY <2>1
  <2>3. Merged(t, p, id) = [j \in DOMAIN u[n] |-> IF u[n][j] \in at THEN id ELSE t[u[n][j]]]
    BY <1>4 DEF Merged, at
  <2>4. QED
    BY <2>2, <2>3
<1>10. QED
  BY <1>1, <1>8, <1>9

(* A turn of bpe_merge() goes from one word that is reached to another, and*)
(* makes it shorter unless the loop ends there or never does.              *)
Stays(x) == Turn(x) = x /\ (Mergeable(x) = {} \/ -1 \in ToSet(x))

LEMMA TurnIs ==
    ASSUME RulesFit, NEW s \in Seq(Int), s # <<>>, NEW t, Reached(s, t)
    PROVE  Reached(s, Turn(t)) /\ (Stays(t) \/ Len(Turn(t)) < Len(t))
<1>1. t \in Seq(Int)
  BY DEF Reached
<1>2. CASE Mergeable(t) = {}
  BY <1>2 DEF Turn, Stays
<1>3. CASE Mergeable(t) # {}
  <2>1. Min(Mergeable(t)) \in Mergeable(t)
    <3>1. Mergeable(t) \in SUBSET Int /\ \A i \in Mergeable(t) : 0 <= i
      BY <1>1 DEF Mergeable
    <3>2. 0 \in Int
      OBVIOUS
    <3>3. QED
      BY <1>3, <3>1, <3>2, MinIsThere
  <2>2. PICK i \in Mergeable(t) : i = Min(Mergeable(t))
    BY <2>1
  <2>3. PICK p : p = Pair(t, i)
    OBVIOUS
  <2>4. Turn(t) = IF -1 \in {p[1], p[2]} THEN t ELSE Merged(t, p, merges_[p])
    BY <1>3, <2>2, <2>3 DEF Turn
  <2>5. i \in 1 .. Len(t) - 1 /\ p \in merge_rules_ /\ p \in DOMAIN merges_
    BY <2>3 DEF Mergeable
  <2>6. CASE -1 \in {p[1], p[2]}
    <3>1. i \in DOMAIN t /\ i + 1 \in DOMAIN t
      BY <1>1, <2>5
    <3>2. p[1] = t[i] /\ p[2] = t[i + 1]
      BY <2>3 DEF Pair
    <3>3. -1 \in ToSet(t)
      BY <2>6, <3>1, <3>2 DEF ToSet
    <3>4. QED
      BY <2>4, <2>6, <3>3 DEF Stays
  <2>7. CASE -1 \notin {p[1], p[2]}
    <3>1. Turn(t) = Merged(t, p, merges_[p])
      BY <2>4, <2>7
    <3>2. Reached(s, Turn(t))
      BY <2>5, <3>1, MergedIsReached
    <3>3. Places(t, p) # {}
      BY <2>3, <2>5 DEF Places
    <3>4. Len(Turn(t)) < Len(t)
      BY <1>1, <3>1, <3>3, MergedIsShorter
    <3>5. QED
      BY <3>2, <3>4
  <2>8. QED
    BY <2>6, <2>7
<1>4. QED
  BY <1>2, <1>3

(* What bpe_merge() makes of a word, whatever the rules are.               *)
LEMMA MergedAsForeseen ==
    ASSUME RulesFit, NEW s \in Seq(Int), s # <<>>
    PROVE  Encoded(s)
<1> DEFINE Turns(u) == [n \in 0 .. Len(s) |-> IF n = 0 THEN s ELSE Turn(u[n - 1])]
           after == CHOOSE u : u = Turns(u)
           V == {x \in Seq(Int) : Reached(s, x)}
           turn == [x \in (1 .. Len(s)) \X V |-> Turn(x[2])]
<1>1. PICK m \in Nat : m = Len(s) /\ m >= 1
  OBVIOUS
<1>2. s \in V
  BY RewrittenIsClosed
<1>3. \A x \in V : Turn(x) \in V
  BY TurnIs DEF Reached
<1> HIDE DEF V
<1>4. \E u : u = Turns(u)
  <2>1. turn \in [(1 .. m) \X V -> V]
    BY <1>1, <1>3
  <2>2. PICK g : IsRun(g, m, V, s, turn)
    <3> HIDE DEF turn
    <3>1. QED
      BY <1>2, <2>1, LoopRuns
  <2>3. g \in [0 .. m -> V] /\ g[0] = s
    BY <2>2 DEF IsRun
  <2>4. ASSUME NEW i \in 1 .. m PROVE g[i] = Turn(g[i - 1])
    <3>1. g[i - 1] \in V
      BY <1>1, <2>3
    <3>2. g[i] = turn[<<i, g[i - 1]>>]
      BY <2>2 DEF IsRun
    <3>3. QED
      BY <1>1, <3>1, <3>2
  <2>5. g = Turns(g)
    <3>1. g = [i \in 0 .. m |-> g[i]]
      BY <2>3
    <3>2. \A i \in 0 .. m : i = 0 \/ i \in 1 .. m
      BY <1>1
    <3>3. QED
      BY <1>1, <2>3, <2>4, <3>1, <3>2
  <2>6. QED
    BY <2>5
<1>5. after = Turns(after)
  <2> HIDE DEF Turns
  <2>1. QED
    BY <1>4
<1> HIDE DEF after
<1>6. after[0] = s
  BY <1>1, <1>5
<1>7. ASSUME NEW k \in 1 .. m PROVE after[k] = Turn(after[k - 1])
  <2>1. k \in 0 .. Len(s) /\ k # 0
    BY <1>1
  <2>2. Turns(after)[k] = Turn(after[k - 1])
    BY <2>1
  <2> HIDE DEF Turns
  <2>3. QED
    BY <1>5, <2>2
<1> DEFINE S == {k \in 0 .. m : Reached(s, after[k]) /\ (Stays(after[k]) \/ Len(after[k]) <= m - k)}
<1>8. 0 \in S
  <2>1. Reached(s, s) /\ Len(s) <= m - 0 /\ 0 \in 0 .. m
    BY <1>1, RewrittenIsClosed
  <2>2. QED
    BY <1>6, <2>1
<1>9. ASSUME NEW k \in 1 .. m, k - 1 \in S PROVE k \in S
  <2>1. PICK t : t = after[k - 1] /\ Reached(s, t) /\ (Stays(t) \/ Len(t) <= m - (k - 1))
    BY <1>9
  <2>2. after[k] = Turn(t)
    BY <1>7, <2>1
  <2>3. Reached(s, Turn(t)) /\ (Stays(t) \/ Len(Turn(t)) < Len(t))
    BY <2>1, TurnIs
  <2>4. CASE Stays(t)
    <3>1. Turn(t) = t
      BY <2>4 DEF Stays
    <3>2. QED
      BY <2>1, <2>2, <2>4, <3>1
  <2>5. CASE ~Stays(t)
    <3>1. PICK a \in Nat, b \in Nat : a = Len(t) /\ b = Len(Turn(t))
      BY <2>1, <2>3 DEF Reached
    <3>2. b <= m - k
      BY <2>1, <2>3, <2>5, <3>1
    <3>3. QED
      BY <2>2, <2>3, <3>1, <3>2
  <2>6. QED
    BY <2>4, <2>5
<1>10. m \in S
  <2> HIDE DEF S
  <2>1. \A k \in 0 .. m : k \in S
    BY <1>8, <1>9, Upwards
  <2>2. QED
    BY <2>1
<1>11. PICK x : x = after[m] /\ Reached(s, x) /\ (Stays(x) \/ Len(x) <= m - m)
  BY <1>10
<1>12. Len(x) >= 1 /\ Stays(x)
  <2>1. Len(x) >= 1 /\ Len(x) \in Nat /\ m - m = 0
    BY <1>11 DEF Reached
  <2>2. QED
    BY <1>11, <2>1
<1>13. bpe_merge(s) = IF Mergeable(x) = {} THEN x ELSE Forever
  BY <1>1, <1>11 DEF bpe_merge, after
<1>14. x # Forever
  <2>1. Len(<<>>) = 0
    OBVIOUS
  <2>2. QED
    BY <1>12, <2>1 DEF Forever
<1>15. CASE Mergeable(x) = {}
  BY <1>11, <1>13, <1>14, <1>15 DEF Encoded, Reached
<1>16. CASE Mergeable(x) # {}
  <2>1. -1 \in ToSet(s)
    BY <1>11, <1>12, <1>16 DEF Stays, Reached
  <2>2. QED
    BY <1>13, <1>16, <2>1 DEF Encoded
<1>17. QED
  BY <1>15, <1>16

(* How often a pair is in the words is a number.                           *)
LEMMA FrequencyIsNat ==
    ASSUME tokenized \in Seq(Seq(Int)), NEW p
    PROVE  Frequency(p) \in Nat
<1> DEFINE c(w) == Cardinality(Places(tokenized[w], p))
           Turns(u) == [w \in 0 .. Len(tokenized) |-> IF w = 0 THEN 0 ELSE u[w - 1] + Cardinality(Places(tokenized[w], p))]
           upto == CHOOSE u : u = Turns(u)
           n == Len(tokenized)
<1>1. n \in Nat /\ DOMAIN tokenized = 1 .. n
  OBVIOUS
<1>2. \A w \in 1 .. n : c(w) \in Nat
  <2>1. ASSUME NEW w \in 1 .. n PROVE c(w) \in Nat
    <3>1. PICK k \in Int : k = Len(tokenized[w]) - 1
      <4>1. tokenized[w] \in Seq(Int)
        BY <1>1
      <4>2. Len(tokenized[w]) - 1 \in Int
        BY <4>1
      <4>3. QED
        BY <4>2
    <3>2. IsFiniteSet(1 .. k)
      BY FS_Interval
    <3>3. Places(tokenized[w], p) \subseteq 1 .. k
      BY <3>1 DEF Places
    <3>4. QED
      BY <3>2, <3>3, FS_Subset, FS_CardinalityType
  <2>2. QED
    BY <2>1
<1> HIDE DEF c
<1>3. \E u : u = Turns(u)
  <2> DEFINE turn == [x \in (1 .. n) \X Nat |-> x[2] + c(x[1])]
  <2>1. turn \in [(1 .. n) \X Nat -> Nat]
    BY <1>2
  <2> HIDE DEF n
  <2>2. PICK g : IsRun(g, n, Nat, 0, turn)
    <3> HIDE DEF turn
    <3>1. QED
      BY <1>1, <2>1, LoopRuns
  <2>3. g \in [0 .. n -> Nat] /\ g[0] = 0
    BY <2>2 DEF IsRun
  <2>4. ASSUME NEW i \in 1 .. n PROVE g[i] = g[i - 1] + c(i)
    <3>1. g[i - 1] \in Nat
      BY <1>1, <2>3
    <3>2. g[i] = turn[<<i, g[i - 1]>>]
      BY <2>2 DEF IsRun
    <3>3. QED
      BY <3>1, <3>2
  <2>5. g = Turns(g)
    <3>1. g = [i \in 0 .. n |-> g[i]]
      BY <2>3
    <3>2. \A i \in 0 .. n : i = 0 \/ i \in 1 .. n
      BY <1>1
    <3>3. QED
      BY <2>3, <2>4, <3>1, <3>2 DEF n, c
  <2>6. QED
    BY <2>5
<1>4. upto = Turns(upto)
  <2> HIDE DEF Turns
  <2>1. QED
    BY <1>3
<1> HIDE DEF upto
<1>5. \A k \in 0 .. n : upto[k] \in Nat
  <2> DEFINE S == {k \in 0 .. n : upto[k] \in Nat}
  <2>1. 0 \in S
    BY <1>1, <1>4
  <2>2. ASSUME NEW k \in 1 .. n, k - 1 \in S PROVE k \in S
    <3>1. upto[k] = upto[k - 1] + c(k)
      <4>1. k \in 0 .. Len(tokenized) /\ k # 0
        BY <1>1
      <4>2. Turns(upto)[k] = upto[k - 1] + c(k)
        BY <4>1 DEF c
      <4> HIDE DEF Turns
      <4>3. QED
        BY <1>4, <4>2
    <3>2. QED
      BY <1>1, <1>2, <2>2, <3>1
  <2> HIDE DEF S
  <2>3. \A k \in 0 .. n : k \in S
    BY <1>1, <2>1, <2>2, Upwards
  <2>4. QED
    BY <2>3 DEF S
<1>6. Frequency(p) = upto[n]
  BY DEF Frequency, upto
<1>7. n \in 0 .. n
  BY <1>1
<1> HIDE DEF n
<1>8. QED
  BY <1>5, <1>6, <1>7

-----------------------------------------------------------------------------
(* What train() counts fits the rules: a frequency, or what was there.     *)
LEMMA CountedFits ==
    ASSUME RulesFit, tokenized \in Seq(Seq(Int)), NEW counted \in PairFrequencies
    PROVE  \A q \in DOMAIN counted : counted[q] \in Nat
<1>1. PICK D : \/ counted = [q \in D |-> Frequency(q)]
               \/ counted = Over([q \in D |-> Frequency(q)], merges_)
  BY DEF PairFrequencies
<1> DEFINE f == [q \in D |-> Frequency(q)]
<1>4. \A q \in DOMAIN f : f[q] \in Nat
  BY FrequencyIsNat
<1>5. counted = f \/ counted = Over(f, merges_)
  BY <1>1
<1> HIDE DEF f
<1>6. QED
  BY <1>4, <1>5 DEF Over, RulesFit

(* The rules fit, and the codes are those of characters.                   *)
EncoderInv == RulesFit /\ codes \subseteq Chars

LEMMA EncoderInvInit ==
    TokenizerInit => EncoderInv
BY NothingIndexed DEF TokenizerInit, EncoderInv, RulesFit

LEMMA EncoderInvKept ==
    ASSUME TokenizerInv, EncoderInv, [TokenizerNext]_tokenizer
    PROVE  EncoderInv'
<1>1. RulesFit /\ codes \subseteq Chars /\ tokenized \in Seq(Seq(Int))
  BY DEF EncoderInv, TokenizerInv
<1>2. CASE UNCHANGED <<merges_, codes>>
  BY <1>1, <1>2 DEF EncoderInv, RulesFit
<1>3. ASSUME NEW texts \in Corpora, NEW n \in Limits, Train(texts, n) PROVE EncoderInv'
  <2>1. CodesOf(texts) \subseteq Chars
    <3>1. \A w \in DOMAIN texts : texts[w] \in Seq(Chars)
      <4>1. texts \in Seq(Seq(Chars) \ {<<>>})
        BY TokenizerAssumption
      <4>2. QED
        BY <4>1
    <3>2. QED
      BY <3>1 DEF CodesOf, ToSet
  <2>2. merges_' = merges_ /\ codes' = codes \cup CodesOf(texts)
    BY <1>3 DEF Train
  <2>3. QED
    BY <1>1, <2>1, <2>2 DEF EncoderInv, RulesFit
<1>4. CASE Round
  <2>1. PICK counted \in PairFrequencies :
          \E p, best : Frequency(p) = best /\ merges_' = Put(counted, p, best)
    BY <1>4, Zenon DEF Round
  <2>2. PICK p, best : Frequency(p) = best /\ merges_' = Put(counted, p, best)
    BY <2>1
  <2>3. best \in Nat /\ \A q \in DOMAIN counted : counted[q] \in Nat
    BY <1>1, <2>2, FrequencyIsNat, CountedFits
  <2>4. RulesFit'
    BY <2>2, <2>3 DEF RulesFit, Put
  <2>5. codes' = codes
    BY <1>4 DEF Round
  <2>6. QED
    BY <1>1, <2>4, <2>5 DEF EncoderInv
<1>5. CASE TrainReturn
  <2>1. codes' = codes /\ (merges_' = merges_ \/ merges_' \in PairFrequencies)
    BY <1>5 DEF TrainReturn
  <2>2. RulesFit'
    BY <1>1, <2>1, CountedFits DEF RulesFit
  <2>3. QED
    BY <1>1, <2>1, <2>2 DEF EncoderInv
<1>6. CASE \E tokens \in Specials : SetSpecialTokens(tokens) \/ AddSpecialToken(tokens[1])
  BY <1>2, <1>6 DEF SetSpecialTokens, AddSpecialToken, Becomes
<1>7. CASE Save
  BY <1>2, <1>7 DEF Save
<1>8. CASE Load
  BY <1>2, <1>8 DEF Load
<1>9. CASE UNCHANGED tokenizer
  BY <1>2, <1>9 DEF tokenizer
<1>10. QED
  BY <1>3, <1>4, <1>5, <1>6, <1>7, <1>8, <1>9 DEF TokenizerNext

(* WORDS ARE ENCODED AS FORESEEN, for every set of texts: see              *)
(* EncodeForeseen.  It holds for words of any length and while train()     *)
(* runs.  bpe_merge() ends because a merge makes the word shorter, and what*)
(* it ends with is reached because a merge is one replacement after the    *)
(* other; that merges_ has no negative number keeps the code -1 out.       *)
THEOREM EncodersWords ==
    TokenizerSpec => [](EncodeForeseen /\ \A w \in Seq(Chars) \ {<<>>} : Encoded(w))
<1>1. TokenizerInit => TokenizerInv /\ EncoderInv
  BY TokenizerInvInit, EncoderInvInit
<1>2. TokenizerInv /\ EncoderInv /\ [TokenizerNext]_tokenizer => TokenizerInv' /\ EncoderInv'
  BY TokenizerInvKept, EncoderInvKept
<1>3. EncoderInv => EncodeForeseen /\ \A w \in Seq(Chars) \ {<<>>} : Encoded(w)
  <2> SUFFICES ASSUME EncoderInv
               PROVE  EncodeForeseen /\ \A w \in Seq(Chars) \ {<<>>} : Encoded(w)
    OBVIOUS
  <2>1. RulesFit /\ codes \subseteq Int /\ Chars \subseteq Int
    BY DEF EncoderInv, Chars
  <2>2. ASSUME NEW w \in Words PROVE Encoded(w)
    <3>1. w \in Seq(Int) /\ Len(w) = 3 /\ w # <<>>
      <4>1. w \in [1 .. 3 -> Int]
        BY <2>1 DEF Words
      <4>2. \A m \in Nat : \A v \in [1 .. m -> Int] : v \in Seq(Int) /\ Len(v) = m
        OBVIOUS
      <4>3. QED
        <5>1. w \in Seq(Int) /\ Len(w) = 3
          BY <4>1, <4>2, 3 \in Nat, Zenon
        <5>2. Len(<<>>) = 0
          OBVIOUS
        <5>3. QED
          BY <5>1, <5>2
    <3>2. QED
      BY <2>1, <3>1, MergedAsForeseen
  <2>3. ASSUME NEW w \in Seq(Chars) \ {<<>>} PROVE Encoded(w)
    <3>1. w \in Seq(Int)
      BY <2>1, SeqMonotonic
    <3>2. QED
      BY <2>1, <3>1, MergedAsForeseen
  <2>4. QED
    BY <2>2, <2>3 DEF EncodeForeseen
<1>4. QED
  BY <1>1, <1>2, <1>3, PTL DEF TokenizerSpec
=============================================================================
