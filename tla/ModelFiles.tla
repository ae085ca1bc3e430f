----------------------------- MODULE ModelFiles -----------------------------
(***************************************************************************)
(* GGUFLoader (gguf.ii) and SafetensorsLoader (st.ii): the tables load()   *)
(* reads from a file that stays open, and load_tensor_data(), which reads  *)
(* through them from the same stream later.                                *)
(*                                                                         *)
(* A file is the sequence of its items: of GGUF the magic, the version,    *)
(* the number of keys, the keys, the number of tensors and the tensors, of *)
(* Safetensors the length and the text of the header; and behind them the  *)
(* cells of the tensors.  GGUF is taken in the order the code reads it in. *)
(* Nothing of what is read is checked: a value that is behind the end of   *)
(* the file stays uninitialised, and every later read on the stream does   *)
(* nothing; a value of a type the code does not read as it is written puts *)
(* everything behind it out of place.                                      *)
(***************************************************************************)
EXTENDS Integers, SequencesExt, FiniteSetsExt, TLC

CONSTANTS
  Files,      \* path -> file
  Buffers,    \* the sizes of the buffers load_tensor_data() is called with
  Garbage,    \* the numbers an uninitialised value is taken to have
  MaxLoads    \* bound: calls of load()

None == "none"

\* flaw: what of the header is wrong, "magic", "version", "json", "entry" (an
\* entry behind the tensors has other types) or "no"; a tensor is bare if the
\* header has no offsets for it; items: how many are there; cells: how many
\* are there, of GGUF from the beginning of the file, from where its offsets count.
Key == [name : STRING, type : {"scalar", "string", "wide", "array"}]
Tensor == [name : STRING, offset : Nat, size : Nat, bare : BOOLEAN]
FilesOf(fmt, flaws) ==
  [format : {fmt}, keys : Seq(Key), tensors : Seq(Tensor),
   flaw : flaws \cup {"no"}, items : Nat, cells : Nat]

ASSUME FilesAssumption ==
  /\ Buffers \subseteq Nat /\ Garbage \subseteq Nat /\ MaxLoads \in Nat
  /\ None \notin DOMAIN Files
  /\ \A p \in DOMAIN Files :
       \/ Files[p] \in FilesOf("gguf", {"magic", "version"})
       \/ Files[p] \in FilesOf("safetensors", {"json", "entry"})

VARIABLES
  format,     \* which of the two loaders it is
  path_,      \* of the last load()
  stream,     \* the file that is open, and whether no read has failed
  metadata_,  \* the keys that were read
  names,      \* metadata_.tensor_names
  index,      \* tensor_index_, tensors_: name -> [offset, size]
  total_size_,
  data_offset_,
  answer,     \* ghost: what the last call has answered
  again,      \* ghost: load() was called with a file open
  lied,       \* ghost: load_tensor_data() has answered true without the data
  loads       \* number of calls of load()
tables == <<metadata_, names, index, total_size_>>
loader == <<format, path_, stream, tables, data_offset_, answer, again, lied, loads>>

\* A call answers true or false or is left by an exception.
Outcomes == {"true", "false", "thrown"}
Answer(call, ok, due, right) == [call |-> call, ok |-> ok, due |-> due, right |-> right]
PathsOf ==
  [fmt \in {"gguf", "safetensors"} |-> {p \in DOMAIN Files : Files[p].format = fmt}]
Paths == PathsOf[format]
Names == UNION {{Files[p].tensors[i].name : i \in DOMAIN Files[p].tensors} : p \in DOMAIN Files}
Missing == ""       \* the name that is read behind the end

LoaderInit ==
  /\ format \in {"gguf", "safetensors"}
  /\ path_ = None
  /\ stream = [file |-> None, good |-> TRUE]
  /\ metadata_ = {} /\ names = <<>> /\ index = <<>>
  /\ total_size_ = 0 /\ data_offset_ = 0
  /\ answer = Answer(None, "false", FALSE, FALSE)
  /\ again = FALSE /\ lied = FALSE
  /\ loads = 0

\* ----- what a file holds -------------------------------------------------

Items(f) == IF f.format = "gguf" THEN 4 + Len(f.keys) + Len(f.tensors) ELSE 2
DataStart(f) == IF f.format = "gguf" THEN 0 ELSE 8 + Len(f.tensors)
End(f) == DataStart(f) + f.cells
Place(t) == [offset |-> t.offset, size |-> t.size]

\* Of several tensors of one name the last one stays.
Wanted(ts, name) == {i \in DOMAIN ts : ts[i].name = name}
LastOf(ts, name) == ts[Max(Wanted(ts, name))]
NamesOf(ts) == [i \in DOMAIN ts |-> ts[i].name]
With(index_, ts) ==
  [n \in DOMAIN index_ \cup ToSet(NamesOf(ts)) |->
     IF n \in ToSet(NamesOf(ts)) THEN Place(LastOf(ts, n)) ELSE index_[n]]
Size(ts) ==
  LET upto[i \in 0 .. Len(ts)] == IF i = 0 THEN 0 ELSE upto[i - 1] + ts[i].size
  IN upto[Len(ts)]
Sized(f) == \A i \in DOMAIN f.tensors : ~f.tensors[i].bare
Complete(f) == \A i \in DOMAIN f.tensors : f.tensors[i].offset + f.tensors[i].size <= f.cells

\* read_metadata_value(): of a value of eight bytes, UINT64, INT64 or FLOAT64,
\* only the type is read; and each element of an array is read as if its type
\* stood before it.
ReadAsWritten(type) == type \in {"scalar", "string"}

\* How many items are read from where they are: those up to the first such key.
Straight(f) ==
  LET odd == {i \in DOMAIN f.keys : ~ReadAsWritten(f.keys[i].type)}
  IN IF odd = {} THEN Items(f) ELSE 3 + Min(odd)

\* ----- the stream --------------------------------------------------------

\* ifstream::open(): a stream that is open keeps its file and fails.
Opened(path) ==
  IF stream.file = None /\ path \in Paths THEN [file |-> path, good |-> TRUE]
  ELSE [stream EXCEPT !.good = FALSE]

\* How many items of the header can be read.
Readable(s) == IF s.good THEN Files[s.file].items ELSE 0

\* ----- GGUFLoader::load() ------------------------------------------------

\* The first n of the elements
Take(s, n) == SubSeq(s, 1, Min({Len(s), Max({0, n})}))

\* How many items load() reads.
Needed(f) == CASE f.flaw = "magic" -> 1 [] f.flaw = "version" -> 2 [] OTHER -> Items(f)

\* read_magic(), read_version()
Accepted(f, r) == IF r >= Needed(f) \/ r >= 2 THEN {f.flaw = "no"} ELSE BOOLEAN

\* read_metadata_kv_count(), read_tensor_info(): the numbers nkeys and ntensors
\* and the tensors' names and places, m and g, are garbage behind the r items
\* that are read from where they are.
ReadTables(f, r, nkeys, ntensors, g, m) ==
  LET keys == Take(f.keys, r - 3)
      ts == Take(f.tensors, r - 4 - Len(f.keys))
      behind == [i \in 1 .. Max({0, ntensors - Len(ts)}) |-> [name |-> m, offset |-> g, size |-> g]]
  IN /\ metadata_' = metadata_ \cup ToSet(NamesOf(keys)) \cup (IF nkeys > Len(keys) THEN {m} ELSE {})
     /\ names' = names \o NamesOf(ts \o behind)
     /\ index' = With(index, ts \o behind)
     /\ total_size_' = total_size_ + Size(ts \o behind)

\* The header goes on behind a value that was not read as it is written.
Shifted(f, r) == Straight(f) < Needed(f) /\ Straight(f) <= r

\* The name that is read where there is none: what stands out of place may be any.
Misnomers(f, r) == IF Shifted(f, r) THEN Names \cup {Missing} ELSE {Missing}

\* A name of garbage length may be too much for the memory: what was read
\* before it stays.
Thrown(f, r) ==
  /\ r < Items(f) \/ Shifted(f, r)
  /\ \E nkeys, ntensors, g \in Garbage, m \in Misnomers(f, r) :
       ReadTables(f, Min({r, Straight(f)}), nkeys, ntensors, g, m)

ReadGguf(f, r) ==
  LET n == Min({r, Straight(f)}) IN
  \E nkeys \in IF n >= 3 THEN {Len(f.keys)} ELSE Garbage,
     ntensors \in IF n >= 4 + Len(f.keys) THEN {Len(f.tensors)} ELSE Garbage,
     g \in IF n >= Items(f) THEN {0} ELSE Garbage,
     m \in Misnomers(f, r) :
       ReadTables(f, n, nkeys, ntensors, g, m)

LoadGguf(f, r) ==
  /\ UNCHANGED data_offset_
  /\ \/ FALSE \in Accepted(f, r) /\ answer'.ok = "false" /\ UNCHANGED tables
     \/ TRUE \in Accepted(f, r) /\ answer'.ok = "true" /\ ReadGguf(f, r)
     \/ TRUE \in Accepted(f, r) /\ answer'.ok = "thrown" /\ Thrown(f, r)

\* ----- SafetensorsLoader::load() -----------------------------------------

\* The tensors, with a place of garbage for one without offsets.
Guessed(ts, g, h) ==
  [i \in DOMAIN ts |-> IF ts[i].bare THEN [ts[i] EXCEPT !.offset = g, !.size = h] ELSE ts[i]]

\* A text that is not all there is no JSON; the entries before one of other
\* types stay.
ParseHeader(f, r) ==
  /\ UNCHANGED <<metadata_, names, total_size_>>
  /\ IF r < 2 \/ f.flaw = "json" THEN UNCHANGED index
     ELSE \E g \in Garbage, h \in Garbage :
            index' = With(index, Guessed(f.tensors, g, h))
  /\ answer'.ok = IF r >= 2 /\ f.flaw = "no" THEN "true" ELSE "false"

\* Mutated form: the eight bytes of the length are not counted.
LoadSafetensorsUnshifted(f, r) ==
  /\ data_offset_' \in IF r >= 1 THEN {Len(f.tensors)} ELSE Garbage
  /\ ParseHeader(f, r)

LoadSafetensors(f, r) ==
  \/ /\ data_offset_' \in IF r >= 1 THEN {8 + Len(f.tensors)} ELSE {8 + g : g \in Garbage}
     /\ ParseHeader(f, r)
  \* no memory for a header of garbage length
  \/ r < 1 /\ answer'.ok = "thrown" /\ UNCHANGED <<tables, data_offset_>>

\* ----- the calls ---------------------------------------------------------

\* The tables are those of the file that was asked for.
TablesRight(f) ==
  /\ index' = With(<<>>, f.tensors)
  /\ format = "gguf" => /\ metadata_' = ToSet(NamesOf(f.keys))
                        /\ names' = NamesOf(f.tensors)
                        /\ total_size_' = Size(f.tensors)

LoadFile(path) ==
  /\ loads < MaxLoads
  /\ loads' = loads + 1
  /\ path_' = path
  /\ again' = (again \/ stream.file # None)
  /\ LET s == Opened(path)
         f == Files[s.file]
         r == Readable(s)
         due == path \in Paths /\ Files[path].flaw = "no"
     IN IF s.file = None
        THEN /\ stream' = s
             /\ answer' = Answer("load", "false", due, FALSE)
             /\ UNCHANGED <<tables, data_offset_>>
        ELSE /\ \E good \in IF Shifted(f, r) THEN BOOLEAN ELSE {s.good /\ r >= Needed(f)} :
                  stream' = [s EXCEPT !.good = good]
             /\ \E ok \in Outcomes, right \in BOOLEAN : answer' = Answer("load", ok, due, right)
             /\ IF format = "gguf" THEN LoadGguf(f, r) ELSE LoadSafetensors(f, r)
             /\ answer'.right = (path \in Paths /\ TablesRight(Files[path]))
  /\ UNCHANGED <<format, lied>>

\* Neither that the stream has failed nor that the file ends is noticed.
LoadTensorData(name, room) ==
  /\ LET f == Files[path_]
         ts == IF path_ \in Paths THEN f.tensors ELSE <<>>
         wanted == Wanted(ts, name)
         t == LastOf(ts, name)
         due == wanted # {} /\ f.flaw \in {"no", "entry"} /\ t.size <= room
         found == name \in DOMAIN index /\ index[name].size <= room
         first == data_offset_ + index[name].offset
         read == stream.good /\ first + index[name].size <= End(Files[stream.file])
         right == /\ read /\ stream.file = path_ /\ wanted # {}
                  /\ first = DataStart(f) + t.offset /\ index[name].size = t.size
     IN IF found
        THEN /\ answer' = Answer("tensor", "true", due, right)
             /\ stream' = [stream EXCEPT !.good = read]
             /\ lied' = (lied \/ (~right /\ \A i \in wanted : ~ts[i].bare))
        ELSE answer' = Answer("tensor", "false", due, FALSE) /\ UNCHANGED <<stream, lied>>
  /\ UNCHANGED <<format, path_, tables, data_offset_, again, loads>>

LoaderNext ==
  \/ \E path \in Paths \cup {"absent"} : LoadFile(path)
  \/ \E name \in Names, room \in Buffers : LoadTensorData(name, room)

LoaderSpec == LoaderInit /\ [][LoaderNext]_loader

\* ----- properties --------------------------------------------------------

\* The header is all there and the code reads it as it is written.
HeaderRead(f) == f.items >= Needed(f) /\ ~Shifted(f, f.items)

\* What the loaders answer.
\*  - Of a first load() whose header is all there, is read as it is written
\*    and says where every tensor is, load() is true exactly for a header
\*    without a flaw and leaves its tables, and load_tensor_data() is true
\*    exactly for a tensor of the file that the buffer has room for, and
\*    leaves its cells there if the file has all its cells.
\*  - A header of GGUF that is cut, or that has a value of eight bytes or an
\*    array among its keys, is not noticed: load() is not false for it, if only
\*    magic and version are there.  Safetensors' load() is never true for one
\*    that is cut, nor when it is called with a file open.
\*  - After a load() with a file open, and after load_tensor_data() has been
\*    true without the data, unless the header was read out of place, a loader
\*    never delivers data again.
AnswersForeseen ==
  path_ \in Paths =>
    LET f == Files[path_] IN
    /\ ~again /\ HeaderRead(f) /\ Sized(f) =>
         /\ answer.ok = IF answer.due THEN "true" ELSE "false"
         /\ answer.ok = "true" => answer.right \/ (answer.call = "tensor" /\ ~Complete(f))
    /\ answer.call = "load" =>
         IF format = "gguf"
         THEN ~again /\ answer.due /\ f.items >= 2 => answer.ok # "false"
         ELSE answer.ok = "true" => ~again /\ answer.due /\ HeaderRead(f)
    /\ again \/ (lied /\ ~Shifted(f, f.items)) =>
         ~(answer.call = "tensor" /\ answer.right)
=============================================================================
