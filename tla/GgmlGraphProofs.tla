-------------------------- MODULE GgmlGraphProofs ---------------------------
(***************************************************************************)
(* What ggml's walk leaves of a graph, for every graph size, every number  *)
(* of tensors and sources, and both evaluation orders: its nodes are in    *)
(* order and each there once, nothing a built tensor depends on is missing *)
(* and nothing else is there, use counts are exact, and the compute flag   *)
(* is on what the wanted tensors depend on.                                *)
(***************************************************************************)
EXTENDS GgmlGraph, FiniteSetTheorems, TLAPS

Frame == [tensor : Nat, next : Nat \ {0}, compute : BOOLEAN,
          kind : {"new", "again", "known"}]
Build == [tensor : Nat, compute : BOOLEAN]

(* Tensors are made from tensors that exist.                               *)
TensorsInv ==
    /\ src \in Seq(Seq(Nat))
    /\ \A t \in Tensors : \A i \in 1 .. Len(src[t]) : src[t][i] \in 1 .. t - 1

GraphInv ==
    /\ nodes \in Seq(Nat) /\ leafs \in Seq(Nat)
    /\ visited \subseteq Tensors
    /\ Done \subseteq visited

(* The calls under way: each was made for a source of its caller, so their *)
(* tensors become older, and each knows how far its loop has come.         *)
StackInv ==
    /\ stack \in Seq(Frame)
    /\ pending \in Seq(Build)
    /\ \A i \in 1 .. Len(pending) : pending[i].tensor \in Tensors
    /\ stack # <<>> => pending # <<>>
    /\ \A i \in 1 .. Len(stack) : stack[i].tensor \in visited
    /\ \A i, j \in 1 .. Len(stack) : i < j => stack[j].tensor < stack[i].tensor
    /\ \A i \in 1 .. Len(stack) - 1 : /\ ~LoopEnds(stack[i])
                                      /\ stack[i+1].tensor = Source(stack[i])

(* What was visited is in the graph, or a call for it is under way; what   *)
(* such a call's loop has passed is in the graph.                          *)
WalkInv ==
    /\ \A t \in visited : t \in Done \/ \E i \in 1 .. Len(stack) :
                             stack[i].kind = "new" /\ stack[i].tensor = t
    /\ \A i \in 1 .. Len(stack) : stack[i].kind = "new" =>
          /\ stack[i].tensor \notin Done
          /\ \A k \in 1 .. Len(src[stack[i].tensor]) :
                k < stack[i].next => SourceAt(stack[i], k) \in Done

(* A tensor without an operation has no sources.                           *)
OpsInv ==
    /\ op \in Seq({"none", "param", "op"})
    /\ Len(op) = Len(src)
    /\ \A t \in Tensors : op[t] # "op" => src[t] = <<>>

(* Every set that holds what was asked for, and the sources of what it     *)
(* holds, holds what was visited; and what is in the graph has its sources *)
(* there.                                                                  *)
CompleteInv ==
    /\ \A t \in Done : Sources(t) \subseteq Done
    /\ ~aborted =>
          /\ requested \subseteq visited
          /\ \A C \in SUBSET Tensors : requested \subseteq C /\ Closed(C) => visited \subseteq C

(* The turn in which a walk comes to the k-th source of a new tensor, and  *)
(* the uses of t that the walks have come past.                            *)
Turn(u, k) == IF order = "right_to_left" THEN Len(src[u]) + 1 - k ELSE k
Passed(u, k) ==
    \/ u \in Done
    \/ \E i \in 1 .. Len(stack) : /\ stack[i].kind = "new" /\ stack[i].tensor = u
                                 /\ Turn(u, k) < stack[i].next
PassedAt(u, t) == {k \in 1 .. Len(src[u]) : src[u][k] = t /\ Passed(u, k)}
PassedUses(t) == UNION {{<<u, k>> : k \in PassedAt(u, t)} : u \in visited}
UseInv ==
    /\ use_counts \in [DOMAIN use_counts -> Nat]
    /\ visited \subseteq DOMAIN use_counts
    /\ \A t \in visited : /\ IsFiniteSet(PassedUses(t))
                           /\ use_counts[t] = Cardinality(PassedUses(t))

(* What the loop of a call for tensors to be computed still has before it. *)
Ahead(t, s) ==
    \E i \in 1 .. Len(stack) :
      /\ stack[i].tensor = t /\ stack[i].compute
      /\ \E k \in 1 .. Len(src[t]) : k >= stack[i].next /\ SourceAt(stack[i], k) = s

(* The flag goes to the operations among the sources of whatever has it,   *)
(* now or in a turn of a loop under way, and to nothing that no wanted     *)
(* tensor depends on.                                                      *)
FlagInv ==
    ~aborted =>
    /\ compute \subseteq {t \in Tensors : op[t] = "op"}
    /\ wanted \subseteq Tensors
    /\ \A t \in wanted : op[t] = "op" => t \in compute
    /\ \A i \in 1 .. Len(stack) :
          stack[i].compute => /\ stack[i].kind # "known"
                              /\ op[stack[i].tensor] = "op" => stack[i].tensor \in compute
    /\ \A i \in 1 .. Len(stack) - 1 : stack[i+1].compute = stack[i].compute
    /\ \A t \in compute : \A s \in Sources(t) :
          op[s] = "op" => s \in compute \/ Ahead(t, s)
    /\ \A C \in SUBSET Tensors : wanted \subseteq C /\ Closed(C) =>
          /\ compute \subseteq C
          /\ \A i \in 1 .. Len(stack) : stack[i].compute => stack[i].tensor \in C

Inv == TensorsInv /\ GraphInv /\ StackInv /\ WalkInv /\ SourcesFirst /\ NoDuplicates

-----------------------------------------------------------------------------
(* What a loop has passed at its end is every source, in either order.     *)
LEMMA AllSourcesPassed ==
  ASSUME TensorsInv, NEW f \in Frame, f.tensor \in Tensors,
         NEW i \in 1 .. Len(src[f.tensor])
  PROVE  \E k \in 1 .. Len(src[f.tensor]) : SourceAt(f, k) = src[f.tensor][i]
<1> DEFINE n == Len(src[f.tensor])
<1>1. n \in Nat
  BY DEF TensorsInv, Tensors
<1>2. CASE f.kind = "new" /\ order = "right_to_left"
  <2>1. n + 1 - i \in 1 .. n /\ n + 1 - (n + 1 - i) = i
    BY <1>1
  <2>2. SourceAt(f, n + 1 - i) = src[f.tensor][i]
    BY <1>2, <2>1 DEF SourceAt
  <2>3. QED BY <2>1, <2>2
<1>3. CASE ~(f.kind = "new" /\ order = "right_to_left")
  BY <1>3 DEF SourceAt
<1>4. QED BY <1>2, <1>3

(* The source a loop is at is older than the loop's tensor.                *)
LEMMA SourceIsOlder ==
  ASSUME TensorsInv, NEW f \in Frame, f.tensor \in Tensors, ~LoopEnds(f)
  PROVE  Source(f) \in 1 .. f.tensor - 1
<1> DEFINE n == Len(src[f.tensor])
<1>1. n \in Nat /\ f.next \in 1 .. n
  BY DEF TensorsInv, Tensors, LoopEnds, Frame
<1>2. n + 1 - f.next \in 1 .. n
  BY <1>1
<1>3. QED BY <1>1, <1>2 DEF TensorsInv, Source, SourceAt

LEMMA SourceIsASource ==
  ASSUME TensorsInv, NEW f \in Frame, f.tensor \in Tensors, ~LoopEnds(f)
  PROVE  Source(f) \in Sources(f.tensor)
<1> DEFINE n == Len(src[f.tensor])
<1>1. n \in Nat /\ f.next \in 1 .. n
  BY DEF TensorsInv, Tensors, LoopEnds, Frame
<1>2. n + 1 - f.next \in 1 .. n
  BY <1>1
<1>3. QED BY <1>1, <1>2 DEF Source, SourceAt, Sources

LEMMA SourcesAreTensors ==
  ASSUME TensorsInv, NEW t \in Tensors
  PROVE  Sources(t) \subseteq Tensors
<1>1. \A i \in 1 .. Len(src[t]) : src[t][i] \in 1 .. t - 1
  BY DEF TensorsInv
<1>2. 1 .. t - 1 \subseteq Tensors
  BY DEF Tensors, TensorsInv
<1>3. QED BY <1>1, <1>2 DEF Sources

(* What a list holds after an append.                                      *)
LEMMA ElementsAppend ==
  ASSUME NEW s \in Seq(Nat), NEW t \in Nat
  PROVE  /\ Append(s, t) \in Seq(Nat)
         /\ Elements(Append(s, t)) = Elements(s) \cup {t}
<1>1. Append(s, t) \in Seq(Nat) /\ Len(Append(s, t)) = Len(s) + 1 /\ Len(s) \in Nat
  OBVIOUS
<1>2. \A i \in 1 .. Len(s) : Append(s, t)[i] = s[i]
  OBVIOUS
<1>3. Append(s, t)[Len(s) + 1] = t
  OBVIOUS
<1>4. QED BY <1>1, <1>2, <1>3 DEF Elements
-----------------------------------------------------------------------------
(* Nothing has been made or visited.                                       *)
LEMMA InitInv == Init => Inv
<1> SUFFICES ASSUME Init PROVE Inv
  OBVIOUS
<1>1. TensorsInv
  BY DEF Init, TensorsInv, Tensors
<1>2. GraphInv
  BY DEF Init, GraphInv, Tensors, Done, Elements
<1>3. StackInv
  BY DEF Init, StackInv
<1>4. WalkInv
  BY DEF Init, WalkInv
<1>5. SourcesFirst /\ NoDuplicates
  BY DEF Init, SourcesFirst, NoDuplicates
<1>6. QED BY <1>1, <1>2, <1>3, <1>4, <1>5 DEF Inv

(* The invariant reads these variables only.                               *)
LEMMA UnchangedInv ==
  Inv /\ UNCHANGED <<src, order, nodes, leafs, visited, stack, pending>> => Inv'
BY DEF Inv, TensorsInv, GraphInv, StackInv, WalkInv, SourcesFirst, NoDuplicates,
       Tensors, Sources, Done, Elements, LoopEnds, Source, SourceAt

(* A call keeps the invariant, be it that it returns at once or not.       *)
LEMMA CallKeepsInv ==
  ASSUME Inv, NEW t \in Tensors, NEW c \in BOOLEAN, Call(t, c),
         UNCHANGED <<src, order, nodes, leafs, pending>>, pending # <<>>,
         stack = <<>> \/ (stack # <<>> /\ ~LoopEnds(Top) /\ t = Source(Top))
  PROVE  Inv'
<1> USE DEF Inv
<1> DEFINE n == Len(stack)
<1> DEFINE f == [tensor |-> t, next |-> 1, compute |-> c,
                 kind |-> IF t \notin visited THEN "new" ELSE IF c THEN "again" ELSE "known"]
<1>1. CASE UNCHANGED <<visited, stack>>
  BY <1>1, UnchangedInv
<1>2. CASE /\ visited' = visited \cup {t}
           /\ stack' = Append(stack, f)
  <2>1. /\ t \in Nat /\ f \in Frame
        /\ f.tensor = t /\ f.next = 1 /\ (f.kind = "new" <=> t \notin visited)
    BY DEF Tensors, TensorsInv, Frame
  <2>2. /\ stack' \in Seq(Frame) /\ n \in Nat /\ Len(stack') = n + 1
        /\ stack'[n+1] = f
        /\ \A i \in 1 .. n : stack'[i] = stack[i]
    <3> HIDE DEF f
    <3>1. QED BY <1>2, <2>1 DEF StackInv
  <2> HIDE DEF f
  <2>3. \A i \in 1 .. n : t < stack[i].tensor
    <3>1. CASE n = 0
      BY <3>1
    <3>2. CASE n # 0
      <4>1. n \in 1 .. n /\ Top = stack[n] /\ Top \in Frame /\ Top.tensor \in Tensors
        BY <2>2, <3>2 DEF Top, StackInv, GraphInv
      <4>2. ~LoopEnds(Top) /\ t = Source(Top)
        BY <3>2
      <4>3. t \in 1 .. Top.tensor - 1
        BY <4>1, <4>2, SourceIsOlder
      <4>4. t < stack[n].tensor
        BY <4>1, <4>3 DEF Frame
      <4>5. \A i \in 1 .. n - 1 : stack[n].tensor < stack[i].tensor
        BY <4>1, <2>2 DEF StackInv
      <4>6. \A i \in 1 .. n : stack[i].tensor \in Nat
        <5>1. \A i \in 1 .. n : stack[i] \in Frame
          BY DEF StackInv
        <5>2. QED BY <5>1 DEF Frame
      <4>7. QED BY <2>1, <2>2, <4>1, <4>4, <4>5, <4>6
    <3>3. QED BY <3>1, <3>2
  <2>4. TensorsInv'
    BY DEF TensorsInv, Tensors
  <2>5. GraphInv'
    BY <1>2 DEF GraphInv, Tensors, Done, Elements
  <2>6. StackInv'
    <3>1. \A i \in 1 .. Len(stack') : stack'[i].tensor \in visited'
      <4>1. \A i \in 1 .. n : stack[i].tensor \in visited
        BY DEF StackInv
      <4>2. ASSUME NEW i \in 1 .. n + 1 PROVE stack'[i].tensor \in visited \cup {t}
        <5>1. CASE i = n + 1
          BY <2>1, <2>2, <5>1
        <5>2. CASE i # n + 1
          <6>1. i \in 1 .. n
            BY <2>2, <5>2
          <6>2. QED BY <2>2, <4>1, <6>1
        <5>3. QED BY <5>1, <5>2
      <4>3. QED BY <1>2, <2>2, <4>2
    <3>2. \A i, j \in 1 .. Len(stack') : i < j => stack'[j].tensor < stack'[i].tensor
      <4>1. \A i, j \in 1 .. n : i < j => stack[j].tensor < stack[i].tensor
        BY DEF StackInv
      <4>2. ASSUME NEW i \in 1 .. n + 1, NEW j \in 1 .. n + 1, i < j
            PROVE  stack'[j].tensor < stack'[i].tensor
        <5>1. i \in 1 .. n /\ stack'[i] = stack[i]
          BY <2>2, <4>2
        <5>2. CASE j = n + 1
          BY <2>1, <2>2, <2>3, <5>1, <5>2
        <5>3. CASE j # n + 1
          <6>1. j \in 1 .. n /\ stack'[j] = stack[j]
            BY <2>2, <4>2, <5>3
          <6>2. QED BY <4>1, <4>2, <5>1, <6>1
        <5>4. QED BY <5>2, <5>3
      <4>3. QED BY <2>2, <4>2
    <3>3. ASSUME NEW i \in 1 .. Len(stack') - 1
          PROVE  ~LoopEnds(stack[i]) /\ stack'[i+1].tensor = Source(stack[i])
      <4>1. CASE i = n
        BY <2>1, <2>2, <3>3, <4>1 DEF Top
      <4>2. CASE i # n
        BY <2>2, <3>3, <4>2 DEF StackInv
      <4>3. QED BY <4>1, <4>2
    <3>4. \A i \in 1 .. Len(stack') - 1 : /\ ~LoopEnds(stack[i])'
                                          /\ stack'[i+1].tensor = Source(stack[i])'
      BY <2>2, <3>3 DEF LoopEnds, Source, SourceAt
    <3>5. /\ pending' \in Seq(Build) /\ pending' # <<>>
          /\ \A i \in 1 .. Len(pending') : pending'[i].tensor \in Tensors'
      BY DEF StackInv, Tensors
    <3>6. QED BY <2>2, <3>1, <3>2, <3>4, <3>5 DEF StackInv
  <2>7. WalkInv'
    <3>1. Done' = Done
      BY DEF Done, Elements
    <3>2. \A u \in visited' : u \in Done' \/ \E i \in 1 .. Len(stack') :
              stack'[i].kind = "new" /\ stack'[i].tensor = u
      <4> SUFFICES ASSUME NEW u \in visited', u \notin Done
                   PROVE  \E i \in 1 .. Len(stack') :
                            stack'[i].kind = "new" /\ stack'[i].tensor = u
        BY <3>1
      <4>1. CASE u \in visited
        <5>1. PICK i \in 1 .. n : stack[i].kind = "new" /\ stack[i].tensor = u
          BY <4>1 DEF WalkInv
        <5>2. QED BY <2>2, <5>1
      <4>2. CASE u \notin visited
        BY <1>2, <2>1, <2>2, <4>2
      <4>3. QED BY <4>1, <4>2
    <3>3. ASSUME NEW i \in 1 .. Len(stack'), stack'[i].kind = "new"
          PROVE  /\ stack'[i].tensor \notin Done
                 /\ \A k \in 1 .. Len(src[stack'[i].tensor]) :
                       k < stack'[i].next => SourceAt(stack'[i], k) \in Done
      <4>1. CASE i = n + 1
        BY <2>1, <2>2, <3>3, <4>1 DEF GraphInv
      <4>2. CASE i # n + 1
        <5>1. i \in 1 .. n /\ stack'[i] = stack[i]
          BY <2>2, <4>2
        <5>2. QED BY <3>3, <5>1 DEF WalkInv
      <4>3. QED BY <4>1, <4>2
    <3>4. \A g, k : SourceAt(g, k)' = SourceAt(g, k)
      BY DEF SourceAt
    <3>5. QED BY <3>1, <3>2, <3>3 DEF WalkInv, SourceAt
  <2>8. SourcesFirst' /\ NoDuplicates'
    <3>1. /\ \A u : Sources(u)' = Sources(u)
          /\ Elements(leafs)' = Elements(leafs)
      BY DEF Sources, Elements
    <3>2. SourcesFirst'
      BY <3>1 DEF SourcesFirst
    <3>3. NoDuplicates'
      BY DEF NoDuplicates
    <3>4. QED BY <3>2, <3>3
  <2>9. QED BY <2>4, <2>5, <2>6, <2>7, <2>8
<1>3. QED BY <1>1, <1>2 DEF Call

(* So does a turn of the loop over a source visited before.                *)
LEMMA SkipKeepsInv == Inv /\ Skip => Inv'
<1> SUFFICES ASSUME Inv, Skip PROVE Inv'
  OBVIOUS
<1> USE DEF Inv
<1> DEFINE n == Len(stack)
<1>1. /\ n \in Nat \ {0} /\ n \in 1 .. n /\ stack[n] \in Frame
      /\ ~LoopEnds(stack[n]) /\ stack[n].kind = "again"
      /\ stack[n].tensor \in Tensors
      /\ UNCHANGED <<src, order, nodes, leafs, visited, pending>>
  BY DEF Skip, Top, StackInv, GraphInv, tensors, graph
<1>2. /\ stack' \in Seq(Frame) /\ Len(stack') = n
      /\ \A i \in 1 .. n - 1 : stack'[i] = stack[i]
      /\ stack'[n] = [stack[n] EXCEPT !.next = @ + 1]
  <2>1. stack' = [stack EXCEPT ![n] = [stack[n] EXCEPT !.next = @ + 1]]
    BY DEF Skip
  <2>2. [stack[n] EXCEPT !.next = @ + 1] \in Frame
    BY <1>1 DEF Frame
  <2>3. QED BY <1>1, <2>1, <2>2 DEF StackInv
<1>3. /\ stack'[n].tensor = stack[n].tensor /\ stack'[n].kind = "again"
  BY <1>1, <1>2 DEF Frame
<1>4. \A i \in 1 .. n : stack'[i].tensor = stack[i].tensor /\ stack'[i].kind = stack[i].kind
  <2> SUFFICES ASSUME NEW i \in 1 .. n
               PROVE  stack'[i].tensor = stack[i].tensor /\ stack'[i].kind = stack[i].kind
    OBVIOUS
  <2>1. CASE i = n
    BY <1>1, <1>3, <2>1
  <2>2. CASE i # n
    <3>1. i \in 1 .. n - 1
      BY <1>1, <2>2
    <3>2. QED BY <1>2, <3>1
  <2>3. QED BY <2>1, <2>2
<1>5. TensorsInv' /\ GraphInv'
  BY <1>1 DEF TensorsInv, GraphInv, Tensors, Done, Elements
<1>6. StackInv'
  <2>1. \A i \in 1 .. Len(stack') - 1 : /\ ~LoopEnds(stack[i])
                                        /\ stack'[i+1].tensor = Source(stack[i])
    <3>1. \A i \in 1 .. n - 1 : i + 1 \in 1 .. n
      BY <1>1
    <3>2. \A i \in 1 .. n - 1 : ~LoopEnds(stack[i]) /\ stack[i+1].tensor = Source(stack[i])
      BY DEF StackInv
    <3>3. QED BY <1>2, <1>4, <3>1, <3>2
  <2>2. \A i \in 1 .. Len(stack') - 1 : /\ ~LoopEnds(stack[i])'
                                        /\ stack'[i+1].tensor = Source(stack[i])'
    BY <1>1, <1>2, <2>1 DEF LoopEnds, Source, SourceAt
  <2>3. \A i, j \in 1 .. Len(stack') : i < j => stack'[j].tensor < stack'[i].tensor
    BY <1>2, <1>4 DEF StackInv
  <2>4. QED BY <1>1, <1>2, <1>4, <2>2, <2>3 DEF StackInv, Tensors
<1>7. WalkInv'
  <2>1. \A u \in visited : u \in Done \/ \E i \in 1 .. n :
            stack'[i].kind = "new" /\ stack'[i].tensor = u
    BY <1>4 DEF WalkInv
  <2>2. ASSUME NEW i \in 1 .. n, stack'[i].kind = "new"
        PROVE  /\ stack'[i].tensor \notin Done
               /\ \A k \in 1 .. Len(src[stack'[i].tensor]) :
                     k < stack'[i].next => SourceAt(stack'[i], k) \in Done
    <3>1. i # n
      BY <1>3, <2>2
    <3>2. i \in 1 .. n - 1
      BY <1>1, <3>1
    <3>3. stack'[i] = stack[i]
      BY <1>2, <3>2
    <3>4. QED BY <2>2, <3>3 DEF WalkInv
  <2>3. Done' = Done
    BY <1>1 DEF Done, Elements
  <2>4. QED BY <1>1, <1>2, <2>1, <2>2, <2>3 DEF WalkInv, SourceAt
<1>8. SourcesFirst' /\ NoDuplicates'
  <2>1. /\ \A u : Sources(u)' = Sources(u)
        /\ Elements(leafs)' = Elements(leafs)
    BY <1>1 DEF Sources, Elements
  <2>2. SourcesFirst'
    BY <1>1, <2>1 DEF SourcesFirst
  <2>3. NoDuplicates'
    BY <1>1 DEF NoDuplicates
  <2>4. QED BY <2>2, <2>3
<1>9. QED BY <1>5, <1>6, <1>7, <1>8

(* What a call returns to: its caller one turn further on, the others as   *)
(* they were.  Its tensor is in the graph, appended now, or before by a    *)
(* call that cannot be under way still, because all that are were made for *)
(* younger tensors.                                                        *)
LEMMA ReturnEffect ==
  ASSUME Inv, Return, ~(Top.kind = "new" /\ ~HasRoom(Top.tensor))
  PROVE  /\ Len(stack) \in Nat \ {0} /\ Len(stack) \in 1 .. Len(stack)
         /\ Top = stack[Len(stack)] /\ Top \in Frame /\ LoopEnds(Top)
         /\ Top.tensor \in Tensors /\ Top.tensor \in visited /\ Top.tensor \in Nat
         /\ UNCHANGED <<src, op, order, visited, compute, requested, wanted>>
         /\ stack' \in Seq(Frame) /\ Len(stack') = Len(stack) - 1
         /\ \A i \in 1 .. Len(stack) - 2 : stack'[i] = stack[i]
         /\ \A i \in 1 .. Len(stack) - 1 :
               /\ stack'[i].tensor = stack[i].tensor
               /\ stack'[i].kind = stack[i].kind
               /\ stack'[i].compute = stack[i].compute
               /\ i = Len(stack) - 1 => stack'[i].next = stack[i].next + 1
               /\ stack[i].tensor # Top.tensor
               /\ stack[i].tensor \in Nat /\ Top.tensor < stack[i].tensor
         /\ Top.kind # "new" => Top.tensor \in Done
         /\ Top.kind = "new" => Top.tensor \notin Done /\ \A s \in Sources(Top.tensor) : s \in Done
         /\ Done' = Done \cup {Top.tensor}
<1> DEFINE n == Len(stack)
<1> DEFINE T == Top.tensor
<1> USE DEF Inv
<1>1. /\ n \in Nat \ {0} /\ n \in 1 .. n /\ Top = stack[n] /\ Top \in Frame
      /\ LoopEnds(Top) /\ T \in Tensors /\ T \in visited /\ T \in Nat
      /\ UNCHANGED <<src, op, order, visited, compute, requested, wanted>>
  <2>1. stack # <<>> /\ LoopEnds(Top) /\ UNCHANGED <<src, op, order, visited, compute, requested, wanted>>
    BY DEF Return, tensors, ghosts
  <2>2. n \in Nat \ {0} /\ n \in 1 .. n /\ Top = stack[n] /\ Top \in Frame
    BY <2>1 DEF StackInv, Top
  <2>3. T \in visited /\ T \in Tensors /\ T \in Nat
    BY <2>2 DEF StackInv, GraphInv, Frame
  <2>4. QED BY <2>1, <2>2, <2>3
<1>2. /\ stack' \in Seq(Frame) /\ Len(stack') = n - 1
      /\ \A i \in 1 .. n - 2 : stack'[i] = stack[i]
      /\ \A i \in 1 .. n - 1 : /\ stack'[i].tensor = stack[i].tensor
                               /\ stack'[i].kind = stack[i].kind
                               /\ stack'[i].compute = stack[i].compute
                               /\ i = n - 1 => stack'[i].next = stack[i].next + 1
  <2> DEFINE g(i) == IF i = n - 1 THEN [stack[i] EXCEPT !.next = @ + 1] ELSE stack[i]
  <2>1. stack' = [i \in 1 .. n - 1 |-> g(i)]
    BY DEF Return, PopFrame
  <2>2. ASSUME NEW i \in 1 .. n - 1
        PROVE  /\ g(i) \in Frame /\ g(i).tensor = stack[i].tensor /\ g(i).kind = stack[i].kind
               /\ g(i).compute = stack[i].compute
               /\ i = n - 1 => g(i).next = stack[i].next + 1
               /\ i # n - 1 => g(i) = stack[i]
    <3>1. stack[i] \in Frame
      BY <1>1 DEF StackInv
    <3>2. QED BY <3>1 DEF Frame
  <2> HIDE DEF g
  <2>3. n - 1 \in Nat
    BY <1>1
  <2>4. \A i \in 1 .. n - 2 : i \in 1 .. n - 1 /\ i # n - 1
    BY <1>1
  <2>5. stack' \in Seq(Frame) /\ Len(stack') = n - 1
    BY <2>1, <2>2, <2>3
  <2>6. QED BY <2>1, <2>2, <2>4, <2>5
<1>3. \A i \in 1 .. n - 1 : stack[i].tensor # T /\ stack[i].tensor \in Nat /\ T < stack[i].tensor
  <2> SUFFICES ASSUME NEW i \in 1 .. n - 1
               PROVE  stack[i].tensor \in Nat /\ T < stack[i].tensor
    BY <1>1
  <2>1. i \in 1 .. n /\ i < n
    BY <1>1
  <2>2. stack[i] \in Frame
    BY <2>1 DEF StackInv
  <2>3. stack[n].tensor < stack[i].tensor
    BY <1>1, <2>1 DEF StackInv
  <2>4. QED BY <1>1, <2>2, <2>3 DEF Frame
<1>4. Top.kind # "new" => T \in Done
  <2> SUFFICES ASSUME Top.kind # "new", T \notin Done PROVE FALSE
    OBVIOUS
  <2>1. PICK i \in 1 .. n : stack[i].kind = "new" /\ stack[i].tensor = T
    BY <1>1 DEF WalkInv
  <2>2. i # n
    BY <1>1, <2>1
  <2>3. i \in 1 .. n - 1
    BY <1>1, <2>2
  <2>4. QED BY <1>3, <2>1, <2>3
<1>5. Top.kind = "new" => T \notin Done /\ \A s \in Sources(T) : s \in Done
  <2> SUFFICES ASSUME Top.kind = "new"
               PROVE  T \notin Done /\ \A s \in Sources(T) : s \in Done
    OBVIOUS
  <2>1. Top.next > Len(src[T])
    BY <1>1 DEF LoopEnds
  <2>2. \A k \in 1 .. Len(src[T]) : SourceAt(Top, k) \in Done
    <3>1. \A k \in 1 .. Len(src[T]) : k < Top.next => SourceAt(Top, k) \in Done
      BY <1>1 DEF WalkInv
    <3>2. Len(src[T]) \in Nat /\ Top.next \in Nat
      BY <1>1 DEF TensorsInv, Tensors, Frame
    <3>3. QED BY <2>1, <3>1, <3>2
  <2>3. \A i \in 1 .. Len(src[T]) : src[T][i] \in Done
    BY <1>1, <2>2, AllSourcesPassed
  <2>4. T \notin Done
    BY <1>1 DEF WalkInv
  <2>5. QED BY <2>3, <2>4 DEF Sources
<1>6. Done' = Done \cup {T}
  <2>1. CASE Top.kind # "new"
    <3>1. UNCHANGED <<nodes, leafs>>
      BY <2>1 DEF Return
    <3>2. Done' = Done
      BY <3>1 DEF Done, Elements
    <3>3. QED BY <1>4, <2>1, <3>2
  <2>2. CASE Top.kind = "new" /\ op[T] = "none"
    <3>1. leafs' = Append(leafs, T) /\ nodes' = nodes
      BY <2>2 DEF Return, AppendTensor
    <3>2. Elements(leafs') = Elements(leafs) \cup {T} /\ Elements(nodes') = Elements(nodes)
      BY <1>1, <3>1, ElementsAppend DEF GraphInv
    <3>3. QED BY <3>2 DEF Done, Elements
  <2>3. CASE Top.kind = "new" /\ op[T] # "none"
    <3>1. nodes' = Append(nodes, T) /\ leafs' = leafs
      BY <2>3 DEF Return, AppendTensor
    <3>2. Elements(nodes') = Elements(nodes) \cup {T} /\ Elements(leafs') = Elements(leafs)
      BY <1>1, <3>1, ElementsAppend DEF GraphInv
    <3>3. QED BY <3>2 DEF Done, Elements
  <2>4. QED BY <2>1, <2>2, <2>3
<1>7. QED BY <1>1, <1>2, <1>3, <1>4, <1>5, <1>6

(* A return keeps the invariant, and so does running out of room.          *)
LEMMA ReturnKeepsInv == Inv /\ Return => Inv'
<1> SUFFICES ASSUME Inv, Return PROVE Inv'
  OBVIOUS
<1> USE DEF Inv
<1>1. CASE Top.kind = "new" /\ ~HasRoom(Top.tensor)
  BY <1>1, UnchangedInv DEF Return, graph, tensors
<1>2. CASE ~(Top.kind = "new" /\ ~HasRoom(Top.tensor))
  <2> DEFINE n == Len(stack)
  <2> DEFINE T == Top.tensor
  <2>1. /\ n \in Nat \ {0} /\ n \in 1 .. n /\ Top = stack[n] /\ Top \in Frame
        /\ LoopEnds(Top) /\ T \in Tensors /\ T \in visited /\ T \in Nat
        /\ UNCHANGED <<src, op, order, visited>>
    BY <1>2, ReturnEffect
  <2>2. pending' = (IF n > 1 THEN pending ELSE Tail(pending)) /\ pending # <<>>
    BY <1>2 DEF Return, EndBuild, StackInv
  <2>3. /\ stack' \in Seq(Frame) /\ Len(stack') = n - 1
        /\ \A i \in 1 .. n - 2 : stack'[i] = stack[i]
        /\ \A i \in 1 .. n - 1 : /\ stack'[i].tensor = stack[i].tensor
                                 /\ stack'[i].kind = stack[i].kind
                                 /\ i = n - 1 => stack'[i].next = stack[i].next + 1
    BY <1>2, ReturnEffect
  <2>4. \A i \in 1 .. n - 1 : stack[i].tensor # T /\ stack[i].tensor \in Nat /\ T < stack[i].tensor
    BY <1>2, ReturnEffect
  <2>5. Top.kind # "new" => T \in Done
    BY <1>2, ReturnEffect
  <2>6. Top.kind = "new" => T \notin Done /\ \A s \in Sources(T) : s \in Done
    BY <1>2, ReturnEffect
  <2> HIDE DEF T
  <2>7. /\ nodes' \in Seq(Nat) /\ leafs' \in Seq(Nat)
        /\ Done' = Done \cup {T}
        /\ SourcesFirst' /\ NoDuplicates'
    <3>1. CASE Top.kind # "new"
      <4>1. UNCHANGED <<nodes, leafs>>
        BY <1>2, <3>1 DEF Return
      <4>2. Done' = Done \cup {T}
        BY <1>2, ReturnEffect DEF T
      <4>3. SourcesFirst'
        <5>1. /\ \A u : Sources(u)' = Sources(u)
              /\ Elements(leafs)' = Elements(leafs)
          BY <2>1, <4>1 DEF Sources, Elements
        <5>2. QED BY <4>1, <5>1 DEF SourcesFirst
      <4>4. NoDuplicates'
        BY <4>1 DEF NoDuplicates
      <4>5. QED BY <4>1, <4>2, <4>3, <4>4 DEF GraphInv
    <3>2. CASE Top.kind = "new" /\ op[T] = "none"
      <4>1. leafs' = Append(leafs, T) /\ nodes' = nodes
        BY <1>2, <3>2 DEF Return, AppendTensor, T
      <4>2. leafs' \in Seq(Nat) /\ Elements(leafs') = Elements(leafs) \cup {T}
        BY <2>1, <4>1, ElementsAppend DEF GraphInv
      <4>3. SourcesFirst'
        <5>1. \A i \in 1 .. Len(nodes) : \A s \in Sources(nodes[i]) :
                  s \in Elements(leafs') \/ \E j \in 1 .. i - 1 : nodes[j] = s
          BY <4>2 DEF SourcesFirst
        <5>2. /\ \A t : Sources(t)' = Sources(t)
              /\ Elements(leafs)' = Elements(leafs')
          BY <2>1 DEF Sources, Elements
        <5>3. QED BY <4>1, <5>1, <5>2 DEF SourcesFirst
      <4>4. NoDuplicates'
        <5>1. T \notin Elements(leafs)
          BY <2>6, <3>2 DEF Done
        <5>2. QED BY <2>1, <4>1, <5>1 DEF NoDuplicates, Elements, GraphInv
      <4>5. QED BY <4>1, <4>2, <4>3, <4>4 DEF Done, Elements, GraphInv
    <3>3. CASE Top.kind = "new" /\ op[T] # "none"
      <4>1. nodes' = Append(nodes, T) /\ leafs' = leafs
        BY <1>2, <3>3 DEF Return, AppendTensor, T
      <4>2. nodes' \in Seq(Nat) /\ Elements(nodes') = Elements(nodes) \cup {T}
        BY <2>1, <4>1, ElementsAppend DEF GraphInv
      <4>3. /\ Len(nodes') = Len(nodes) + 1 /\ Len(nodes) \in Nat /\ nodes'[Len(nodes) + 1] = T
            /\ \A i \in 1 .. Len(nodes) : nodes'[i] = nodes[i]
        BY <2>1, <4>1 DEF GraphInv
      <4>4. SourcesFirst'
        <5> SUFFICES ASSUME NEW i \in 1 .. Len(nodes) + 1, NEW s \in Sources(nodes'[i])
                     PROVE  s \in Elements(leafs) \/ \E j \in 1 .. i - 1 : nodes'[j] = s
          <6> SUFFICES ASSUME \A i \in 1 .. Len(nodes) + 1 : \A s \in Sources(nodes'[i]) :
                                s \in Elements(leafs) \/ \E j \in 1 .. i - 1 : nodes'[j] = s
                       PROVE  SourcesFirst'
            OBVIOUS
          <6>1. /\ \A t : Sources(t)' = Sources(t)
                /\ Elements(leafs)' = Elements(leafs)
            BY <2>1, <4>1 DEF Sources, Elements
          <6>2. QED BY <4>3, <6>1 DEF SourcesFirst
        <5>1. CASE i = Len(nodes) + 1
          <6>1. s \in Elements(leafs) \/ s \in Elements(nodes)
            BY <2>6, <3>3, <4>3, <5>1 DEF Done
          <6>2. QED BY <4>3, <5>1, <6>1 DEF Elements
        <5>2. CASE i # Len(nodes) + 1
          <6>1. i \in 1 .. Len(nodes) /\ nodes'[i] = nodes[i]
            BY <4>3, <5>2
          <6>2. s \in Elements(leafs) \/ \E j \in 1 .. i - 1 : nodes[j] = s
            BY <6>1 DEF SourcesFirst
          <6>3. QED BY <4>3, <6>1, <6>2
        <5>3. QED BY <5>1, <5>2
      <4>5. NoDuplicates'
        <5>1. T \notin Elements(nodes)
          BY <2>6, <3>3 DEF Done
        <5>2. QED BY <2>1, <4>1, <4>3, <5>1, SMTT(30) DEF NoDuplicates, Elements
      <4>6. QED BY <4>1, <4>2, <4>4, <4>5 DEF Done, Elements, GraphInv
    <3>4. QED BY <3>1, <3>2, <3>3
  <2>8. TensorsInv' /\ GraphInv'
    <3>1. TensorsInv' /\ Tensors' = Tensors
      BY <2>1 DEF TensorsInv, Tensors
    <3>2. Done' \subseteq visited'
      BY <2>1, <2>7 DEF GraphInv, T
    <3>3. QED BY <2>1, <2>7, <3>1, <3>2 DEF GraphInv
  <2>9. StackInv'
    <3>1. pending' \in Seq(Build) /\ \A i \in 1 .. Len(pending') : pending'[i].tensor \in Tensors'
      <4>1. CASE pending' = pending
        BY <2>1, <4>1 DEF StackInv, Tensors
      <4>2. CASE pending' = Tail(pending)
        <5>1. /\ Tail(pending) \in Seq(Build) /\ Len(Tail(pending)) = Len(pending) - 1
              /\ \A i \in 1 .. Len(pending) - 1 : Tail(pending)[i] = pending[i+1]
              /\ Len(pending) \in Nat
          BY <2>2 DEF StackInv
        <5>2. \A i \in 1 .. Len(pending) - 1 : i + 1 \in 1 .. Len(pending)
          BY <5>1
        <5>3. QED BY <2>1, <4>2, <5>1, <5>2 DEF StackInv, Tensors
      <4>3. QED BY <2>2, <4>1, <4>2
    <3>2. \A i, j \in 1 .. n - 1 : i < j => stack'[j].tensor < stack'[i].tensor
      <4>1. \A i \in 1 .. n - 1 : i \in 1 .. n
        BY <2>1
      <4>2. QED BY <2>3, <4>1 DEF StackInv
    <3>3. \A i \in 1 .. n - 1 : stack'[i].tensor \in visited'
      <4>1. \A i \in 1 .. n - 1 : i \in 1 .. n
        BY <2>1
      <4>2. QED BY <2>1, <2>3, <4>1 DEF StackInv
    <3>4. \A i \in 1 .. n - 2 : ~LoopEnds(stack[i])' /\ stack'[i+1].tensor = Source(stack[i])'
      <4>1. \A i \in 1 .. n - 2 : /\ i \in 1 .. n - 1 /\ i + 1 \in 1 .. n - 1
                                  /\ stack'[i] = stack[i]
                                  /\ stack'[i+1].tensor = stack[i+1].tensor
        BY <2>1, <2>3, SMTT(30)
      <4>2. \A i \in 1 .. n - 1 : ~LoopEnds(stack[i]) /\ stack[i+1].tensor = Source(stack[i])
        BY DEF StackInv
      <4>3. QED BY <2>1, <4>1, <4>2, ZenonT(60) DEF LoopEnds, Source, SourceAt
    <3>5. Len(stack') = n - 1 /\ Len(stack') - 1 = n - 2
      BY <2>1, <2>3
    <3>6. stack' # <<>> => pending' # <<>>
      BY <2>1, <2>2, <2>3
    <3>7. QED BY <2>3, <3>1, <3>2, <3>3, <3>4, <3>5, <3>6 DEF StackInv
  <2>10. WalkInv'
    <3>1. \A u \in visited : u \in Done' \/ \E i \in 1 .. n - 1 :
              stack'[i].kind = "new" /\ stack'[i].tensor = u
      <4> SUFFICES ASSUME NEW u \in visited, u \notin Done, u # T
                   PROVE  \E i \in 1 .. n - 1 : stack'[i].kind = "new" /\ stack'[i].tensor = u
        BY <2>7
      <4>1. PICK i \in 1 .. n : stack[i].kind = "new" /\ stack[i].tensor = u
        BY DEF WalkInv
      <4>2. i \in 1 .. n - 1
        BY <2>1, <4>1 DEF T
      <4>3. QED BY <2>3, <4>1, <4>2
    <3>2. ASSUME NEW i \in 1 .. n - 1, stack'[i].kind = "new"
          PROVE  /\ stack'[i].tensor \notin Done'
                 /\ \A k \in 1 .. Len(src[stack'[i].tensor]) :
                       k < stack'[i].next => SourceAt(stack'[i], k) \in Done'
      <4>1. /\ i \in 1 .. n /\ stack[i].kind = "new" /\ stack[i] \in Frame
            /\ stack'[i].tensor = stack[i].tensor
        BY <2>1, <2>3, <3>2 DEF StackInv
      <4>2. stack'[i].tensor \notin Done'
        BY <2>4, <2>7, <4>1 DEF WalkInv
      <4>3. ASSUME NEW k \in 1 .. Len(src[stack[i].tensor]), k < stack'[i].next
            PROVE  SourceAt(stack[i], k) \in Done'
        <5>1. CASE k < stack[i].next
          BY <2>7, <4>1, <5>1 DEF WalkInv
        <5>2. CASE ~(k < stack[i].next)
          <6>1. i = n - 1
            <7>1. i \notin 1 .. n - 2
              BY <2>3, <4>3, <5>2
            <7>2. QED BY <2>1, <7>1
          <6>2. k = stack[i].next
            <7>1. stack'[i].next = stack[i].next + 1
              BY <2>3, <6>1
            <7>2. stack[i].next \in Nat
              BY <4>1 DEF Frame
            <7>3. QED BY <4>3, <5>2, <7>1, <7>2
          <6>3. stack[n].tensor = Source(stack[i])
            BY <2>1, <6>1 DEF StackInv
          <6>4. QED BY <2>1, <2>7, <6>2, <6>3 DEF Source, T
        <5>3. QED BY <5>1, <5>2
      <4>4. \A k : SourceAt(stack'[i], k) = SourceAt(stack[i], k)
        BY <2>3 DEF SourceAt
      <4>5. QED BY <4>1, <4>2, <4>3, <4>4
    <3>3. QED BY <2>1, <2>3, <3>1, <3>2 DEF WalkInv, SourceAt
  <2>11. QED BY <2>7, <2>8, <2>9, <2>10
<1>3. QED BY <1>1, <1>2
-----------------------------------------------------------------------------
(* Between builds no call is under way, so what was visited is in the      *)
(* graph, and a tensor made now changes nothing that is known of the rest. *)
LEMMA NewTensorKeepsInv ==
  ASSUME Inv, NEW o \in {"none", "param", "op"}, NEW s \in SourceLists, NewTensor(o, s)
  PROVE  Inv'
<1> USE DEF Inv
<1>1. /\ src' = Append(src, s) /\ stack = <<>> /\ pending = <<>>
      /\ UNCHANGED <<order, nodes, leafs, visited, stack, pending>>
  BY DEF NewTensor, Idle, graph
<1>2. PICK m \in 0 .. MaxSrc : s \in [1 .. m -> Tensors]
  BY DEF SourceLists
<1>3. /\ m \in Nat /\ Len(s) = m /\ s \in Seq(Nat)
      /\ \A i \in 1 .. m : s[i] \in 1 .. Len(src)
  <2>1. m \in Nat
    BY GraphAssumption
  <2>2. s \in Seq(Tensors) /\ Len(s) = m
    BY <1>2, <2>1
  <2>3. Tensors \subseteq Nat
    BY DEF Tensors, TensorsInv
  <2>4. QED BY <1>2, <2>1, <2>2, <2>3 DEF Tensors
<1>4. /\ src' \in Seq(Seq(Nat)) /\ Len(src') = Len(src) + 1 /\ Len(src) \in Nat
      /\ src'[Len(src) + 1] = s
      /\ \A t \in 1 .. Len(src) : src'[t] = src[t]
  BY <1>1, <1>3 DEF TensorsInv
<1>5. TensorsInv'
  <2>1. ASSUME NEW t \in 1 .. Len(src) + 1, NEW i \in 1 .. Len(src'[t])
        PROVE  src'[t][i] \in 1 .. t - 1
    <3>1. CASE t = Len(src) + 1
      BY <1>3, <1>4, <2>1, <3>1
    <3>2. CASE t # Len(src) + 1
      <4>1. t \in 1 .. Len(src) /\ src'[t] = src[t]
        BY <1>4, <3>2
      <4>2. QED BY <2>1, <4>1 DEF TensorsInv, Tensors
    <3>3. QED BY <3>1, <3>2
  <2>2. QED BY <1>4, <2>1 DEF TensorsInv, Tensors
<1>6. Tensors \subseteq Tensors' /\ Done' = Done
  BY <1>1, <1>4 DEF Tensors, Done, Elements
<1>7. GraphInv'
  BY <1>1, <1>6 DEF GraphInv
<1>8. StackInv'
  BY <1>1 DEF StackInv
<1>9. WalkInv'
  BY <1>1, <1>6 DEF WalkInv
<1>10. SourcesFirst'
  <2>1. \A i \in 1 .. Len(nodes) : nodes[i] \in 1 .. Len(src)
    BY DEF GraphInv, Done, Elements, Tensors
  <2>2. \A i \in 1 .. Len(nodes) : Sources(nodes[i])' = Sources(nodes[i])
    BY <1>1, <1>4, <2>1 DEF Sources
  <2>3. Elements(leafs)' = Elements(leafs)
    BY <1>1 DEF Elements
  <2>4. QED BY <1>1, <2>2, <2>3 DEF SourcesFirst
<1>11. NoDuplicates'
  BY <1>1 DEF NoDuplicates
<1>12. QED BY <1>5, <1>7, <1>8, <1>9, <1>10, <1>11

(* The builds a call asks for are for tensors that exist.                  *)
LEMMA RequestKeepsInv ==
  ASSUME Inv, stack = <<>>, pending' \in Seq(Build),
         \A i \in 1 .. Len(pending') : pending'[i].tensor \in Tensors,
         UNCHANGED <<src, order, nodes, leafs, visited, stack>>
  PROVE  Inv'
<1> USE DEF Inv
<1>1. TensorsInv' /\ GraphInv'
  BY DEF TensorsInv, GraphInv, Tensors, Done, Elements
<1>2. StackInv'
  BY DEF StackInv, Tensors
<1>3. WalkInv'
  BY DEF WalkInv, Done, Elements
<1>4. SourcesFirst'
  <2>1. /\ \A t : Sources(t)' = Sources(t)
        /\ Elements(leafs)' = Elements(leafs)
    BY DEF Sources, Elements
  <2>2. QED BY <2>1 DEF SourcesFirst
<1>5. NoDuplicates'
  BY DEF NoDuplicates
<1>6. QED BY <1>1, <1>2, <1>3, <1>4, <1>5

(* ggml_build_forward_expand() asks for one walk.                          *)
LEMMA ForwardExpandKeepsInv ==
  ASSUME Inv, NEW t \in Tensors, BuildForwardExpand(t) PROVE Inv'
<1> DEFINE b == [tensor |-> t, compute |-> TRUE]
<1>1. pending' = <<b>> /\ b \in Build
  BY DEF BuildForwardExpand, Build, Tensors, Inv, TensorsInv
<1>2. b.tensor = t
  OBVIOUS
<1> HIDE DEF b
<1>3. pending' \in Seq(Build) /\ \A i \in 1 .. Len(pending') : pending'[i].tensor \in Tensors
  BY <1>1, <1>2
<1>4. QED BY <1>3, RequestKeepsInv DEF BuildForwardExpand, Idle, tensors, graph

(* ggml_build_forward_select() asks for one walk for every branch.         *)
LEMMA ForwardSelectKeepsInv ==
  ASSUME Inv, NEW t \in Tensors, NEW u \in Tensors, NEW idx \in 1 .. 2,
         BuildForwardSelect(<<t, u>>, idx)
  PROVE  Inv'
<1> DEFINE ts == <<t, u>>
<1> DEFINE b(i) == [tensor |-> ts[i], compute |-> i = idx]
<1>1. Len(ts) = 2 /\ \A i \in 1 .. 2 : ts[i] \in Tensors /\ ts[i] \in Nat
  BY DEF Tensors, Inv, TensorsInv
<1>2. pending' = [i \in 1 .. 2 |-> b(i)]
  BY <1>1 DEF BuildForwardSelect
<1>3. \A i \in 1 .. 2 : b(i) \in Build /\ b(i).tensor \in Tensors
  <2> HIDE DEF ts
  <2>1. QED BY <1>1 DEF Build
<1> HIDE DEF b
<1>4. pending' \in Seq(Build) /\ \A i \in 1 .. Len(pending') : pending'[i].tensor \in Tensors
  BY <1>2, <1>3
<1>5. QED BY <1>4, RequestKeepsInv DEF BuildForwardSelect, Idle, tensors, graph

(* ggml_graph_clear() forgets all that was visited.                        *)
LEMMA GraphClearKeepsInv == Inv /\ GraphClear => Inv'
<1> SUFFICES ASSUME Inv, GraphClear PROVE Inv'
  OBVIOUS
<1> USE DEF Inv
<1>1. /\ nodes' = <<>> /\ leafs' = <<>> /\ visited' = {} /\ stack = <<>>
      /\ UNCHANGED <<src, order, stack, pending>>
  BY DEF GraphClear, Idle, tensors
<1>2. TensorsInv' /\ GraphInv'
  BY <1>1 DEF TensorsInv, GraphInv, Tensors, Done, Elements
<1>3. StackInv'
  BY <1>1 DEF StackInv, Tensors
<1>4. WalkInv' /\ SourcesFirst' /\ NoDuplicates'
  BY <1>1 DEF WalkInv, SourcesFirst, NoDuplicates
<1>5. QED BY <1>2, <1>3, <1>4

(* The first call of a walk.                                               *)
LEMMA BeginKeepsInv == Inv /\ Begin => Inv'
<1> SUFFICES ASSUME Inv, Begin PROVE Inv'
  OBVIOUS
<1> DEFINE t == Head(pending).tensor
<1> DEFINE c == Head(pending).compute
<1>1. pending \in Seq(Build) /\ pending # <<>> /\ stack = <<>>
  BY DEF Begin, Inv, StackInv
<1>2. Head(pending) \in Build /\ Head(pending) = pending[1] /\ 1 \in 1 .. Len(pending)
  BY <1>1
<1>3. t \in Tensors /\ c \in BOOLEAN
  <2>1. t \in Tensors
    BY <1>2 DEF Inv, StackInv
  <2>2. c \in BOOLEAN
    BY <1>2 DEF Build
  <2>3. QED BY <2>1, <2>2
<1>4. Call(t, c) /\ UNCHANGED <<src, order, nodes, leafs, pending>>
  BY DEF Begin, tensors
<1> HIDE DEF t, c
<1>5. QED BY <1>1, <1>3, <1>4, CallKeepsInv

(* A call for a source: it is older than the tensor whose source it is.    *)
LEMMA DescendKeepsInv == Inv /\ Descend => Inv'
<1> SUFFICES ASSUME Inv, Descend PROVE Inv'
  OBVIOUS
<1> DEFINE t == Source(Top)
<1> DEFINE c == Top.compute
<1>1. stack # <<>> /\ pending # <<>> /\ ~LoopEnds(Top)
  BY DEF Descend, Inv, StackInv
<1>2. Top \in Frame /\ Top.tensor \in Tensors
  BY <1>1 DEF Top, Inv, StackInv, GraphInv
<1>3. t \in Tensors
  <2>1. t \in 1 .. Top.tensor - 1
    BY <1>1, <1>2, SourceIsOlder DEF Inv
  <2>2. QED BY <1>2, <2>1 DEF Tensors, Inv, TensorsInv
<1>4. c \in BOOLEAN
  BY <1>2 DEF Frame
<1>5. Call(t, c) /\ UNCHANGED <<src, order, nodes, leafs, pending>>
  BY DEF Descend, tensors
<1>6. t = Source(Top)
  OBVIOUS
<1> HIDE DEF t, c
<1>7. QED BY <1>1, <1>3, <1>4, <1>5, <1>6, CallKeepsInv

(* The invariant is inductive.                                             *)
LEMMA StepInv == Inv /\ [Next]_vars => Inv'
<1> SUFFICES ASSUME Inv, [Next]_vars PROVE Inv'
  OBVIOUS
<1>1. CASE \E o \in {"none", "param", "op"}, s \in SourceLists : NewTensor(o, s)
  BY <1>1, NewTensorKeepsInv
<1>2. CASE \E t \in Tensors : BuildForwardExpand(t)
  BY <1>2, ForwardExpandKeepsInv
<1>3. CASE \E t, u \in Tensors, idx \in 1 .. 2 : BuildForwardSelect(<<t, u>>, idx)
  BY <1>3, ForwardSelectKeepsInv
<1>4. CASE GraphClear
  BY <1>4, GraphClearKeepsInv
<1>5. CASE Begin
  BY <1>5, BeginKeepsInv
<1>6. CASE Descend
  BY <1>6, DescendKeepsInv
<1>7. CASE Skip
  BY <1>7, SkipKeepsInv
<1>8. CASE Return
  BY <1>8, ReturnKeepsInv
<1>9. CASE UNCHANGED vars
  BY <1>9, UnchangedInv DEF vars, tensors, graph
<1>10. QED BY <1>1, <1>2, <1>3, <1>4, <1>5, <1>6, <1>7, <1>8, <1>9 DEF Next, Walk

-----------------------------------------------------------------------------
(* What a call that is made leaves: one more frame, at its first turn.     *)
LEMMA CallEffect ==
  ASSUME Inv, NEW t \in Tensors, NEW c \in BOOLEAN, Call(t, c), ~aborted'
  PROVE  /\ visited' = visited \cup {t}
         /\ use_counts' = CountsWith(t)
         /\ Len(stack) \in Nat /\ Len(stack') = Len(stack) + 1
         /\ \A i \in 1 .. Len(stack) : stack'[i] = stack[i]
         /\ stack'[Len(stack) + 1] \in Frame
         /\ stack'[Len(stack) + 1].tensor = t
         /\ stack'[Len(stack) + 1].next = 1
         /\ stack'[Len(stack) + 1].compute = c
         /\ stack'[Len(stack) + 1].kind = "new" <=> t \notin visited
         /\ stack'[Len(stack) + 1].kind = "known" => ~c
<1> DEFINE f == [tensor |-> t, next |-> 1, compute |-> c,
                 kind |-> IF t \notin visited THEN "new" ELSE IF c THEN "again" ELSE "known"]
<1>1. /\ visited' = visited \cup {t}
      /\ use_counts' = CountsWith(t)
      /\ stack' = Append(stack, f)
  BY DEF Call
<1>2. /\ f \in Frame /\ f.tensor = t /\ f.next = 1 /\ f.compute = c
      /\ (f.kind = "new" <=> t \notin visited) /\ (f.kind = "known" => ~c)
  BY DEF Tensors, Frame, Inv, TensorsInv
<1> HIDE DEF f
<1>3. /\ Len(stack) \in Nat /\ Len(stack') = Len(stack) + 1
      /\ \A i \in 1 .. Len(stack) : stack'[i] = stack[i]
      /\ stack'[Len(stack) + 1] = f
  BY <1>1, <1>2 DEF Inv, StackInv
<1>4. QED BY <1>1, <1>2, <1>3

(* The two calls there are.                                                *)
LEMMA BeginCalls ==
  ASSUME Inv, Begin
  PROVE  /\ ~aborted /\ stack = <<>>
         /\ Head(pending).tensor \in Tensors /\ Head(pending).compute \in BOOLEAN
         /\ Call(Head(pending).tensor, Head(pending).compute)
         /\ UNCHANGED <<op, src, order, nodes, leafs>>
<1>1. Head(pending) \in Build /\ Head(pending) = pending[1] /\ 1 \in 1 .. Len(pending)
  BY DEF Begin, Inv, StackInv
<1>2. Head(pending).tensor \in Tensors
  BY <1>1 DEF Inv, StackInv
<1>3. Head(pending).compute \in BOOLEAN
  BY <1>1 DEF Build
<1>4. QED BY <1>2, <1>3 DEF Begin, tensors

LEMMA DescendCalls ==
  ASSUME Inv, Descend
  PROVE  /\ ~aborted /\ Len(stack) \in Nat \ {0} /\ Top = stack[Len(stack)]
         /\ Top.tensor \in visited
         /\ Source(Top) \in Tensors /\ Source(Top) \in Sources(Top.tensor)
         /\ Top.compute \in BOOLEAN
         /\ Call(Source(Top), Top.compute)
         /\ UNCHANGED <<op, src, order, nodes, leafs, requested, wanted>>
<1>1. /\ stack # <<>> /\ ~LoopEnds(Top) /\ ~aborted /\ Call(Source(Top), Top.compute)
      /\ UNCHANGED <<op, src, order, nodes, leafs, requested, wanted>>
  BY DEF Descend, tensors, ghosts
<1>2. /\ Len(stack) \in Nat \ {0} /\ Top = stack[Len(stack)] /\ Top \in Frame
      /\ Top.tensor \in Tensors /\ Top.tensor \in visited
  BY <1>1 DEF Top, Inv, StackInv, GraphInv
<1>3. Top.compute \in BOOLEAN
  BY <1>2 DEF Frame
<1>4. Source(Top) \in Sources(Top.tensor)
  BY <1>1, <1>2, SourceIsASource DEF Inv
<1>5. Source(Top) \in Tensors
  BY <1>2, <1>4, SourcesAreTensors DEF Inv
<1>6. QED BY <1>1, <1>2, <1>3, <1>4, <1>5

(* What passing over a source leaves: the topmost call one turn further on.*)
LEMMA SkipEffect ==
  ASSUME Inv, Skip
  PROVE  /\ UNCHANGED <<src, op, order, nodes, leafs, visited, use_counts, compute,
                        requested, wanted, aborted>>
         /\ Len(stack) \in Nat \ {0} /\ Len(stack') = Len(stack)
         /\ \A i \in 1 .. Len(stack) :
               /\ stack'[i].tensor = stack[i].tensor
               /\ stack'[i].kind = stack[i].kind
               /\ stack'[i].compute = stack[i].compute
               /\ stack[i].tensor \in Tensors
         /\ \A i \in 1 .. Len(stack) - 1 : stack'[i] = stack[i]
         /\ stack[Len(stack)] \in Frame
         /\ stack[Len(stack)].kind = "again"
         /\ Source(stack[Len(stack)]) \in compute
         /\ stack'[Len(stack)].next = stack[Len(stack)].next + 1
<1> DEFINE n == Len(stack)
<1>1. /\ n \in Nat \ {0} /\ n \in 1 .. n /\ \A i \in 1 .. n : stack[i] \in Frame
      /\ stack[n].kind = "again" /\ Source(stack[n]) \in compute
      /\ UNCHANGED <<src, op, order, nodes, leafs, visited, use_counts, compute,
                     requested, wanted, aborted>>
  BY DEF Skip, Top, Inv, StackInv, tensors, graph, ghosts
<1>2. \A i \in 1 .. n : stack[i].tensor \in Tensors
  BY DEF Inv, StackInv, GraphInv
<1>3. stack' = [stack EXCEPT ![n] = [stack[n] EXCEPT !.next = @ + 1]]
  BY DEF Skip
<1>4. /\ Len(stack') = n
      /\ \A i \in 1 .. n - 1 : stack'[i] = stack[i]
      /\ stack'[n] = [stack[n] EXCEPT !.next = @ + 1]
  BY <1>1, <1>3 DEF Inv, StackInv
<1>5. /\ stack'[n].tensor = stack[n].tensor /\ stack'[n].kind = stack[n].kind
      /\ stack'[n].compute = stack[n].compute /\ stack'[n].next = stack[n].next + 1
  BY <1>1, <1>4 DEF Frame
<1>6. \A i \in 1 .. n : i = n \/ i \in 1 .. n - 1
  BY <1>1
<1>7. \A i \in 1 .. n : /\ stack'[i].tensor = stack[i].tensor
                        /\ stack'[i].kind = stack[i].kind
                        /\ stack'[i].compute = stack[i].compute
  BY <1>4, <1>5, <1>6
<1>8. QED BY <1>1, <1>2, <1>4, <1>5, <1>7

(* A new tensor comes after all there are, which stay what they are.       *)
LEMMA NewTensorEffect ==
  ASSUME Inv, NEW o \in {"none", "param", "op"}, NEW s \in SourceLists, NewTensor(o, s)
  PROVE  /\ UNCHANGED <<order, nodes, leafs, visited, use_counts, stack, compute,
                        requested, wanted, aborted>>
         /\ stack = <<>> /\ ~aborted
         /\ Len(src) \in Nat /\ Len(src') = Len(src) + 1 /\ src'[Len(src) + 1] = s
         /\ \A t \in Tensors : src'[t] = src[t] /\ Sources(t)' = Sources(t)
         /\ Tensors \subseteq Tensors'
<1>1. /\ src' = Append(src, s)
      /\ UNCHANGED <<order, nodes, leafs, visited, use_counts, stack, compute,
                     requested, wanted, aborted>>
      /\ stack = <<>> /\ ~aborted
  BY DEF NewTensor, Idle, graph, ghosts
<1>2. PICK m \in 0 .. MaxSrc : s \in [1 .. m -> Tensors]
  BY DEF SourceLists
<1>3. s \in Seq(Nat)
  <2>1. m \in Nat /\ Tensors \subseteq Nat
    BY GraphAssumption DEF Tensors, Inv, TensorsInv
  <2>2. s \in [1 .. m -> Nat]
    BY <1>2, <2>1
  <2>3. QED BY <2>1, <2>2
<1>4. /\ Len(src) \in Nat /\ Len(src') = Len(src) + 1 /\ src'[Len(src) + 1] = s
      /\ \A t \in Tensors : src'[t] = src[t]
  BY <1>1, <1>3 DEF Inv, TensorsInv, Tensors
<1>5. \A t \in Tensors : Sources(t)' = Sources(t)
  BY <1>4 DEF Sources
<1>6. Tensors \subseteq Tensors'
  BY <1>4 DEF Tensors
<1>7. QED BY <1>1, <1>4, <1>5, <1>6
-----------------------------------------------------------------------------
(* A tensor that no operation makes has nothing it is made from.           *)
LEMMA InitOps == Init => OpsInv
BY DEF Init, OpsInv, Tensors

LEMMA StepOps == Inv /\ OpsInv /\ [Next]_vars => OpsInv'
<1> SUFFICES ASSUME Inv, OpsInv, [Next]_vars PROVE OpsInv'
  OBVIOUS
<1>1. CASE UNCHANGED <<op, src>>
  BY <1>1 DEF OpsInv, Tensors
<1>2. ASSUME NEW o \in {"none", "param", "op"}, NEW s \in SourceLists, NewTensor(o, s)
      PROVE  OpsInv'
  <2>1. /\ Len(src) \in Nat /\ Len(src') = Len(src) + 1 /\ src'[Len(src) + 1] = s
        /\ \A t \in Tensors : src'[t] = src[t]
    BY <1>2, NewTensorEffect
  <2>2. op' = Append(op, o) /\ (o # "op" => s = <<>>)
    BY <1>2 DEF NewTensor
  <2>3. /\ op' \in Seq({"none", "param", "op"})
        /\ Len(op') = Len(op) + 1 /\ op'[Len(op) + 1] = o
        /\ \A t \in 1 .. Len(op) : op'[t] = op[t]
    BY <2>2 DEF OpsInv
  <2>4. \A t \in Tensors' : t = Len(src) + 1 \/ t \in Tensors
    BY <2>1 DEF Tensors
  <2>5. \A t \in Tensors' : op'[t] # "op" => src'[t] = <<>>
    BY <2>1, <2>2, <2>3, <2>4 DEF OpsInv, Tensors
  <2>6. QED BY <2>1, <2>3, <2>5 DEF OpsInv
<1>3. QED BY <1>1, <1>2 DEF Next, vars, tensors, Walk, BuildForwardExpand, BuildForwardSelect,
                          GraphClear, Begin, Descend, Skip, Return

-----------------------------------------------------------------------------
(* Which sets are closed depends on the tensors alone.                     *)
LEMMA ClosedStays ==
  ASSUME UNCHANGED src
  PROVE  /\ Tensors' = Tensors
         /\ \A u : Sources(u)' = Sources(u)
         /\ \A C : Closed(C)' <=> Closed(C)
BY DEF Tensors, Sources, Closed

LEMMA InitComplete == Init => CompleteInv
BY DEF Init, CompleteInv, Done, Elements

(* A call visits what is built, or a source of what is visited.            *)
LEMMA CallKeepsComplete ==
  ASSUME Inv, CompleteInv, NEW t \in Tensors, NEW c \in BOOLEAN, Call(t, c), ~aborted,
         UNCHANGED <<src, nodes, leafs>>,
         requested \subseteq requested', requested' \subseteq requested \cup {t},
         t \in requested' \/ \E u \in visited : t \in Sources(u)
  PROVE  CompleteInv'
<1>1. Done' = Done
  BY DEF Done, Elements
<1>2. \A u \in Done' : Sources(u)' \subseteq Done'
  BY <1>1, ClosedStays DEF CompleteInv
<1>3. CASE aborted'
  BY <1>2, <1>3 DEF CompleteInv
<1>4. CASE ~aborted'
  <2>1. visited' = visited \cup {t}
    BY <1>4, CallEffect
  <2>2. requested' \subseteq visited'
    BY <2>1 DEF CompleteInv
  <2>3. ASSUME NEW C \in SUBSET Tensors, requested' \subseteq C, Closed(C)
        PROVE  visited' \subseteq C
    <3>1. visited \subseteq C
      BY <2>3 DEF CompleteInv
    <3>2. t \in C
      BY <2>3, <3>1 DEF Closed
    <3>3. QED BY <2>1, <3>1, <3>2
  <2>4. QED BY <1>2, <2>2, <2>3, ClosedStays DEF CompleteInv
<1>5. QED BY <1>3, <1>4

LEMMA StepComplete == Inv /\ CompleteInv /\ [Next]_vars => CompleteInv'
<1> SUFFICES ASSUME Inv, CompleteInv, [Next]_vars PROVE CompleteInv'
  OBVIOUS
<1>1. CASE UNCHANGED <<src, nodes, leafs, visited, requested, aborted>>
  <2>1. Done' = Done
    BY <1>1 DEF Done, Elements
  <2>2. QED BY <1>1, <2>1, ClosedStays DEF CompleteInv
<1>2. ASSUME NEW o \in {"none", "param", "op"}, NEW s \in SourceLists, NewTensor(o, s)
      PROVE  CompleteInv'
  <2>1. /\ UNCHANGED <<nodes, leafs, visited, requested, aborted>> /\ ~aborted
        /\ \A t \in Tensors : Sources(t)' = Sources(t)
        /\ Tensors \subseteq Tensors'
    BY <1>2, NewTensorEffect
  <2>2. Done' = Done /\ Done \subseteq Tensors
    BY <2>1 DEF Done, Elements, Inv, GraphInv
  <2>3. \A t \in Done' : Sources(t)' \subseteq Done'
    BY <2>1, <2>2 DEF CompleteInv
  <2>4. ASSUME NEW C \in SUBSET Tensors', requested \subseteq C, Closed(C)'
        PROVE  visited \subseteq C
    <3> DEFINE D == C \cap Tensors
    <3>1. requested \subseteq D
      BY <2>1, <2>4 DEF CompleteInv, Inv, GraphInv
    <3>2. ASSUME NEW t \in D PROVE Sources(t) \subseteq D
      <4>1. Sources(t) \subseteq Tensors
        BY SourcesAreTensors DEF Inv
      <4>2. Sources(t) = Sources(t)' /\ Sources(t)' \subseteq C
        BY <2>1, <2>4 DEF Closed
      <4>3. QED BY <4>1, <4>2
    <3>3. Closed(D)
      BY <3>2 DEF Closed
    <3>4. QED BY <2>1, <3>1, <3>3 DEF CompleteInv
  <2>5. QED BY <2>1, <2>3, <2>4 DEF CompleteInv
<1>3. CASE GraphClear
  <2>1. Done' = {} /\ requested' = {} /\ visited' = {}
    BY <1>3 DEF GraphClear, Done, Elements
  <2>2. QED BY <2>1 DEF CompleteInv
<1>4. CASE Begin
  <2> DEFINE t == Head(pending).tensor
             c == Head(pending).compute
  <2>1. requested' = requested \cup {t}
    BY <1>4 DEF Begin
  <2>2. /\ t \in Tensors /\ c \in BOOLEAN /\ Call(t, c) /\ ~aborted
        /\ UNCHANGED <<src, nodes, leafs>>
    BY <1>4, BeginCalls
  <2> HIDE DEF t, c
  <2>3. QED BY <2>1, <2>2, CallKeepsComplete
<1>5. CASE Descend
  <2> DEFINE t == Source(Top)
             c == Top.compute
  <2>1. /\ t \in Tensors /\ c \in BOOLEAN /\ Call(t, c) /\ ~aborted
        /\ Top.tensor \in visited /\ t \in Sources(Top.tensor)
        /\ UNCHANGED <<src, nodes, leafs, requested>>
    BY <1>5, DescendCalls
  <2> HIDE DEF t, c
  <2>2. QED BY <2>1, CallKeepsComplete
<1>6. CASE Skip
  BY <1>1, <1>6, SkipEffect
<1>7. CASE Return
  <2>1. CASE Top.kind = "new" /\ ~HasRoom(Top.tensor)
    <3>1. aborted' /\ UNCHANGED <<src, nodes, leafs>>
      BY <1>7, <2>1 DEF Return, graph, tensors
    <3>2. Done' = Done
      BY <3>1 DEF Done, Elements
    <3>3. QED BY <3>1, <3>2, ClosedStays DEF CompleteInv
  <2>2. CASE ~(Top.kind = "new" /\ ~HasRoom(Top.tensor))
    <3>1. /\ UNCHANGED <<src, visited, requested>> /\ Done' = Done \cup {Top.tensor}
          /\ Top.kind # "new" => Top.tensor \in Done
          /\ Top.kind = "new" => \A s \in Sources(Top.tensor) : s \in Done
      BY <1>7, <2>2, ReturnEffect
    <3>2. \A t \in Done' : Sources(t)' \subseteq Done'
      BY <3>1, ClosedStays DEF CompleteInv
    <3>3. ~aborted
      BY <1>7 DEF Return
    <3>4. QED BY <3>1, <3>2, <3>3, ClosedStays DEF CompleteInv
  <2>3. QED BY <2>1, <2>2
<1>8. CASE UNCHANGED vars
  BY <1>1, <1>8 DEF vars, tensors, graph, ghosts
<1>9. CASE \E t \in Tensors : BuildForwardExpand(t)
  BY <1>1, <1>9 DEF BuildForwardExpand, tensors, graph, ghosts
<1>10. CASE \E t, u \in Tensors, idx \in 1 .. 2 : BuildForwardSelect(<<t, u>>, idx)
  BY <1>1, <1>10 DEF BuildForwardSelect, tensors, graph, ghosts
<1>11. QED BY <1>2, <1>3, <1>4, <1>5, <1>6, <1>7, <1>8, <1>9, <1>10 DEF Next, Walk

-----------------------------------------------------------------------------
(* Every source has its turn, in either order.                             *)
LEMMA TurnBack ==
  ASSUME TensorsInv, NEW u \in Tensors, NEW k \in 1 .. Len(src[u])
  PROVE  Turn(u, k) \in 1 .. Len(src[u]) /\ Turn(u, Turn(u, k)) = k
<1>1. Len(src[u]) \in Nat
  BY DEF TensorsInv, Tensors
<1>2. QED BY <1>1 DEF Turn

(* A use that the walks have come past is of a tensor in the graph.        *)
LEMMA PassedIsDone ==
  ASSUME Inv, CompleteInv, NEW u \in visited, NEW k \in 1 .. Len(src[u]), Passed(u, k)
  PROVE  src[u][k] \in Done
<1>1. u \in Tensors
  BY DEF Inv, GraphInv
<1>2. CASE u \in Done
  BY <1>2 DEF CompleteInv, Sources
<1>3. CASE u \notin Done
  <2>1. PICK i \in 1 .. Len(stack) : /\ stack[i].kind = "new" /\ stack[i].tensor = u
                                     /\ Turn(u, k) < stack[i].next
    BY <1>3 DEF Passed
  <2>2. Turn(u, k) \in 1 .. Len(src[u]) /\ Turn(u, Turn(u, k)) = k
    BY <1>1, TurnBack DEF Inv
  <2>3. SourceAt(stack[i], Turn(u, k)) \in Done
    BY <2>1, <2>2 DEF Inv, WalkInv
  <2>4. SourceAt(stack[i], Turn(u, k)) = src[u][Turn(u, Turn(u, k))]
    BY <2>1 DEF SourceAt, Turn
  <2>5. QED BY <2>2, <2>3, <2>4
<1>4. QED BY <1>2, <1>3

(* As long as no more is passed, there are as many uses.                   *)
LEMMA SamePassedUses ==
  ASSUME \A u \in visited : src'[u] = src[u],
         visited \subseteq visited',
         \A u \in visited : \A k \in 1 .. Len(src[u]) : Passed(u, k)' <=> Passed(u, k),
         \A u \in visited' \ visited : \A k \in 1 .. Len(src'[u]) : ~Passed(u, k)'
  PROVE  \A t : PassedUses(t)' = PassedUses(t)
<1> SUFFICES ASSUME NEW t PROVE PassedUses(t)' = PassedUses(t)
  OBVIOUS
<1>1. \A u \in visited : PassedAt(u, t)' = PassedAt(u, t)
  BY DEF PassedAt
<1>2. \A u \in visited' \ visited : PassedAt(u, t)' = {}
  BY DEF PassedAt
<1>3. PassedUses(t)' = UNION {{<<u, k>> : k \in PassedAt(u, t)'} : u \in visited'}
  BY DEF PassedUses
<1>4. \A u \in visited : {<<u, k>> : k \in PassedAt(u, t)'} = {<<u, k>> : k \in PassedAt(u, t)}
  BY <1>1
<1>5. \A u \in visited' \ visited : {<<u, k>> : k \in PassedAt(u, t)'} = {}
  BY <1>2
<1>6. QED BY <1>3, <1>4, <1>5 DEF PassedUses

LEMMA SameUseInv ==
  ASSUME UseInv, UNCHANGED <<visited, use_counts>>,
         \A u \in visited : src'[u] = src[u],
         \A u \in visited : \A k \in 1 .. Len(src[u]) : Passed(u, k)' <=> Passed(u, k)
  PROVE  UseInv'
<1>1. \A t : PassedUses(t)' = PassedUses(t)
  BY SamePassedUses
<1>2. QED BY <1>1 DEF UseInv

LEMMA InitUse == Init => UseInv
BY DEF Init, UseInv

(* A call has passed nothing, and nothing passed is new.                   *)
LEMMA CallKeepsUse ==
  ASSUME Inv, CompleteInv, UseInv, NEW t \in Tensors, NEW c \in BOOLEAN, Call(t, c),
         ~aborted, UNCHANGED <<src, order, nodes, leafs>>
  PROVE  UseInv'
<1> DEFINE n == Len(stack)
<1>1. Done' = Done
  BY DEF Done, Elements
<1>2. CASE UNCHANGED <<visited, use_counts, stack>>
  <2>1. \A u, k : Passed(u, k)' <=> Passed(u, k)
    BY <1>1, <1>2 DEF Passed, Turn
  <2>2. QED BY <1>2, <2>1, SameUseInv
<1>3. CASE ~aborted'
  <2>1. /\ visited' = visited \cup {t}
        /\ use_counts' = CountsWith(t)
        /\ n \in Nat /\ Len(stack') = n + 1
        /\ \A i \in 1 .. n : stack'[i] = stack[i]
        /\ stack'[n + 1].tensor = t /\ stack'[n + 1].next = 1
    BY <1>3, CallEffect
  <2>2. \A u, k : Turn(u, k)' = Turn(u, k)
    BY DEF Turn
  <2>3. ASSUME NEW u \in visited', NEW k \in 1 .. Len(src[u])
        PROVE  Passed(u, k)' <=> Passed(u, k)
    <3>1. u \in Tensors
      BY <2>1 DEF Inv, GraphInv
    <3>2. ~(Turn(u, k) < stack'[n + 1].next)
      <4>1. Turn(u, k) \in 1 .. Len(src[u])
        BY <3>1, TurnBack DEF Inv
      <4>2. QED BY <2>1, <4>1
    <3>3. (\E i \in 1 .. n + 1 : /\ stack'[i].kind = "new" /\ stack'[i].tensor = u
                                 /\ Turn(u, k) < stack'[i].next)
          <=> (\E i \in 1 .. n : /\ stack[i].kind = "new" /\ stack[i].tensor = u
                                 /\ Turn(u, k) < stack[i].next)
      <4>1. \A i \in 1 .. n + 1 : i = n + 1 \/ i \in 1 .. n
        BY <2>1
      <4>2. \A i \in 1 .. n : i \in 1 .. n + 1
        BY <2>1
      <4>3. QED BY <2>1, <3>2, <4>1, <4>2
    <3>4. QED BY <1>1, <2>1, <2>2, <3>3 DEF Passed
  <2>4. ASSUME NEW u \in visited' \ visited, NEW k \in 1 .. Len(src'[u])
        PROVE  ~Passed(u, k)'
    <3>1. u \notin Done
      BY DEF Inv, GraphInv
    <3>2. \A i \in 1 .. n : stack[i].tensor # u
      BY DEF Inv, StackInv
    <3>3. ~Passed(u, k)
      BY <3>1, <3>2 DEF Passed
    <3>4. QED BY <2>3, <3>3
  <2>5. \A x : PassedUses(x)' = PassedUses(x)
    BY <2>1, <2>3, <2>4, SamePassedUses
  <2>6. t \notin visited => PassedUses(t) = {}
    <3> SUFFICES ASSUME t \notin visited, NEW u \in visited, NEW k \in PassedAt(u, t)
                 PROVE  FALSE
      BY DEF PassedUses
    <3>1. src[u][k] \in Done
      BY PassedIsDone DEF PassedAt
    <3>2. QED BY <3>1 DEF PassedAt, Inv, GraphInv
  <2>7. /\ use_counts' \in [DOMAIN use_counts' -> Nat]
        /\ visited' \subseteq DOMAIN use_counts'
        /\ \A x \in visited' : use_counts'[x] = IF x \in visited THEN use_counts[x] ELSE 0
    <3>1. \A x \in DOMAIN use_counts : use_counts[x] \in Nat
      BY DEF UseInv
    <3>2. DOMAIN use_counts' = DOMAIN use_counts \cup {t} /\ visited \subseteq DOMAIN use_counts
      BY <2>1 DEF CountsWith, UseInv
    <3>3. \A x \in DOMAIN use_counts' : use_counts'[x] =
            IF x = t /\ t \notin visited THEN 0 ELSE use_counts[x]
      BY <2>1, <3>2 DEF CountsWith
    <3>4. \A x \in DOMAIN use_counts' : use_counts'[x] \in Nat
      BY <3>1, <3>2, <3>3 DEF UseInv
    <3>5. use_counts' = [x \in DOMAIN use_counts' |-> use_counts'[x]]
      BY <2>1 DEF CountsWith
    <3>6. QED BY <2>1, <3>2, <3>3, <3>4, <3>5
  <2>8. ASSUME NEW x \in visited'
        PROVE  IsFiniteSet(PassedUses(x)) /\ use_counts'[x] = Cardinality(PassedUses(x))
    <3>1. CASE x \in visited
      BY <2>7, <3>1 DEF UseInv
    <3>2. CASE x \notin visited
      <4>1. x = t /\ PassedUses(x) = {} /\ use_counts'[x] = 0
        BY <2>1, <2>6, <2>7, <3>2
      <4>2. QED BY <4>1, FS_EmptySet
    <3>3. QED BY <3>1, <3>2
  <2>9. QED BY <2>5, <2>7, <2>8 DEF UseInv
<1>4. QED BY <1>2, <1>3 DEF Call

(* A return passes one use, of its tensor by its caller, if that is new;   *)
(* what the returning call itself passed stays passed.                     *)
LEMMA ReturnKeepsUse ==
  ASSUME Inv, CompleteInv, UseInv, Return
  PROVE  UseInv'
<1> DEFINE n == Len(stack)
           counts == n > 1 /\ Caller.kind = "new"
<1>1. PICK T : T = Top.tensor
  OBVIOUS
<1>2. PICK U : U = Caller.tensor
  OBVIOUS
<1>3. PICK K : K = Turn(U, Caller.next)
  OBVIOUS
<1>4. CASE Top.kind = "new" /\ ~HasRoom(T)
  <2>1. UNCHANGED <<src, order, nodes, leafs, visited, use_counts, stack>>
    BY <1>1, <1>4 DEF Return, graph, tensors
  <2>2. \A u, k : Passed(u, k)' <=> Passed(u, k)
    BY <2>1 DEF Passed, Turn, Done, Elements
  <2>3. QED BY <2>1, <2>2, SameUseInv
<1>5. CASE ~(Top.kind = "new" /\ ~HasRoom(T))
  <2>1. /\ n \in Nat \ {0} /\ Top = stack[n] /\ Top \in Frame /\ LoopEnds(Top)
        /\ T \in visited
        /\ UNCHANGED <<src, order, visited>>
        /\ Len(stack') = n - 1
        /\ \A i \in 1 .. n - 2 : stack'[i] = stack[i]
        /\ Top.kind # "new" => T \in Done
        /\ Done' = Done \cup {T}
    BY <1>1, <1>5, ReturnEffect
  <2>2. \A i \in 1 .. n - 1 :
               /\ stack'[i].tensor = stack[i].tensor
               /\ stack'[i].kind = stack[i].kind
               /\ i = n - 1 => stack'[i].next = stack[i].next + 1
               /\ stack[i].tensor # T
    BY <1>1, <1>5, ReturnEffect
  <2>3. use_counts' = IF counts THEN [use_counts EXCEPT ![T] = @ + 1] ELSE use_counts
    BY <1>1, <1>5 DEF Return, CountUse
  <2>4. n > 1 => /\ Caller = stack[n - 1] /\ Caller \in Frame /\ n - 1 \in 1 .. n
                 /\ U \in visited /\ U \in Tensors
                 /\ ~LoopEnds(Caller) /\ T = Source(Caller)
    <3> SUFFICES ASSUME n > 1
                 PROVE  /\ Caller = stack[n - 1] /\ Caller \in Frame /\ n - 1 \in 1 .. n
                        /\ U \in visited /\ U \in Tensors
                        /\ ~LoopEnds(Caller) /\ T = Source(Caller)
      OBVIOUS
    <3>1. n - 1 \in 1 .. n /\ n - 1 \in 1 .. n - 1 /\ n - 1 + 1 = n
      BY <2>1
    <3>2. Caller = stack[n - 1] /\ Caller \in Frame
      BY <3>1 DEF Caller, Inv, StackInv
    <3>3. U \in visited /\ U \in Tensors
      BY <1>2, <3>1, <3>2 DEF Inv, StackInv, GraphInv
    <3>4. ~LoopEnds(Caller) /\ T = Source(Caller)
      BY <1>1, <2>1, <3>1, <3>2 DEF Inv, StackInv
    <3>5. QED BY <3>1, <3>2, <3>3, <3>4
  <2>5. counts => /\ K \in 1 .. Len(src[U]) /\ Turn(U, K) = Caller.next
                  /\ src[U][K] = T
    <3> SUFFICES ASSUME counts
                 PROVE  /\ K \in 1 .. Len(src[U]) /\ Turn(U, K) = Caller.next
                        /\ src[U][K] = T
      OBVIOUS
    <3>1. Caller.next \in 1 .. Len(src[U])
      BY <1>2, <2>4 DEF LoopEnds, Frame, Inv, TensorsInv, Tensors
    <3>2. K \in 1 .. Len(src[U]) /\ Turn(U, K) = Caller.next
      BY <1>3, <2>4, <3>1, TurnBack DEF Inv
    <3>3. Source(Caller) = src[U][K]
      BY <1>2, <1>3, <2>4 DEF Source, SourceAt, Turn
    <3>4. QED BY <2>4, <3>2, <3>3
  <2> HIDE DEF counts
  <2>6. ASSUME NEW u \in visited, NEW k \in 1 .. Len(src[u])
        PROVE  Passed(u, k)' <=> Passed(u, k) \/ (counts /\ u = U /\ k = K)
    <3>1. u \in Tensors /\ Len(src[u]) \in Nat
      BY DEF Inv, GraphInv, TensorsInv, Tensors
    <3>2. Turn(u, k) \in 1 .. Len(src[u]) /\ Turn(u, Turn(u, k)) = k /\ Turn(u, k)' = Turn(u, k)
      BY <2>1, <3>1, TurnBack DEF Inv, Turn
    <3>3. ASSUME Passed(u, k) PROVE Passed(u, k)'
      <4>1. CASE u \in Done
        BY <2>1, <4>1 DEF Passed
      <4>2. CASE u \notin Done
        <5>1. PICK i \in 1 .. n : /\ stack[i].kind = "new" /\ stack[i].tensor = u
                                  /\ Turn(u, k) < stack[i].next
          BY <3>3, <4>2 DEF Passed
        <5>2. CASE i = n
          BY <1>1, <2>1, <5>1, <5>2 DEF Passed
        <5>3. CASE i # n
          <6>1. i \in 1 .. n - 1
            BY <2>1, <5>3
          <6>2. stack[i].next \in Nat
            <7>1. stack[i] \in Frame
              BY DEF Inv, StackInv
            <7>2. QED BY <7>1 DEF Frame
          <6>3. Turn(u, k) < stack'[i].next
            <7>1. CASE i = n - 1
              BY <2>2, <3>2, <5>1, <6>1, <6>2, <7>1
            <7>2. CASE i # n - 1
              <8>1. i \in 1 .. n - 2
                BY <2>1, <6>1, <7>2
              <8>2. QED BY <2>1, <5>1, <8>1
            <7>3. QED BY <7>1, <7>2
          <6>4. stack'[i].kind = "new" /\ stack'[i].tensor = u
            BY <2>2, <5>1, <6>1
          <6>5. QED BY <2>1, <3>2, <6>1, <6>3, <6>4 DEF Passed
        <5>4. QED BY <5>2, <5>3
      <4>3. QED BY <4>1, <4>2
    <3>4. ASSUME counts, u = U, k = K PROVE Passed(u, k)'
      <4>1. n - 1 \in 1 .. n - 1 /\ Caller = stack[n - 1] /\ Caller.next \in Nat
        BY <2>1, <2>4, <3>4 DEF counts, Frame
      <4>2. Turn(u, k) < stack'[n - 1].next
        BY <2>2, <2>5, <3>4, <4>1
      <4>3. stack'[n - 1].kind = "new" /\ stack'[n - 1].tensor = u
        BY <1>2, <2>2, <3>4, <4>1 DEF counts
      <4>4. QED BY <2>1, <3>2, <4>1, <4>2, <4>3 DEF Passed
    <3>5. ASSUME Passed(u, k)', ~Passed(u, k) PROVE counts /\ u = U /\ k = K
      <4>1. u \notin Done
        BY <3>5 DEF Passed
      <4>2. u # T
        <5> SUFFICES ASSUME u = T PROVE FALSE
          OBVIOUS
        <5>1. Top.kind = "new" /\ n \in 1 .. n
          BY <2>1, <4>1
        <5>2. Top.next > Len(src[T]) /\ Top.next \in Nat
          BY <1>1, <2>1, <5>1 DEF LoopEnds, Frame
        <5>3. Turn(u, k) < Top.next
          BY <3>1, <3>2, <5>2
        <5>4. QED BY <1>1, <2>1, <3>5, <5>1, <5>3 DEF Passed
      <4>3. PICK i \in 1 .. n - 1 : /\ stack'[i].kind = "new" /\ stack'[i].tensor = u
                                    /\ Turn(u, k) < stack'[i].next
        BY <2>1, <3>2, <3>5, <4>1, <4>2 DEF Passed
      <4>4. i \in 1 .. n /\ stack[i].kind = "new" /\ stack[i].tensor = u
        BY <2>1, <2>2, <4>3
      <4>5. ~(Turn(u, k) < stack[i].next)
        BY <3>5, <4>4 DEF Passed
      <4>6. i = n - 1
        <5>1. i \notin 1 .. n - 2
          BY <2>1, <4>3, <4>5
        <5>2. QED BY <2>1, <5>1
      <4>7. n > 1
        BY <2>1, <4>6
      <4>8. Caller = stack[n - 1] /\ Caller.next \in Nat
        BY <2>4, <4>7 DEF Frame
      <4>9. stack'[i].next = stack[i].next + 1
        BY <2>2, <4>6
      <4>10. Turn(u, k) = Caller.next
        BY <3>2, <4>3, <4>5, <4>6, <4>8, <4>9
      <4>11. counts /\ u = U
        BY <1>2, <4>4, <4>6, <4>7, <4>8 DEF counts
      <4>12. QED BY <1>3, <3>2, <4>10, <4>11
    <3>6. QED BY <3>3, <3>4, <3>5
  <2>7. CASE ~counts
    <3>1. \A u \in visited : \A k \in 1 .. Len(src[u]) : Passed(u, k)' <=> Passed(u, k)
      BY <2>6, <2>7
    <3>2. use_counts' = use_counts
      BY <2>3, <2>7
    <3>3. QED BY <2>1, <3>1, <3>2, SameUseInv
  <2>8. CASE counts
    <3>1. U \in visited /\ Caller \in Frame /\ n - 1 \in 1 .. n /\ Caller = stack[n - 1]
      BY <2>4, <2>8 DEF counts
    <3>2. ~Passed(U, K)
      <4> SUFFICES ASSUME Passed(U, K) PROVE FALSE
        OBVIOUS
      <4>1. U \notin Done
        BY <1>2, <2>8, <3>1 DEF counts, Inv, WalkInv
      <4>2. PICK i \in 1 .. n : /\ stack[i].kind = "new" /\ stack[i].tensor = U
                                /\ Turn(U, K) < stack[i].next
        BY <4>1 DEF Passed
      <4>3. Turn(U, K) = Caller.next /\ Caller.next \in Nat
        BY <2>5, <2>8, <3>1 DEF Frame
      <4>4. i # n - 1
        BY <3>1, <4>2, <4>3
      <4>5. stack[i].tensor \in Nat
        <5>1. stack[i] \in Frame
          BY DEF Inv, StackInv
        <5>2. QED BY <5>1 DEF Frame
      <4>6. stack[i].tensor # stack[n - 1].tensor
        <5>1. i < n - 1 \/ n - 1 < i
          BY <2>1, <4>4
        <5>2. /\ i < n - 1 => stack[n - 1].tensor < stack[i].tensor
              /\ n - 1 < i => stack[i].tensor < stack[n - 1].tensor
          BY <3>1 DEF Inv, StackInv
        <5>3. QED BY <4>5, <5>1, <5>2
      <4>7. QED BY <1>2, <3>1, <4>2, <4>6
    <3>3. \A u \in visited : \A t : u # U \/ t # T => PassedAt(u, t)' = PassedAt(u, t)
      <4> SUFFICES ASSUME NEW u \in visited, NEW t, u # U \/ t # T
                   PROVE  PassedAt(u, t)' = PassedAt(u, t)
        OBVIOUS
      <4>1. \A k \in 1 .. Len(src[u]) : src[u][k] = t => (Passed(u, k)' <=> Passed(u, k))
        BY <2>5, <2>6, <2>8
      <4>2. QED BY <2>1, <4>1 DEF PassedAt
    <3>4. PassedAt(U, T)' = PassedAt(U, T) \cup {K}
      BY <2>1, <2>5, <2>6, <2>8, <3>1 DEF PassedAt
    <3>5. \A t : t # T => PassedUses(t)' = PassedUses(t)
      <4> SUFFICES ASSUME NEW t, t # T PROVE PassedUses(t)' = PassedUses(t)
        OBVIOUS
      <4>1. \A u \in visited : PassedAt(u, t)' = PassedAt(u, t)
        BY <3>3
      <4>2. QED BY <2>1, <4>1 DEF PassedUses
    <3>6. PassedUses(T)' = PassedUses(T) \cup {<<U, K>>}
      <4>1. \A u \in visited : PassedAt(u, T)' = PassedAt(u, T) \cup (IF u = U THEN {K} ELSE {})
        BY <3>3, <3>4
      <4>2. QED BY <2>1, <3>1, <4>1 DEF PassedUses
    <3>7. <<U, K>> \notin PassedUses(T)
      BY <3>2 DEF PassedUses, PassedAt
    <3>8. /\ use_counts \in [DOMAIN use_counts -> Nat] /\ visited \subseteq DOMAIN use_counts
          /\ use_counts' = [use_counts EXCEPT ![T] = @ + 1]
      BY <2>3, <2>8 DEF UseInv
    <3>9. /\ IsFiniteSet(PassedUses(T)')
          /\ Cardinality(PassedUses(T)') = use_counts[T] + 1
      <4>1. IsFiniteSet(PassedUses(T)) /\ use_counts[T] = Cardinality(PassedUses(T))
        BY <1>1, <2>1 DEF UseInv
      <4>2. QED BY <3>6, <3>7, <4>1, FS_AddElement
    <3>10. ASSUME NEW t \in visited
           PROVE  IsFiniteSet(PassedUses(t)') /\ use_counts'[t] = Cardinality(PassedUses(t)')
      <4>1. CASE t = T
        BY <3>8, <3>9, <4>1
      <4>2. CASE t # T
        <5>1. use_counts'[t] = use_counts[t]
          BY <3>8, <4>2
        <5>2. QED BY <3>5, <4>2, <5>1 DEF UseInv
      <4>3. QED BY <4>1, <4>2
    <3>11. use_counts' \in [DOMAIN use_counts' -> Nat] /\ visited' \subseteq DOMAIN use_counts'
      BY <2>1, <3>8
    <3>12. QED BY <2>1, <3>10, <3>11 DEF UseInv
  <2>9. QED BY <2>7, <2>8
<1>6. QED BY <1>4, <1>5

LEMMA StepUse == Inv /\ CompleteInv /\ UseInv /\ [Next]_vars => UseInv'
<1> SUFFICES ASSUME Inv, CompleteInv, UseInv, [Next]_vars PROVE UseInv'
  OBVIOUS
<1>1. CASE UNCHANGED <<src, order, nodes, leafs, visited, use_counts, stack>>
  <2>1. \A u, k : Passed(u, k)' <=> Passed(u, k)
    BY <1>1 DEF Passed, Turn, Done, Elements
  <2>2. QED BY <1>1, <2>1, SameUseInv
<1>2. ASSUME NEW o \in {"none", "param", "op"}, NEW s \in SourceLists, NewTensor(o, s)
      PROVE  UseInv'
  <2>1. /\ UNCHANGED <<order, nodes, leafs, visited, use_counts, stack>>
        /\ \A u \in Tensors : src'[u] = src[u]
    BY <1>2, NewTensorEffect
  <2>2. \A u \in visited : src'[u] = src[u]
    BY <2>1 DEF Inv, GraphInv
  <2>3. \A u \in visited : \A k : Passed(u, k)' <=> Passed(u, k)
    BY <2>1, <2>2 DEF Passed, Turn, Done, Elements
  <2>4. QED BY <2>1, <2>2, <2>3, SameUseInv
<1>3. CASE GraphClear
  <2>1. visited' = {} /\ use_counts' = use_counts
    BY <1>3 DEF GraphClear
  <2>2. QED BY <2>1 DEF UseInv
<1>4. CASE Begin
  <2> DEFINE t == Head(pending).tensor
             c == Head(pending).compute
  <2>1. /\ t \in Tensors /\ c \in BOOLEAN /\ Call(t, c) /\ ~aborted
        /\ UNCHANGED <<src, order, nodes, leafs>>
    BY <1>4, BeginCalls
  <2> HIDE DEF t, c
  <2>2. QED BY <2>1, CallKeepsUse
<1>5. CASE Descend
  <2> DEFINE t == Source(Top)
             c == Top.compute
  <2>1. /\ t \in Tensors /\ c \in BOOLEAN /\ Call(t, c) /\ ~aborted
        /\ UNCHANGED <<src, order, nodes, leafs>>
    BY <1>5, DescendCalls
  <2> HIDE DEF t, c
  <2>2. QED BY <2>1, CallKeepsUse
<1>6. CASE Skip
  <2> DEFINE n == Len(stack)
  <2>1. /\ UNCHANGED <<src, order, nodes, leafs, visited, use_counts>>
        /\ n \in Nat \ {0} /\ Len(stack') = n
        /\ \A i \in 1 .. n - 1 : stack'[i] = stack[i]
        /\ stack[n].kind = "again"
    BY <1>6, SkipEffect
  <2>2. \A i \in 1 .. n : /\ stack'[i].kind = stack[i].kind
                          /\ i = n \/ i \in 1 .. n - 1
    BY <1>6, <2>1, SkipEffect
  <2>3. \A i \in 1 .. n : stack'[i].kind = "new" \/ stack[i].kind = "new" => stack'[i] = stack[i]
    BY <2>1, <2>2
  <2>4. \A u, k : Turn(u, k)' = Turn(u, k)
    BY <2>1 DEF Turn
  <2>5. Done' = Done
    BY <2>1 DEF Done, Elements
  <2>6. \A u, k : Passed(u, k)' <=> Passed(u, k)
    BY <2>1, <2>3, <2>4, <2>5 DEF Passed
  <2>7. QED BY <2>1, <2>6, SameUseInv
<1>7. CASE Return
  BY <1>7, ReturnKeepsUse
<1>8. CASE UNCHANGED vars
  BY <1>1, <1>8 DEF vars, tensors, graph
<1>9. CASE \E t \in Tensors : BuildForwardExpand(t)
  BY <1>1, <1>9 DEF BuildForwardExpand, tensors, graph
<1>10. CASE \E t, u \in Tensors, idx \in 1 .. 2 : BuildForwardSelect(<<t, u>>, idx)
  BY <1>1, <1>10 DEF BuildForwardSelect, tensors, graph
<1>11. QED BY <1>2, <1>3, <1>4, <1>5, <1>6, <1>7, <1>8, <1>9, <1>10 DEF Next, Walk

-----------------------------------------------------------------------------
LEMMA InitFlag == Init => FlagInv
<1> SUFFICES ASSUME Init PROVE FlagInv
  OBVIOUS
<1>1. compute = {} /\ wanted = {} /\ stack = <<>>
  BY DEF Init
<1>2. Len(stack) = 0
  BY <1>1
<1>3. QED BY <1>1, <1>2 DEF FlagInv

(* What is ahead stays ahead as long as frames only come on top.           *)
LEMMA AheadStays ==
  ASSUME UNCHANGED <<src, order>>, Len(stack) \in Nat, Len(stack') >= Len(stack),
         Len(stack') \in Nat,
         \A i \in 1 .. Len(stack) : stack'[i] = stack[i],
         NEW t, NEW s, Ahead(t, s)
  PROVE  Ahead(t, s)'
<1>1. PICK i \in 1 .. Len(stack) :
        /\ stack[i].tensor = t /\ stack[i].compute
        /\ \E k \in 1 .. Len(src[t]) : k >= stack[i].next /\ SourceAt(stack[i], k) = s
  BY DEF Ahead
<1>2. i \in 1 .. Len(stack') /\ stack'[i] = stack[i]
  OBVIOUS
<1>3. PICK k \in 1 .. Len(src[t]) : k >= stack[i].next /\ SourceAt(stack[i], k) = s
  BY <1>1
<1>4. k >= stack'[i].next /\ stack'[i].tensor = t /\ stack'[i].compute
  BY <1>1, <1>2, <1>3
<1>5. SourceAt(stack[i], k) = SourceAt(stack[i], k)'
  BY <1>2 DEF SourceAt
<1>6. QED BY <1>2, <1>3, <1>4, <1>5 DEF Ahead

(* A call for a tensor to be computed flags it, and has all its sources    *)
(* before it.                                                              *)
LEMMA CallKeepsFlag ==
  ASSUME Inv, OpsInv, FlagInv, NEW t \in Tensors, NEW c \in BOOLEAN, Call(t, c), ~aborted,
         UNCHANGED <<src, op, order>>,
         wanted \subseteq wanted', wanted' \subseteq wanted \cup (IF c THEN {t} ELSE {}),
         \/ stack = <<>> /\ (c => t \in wanted')
         \/ stack # <<>> /\ c = Top.compute /\ t \in Sources(Top.tensor)
  PROVE  FlagInv'
<1> DEFINE n == Len(stack)
<1>1. CASE aborted'
  BY <1>1 DEF FlagInv
<1>2. CASE ~aborted'
  <2>1. /\ n \in Nat /\ Len(stack') = n + 1
        /\ \A i \in 1 .. n : stack'[i] = stack[i]
        /\ stack'[n + 1] \in Frame
        /\ stack'[n + 1].tensor = t /\ stack'[n + 1].next = 1 /\ stack'[n + 1].compute = c
        /\ stack'[n + 1].kind = "known" => ~c
    BY <1>2, CallEffect
  <2>2. \A i \in 1 .. n + 1 : i = n + 1 \/ i \in 1 .. n
    BY <2>1
  <2>3. compute' = IF op[t] = "op" /\ c THEN compute \cup {t} ELSE compute
    BY DEF Call, Flagged
  <2>4. compute' \subseteq {u \in Tensors : op[u] = "op"} /\ wanted' \subseteq Tensors
    BY <2>3 DEF FlagInv
  <2>5. \A u \in wanted' : op[u] = "op" => u \in compute'
    BY <2>3 DEF FlagInv
  <2>6. ASSUME NEW i \in 1 .. n + 1, stack'[i].compute
        PROVE  /\ stack'[i].kind # "known"
               /\ op[stack'[i].tensor] = "op" => stack'[i].tensor \in compute'
    <3>1. CASE i = n + 1
      BY <2>1, <2>3, <2>6, <3>1
    <3>2. CASE i # n + 1
      <4>1. i \in 1 .. n /\ stack'[i] = stack[i]
        BY <2>1, <2>2, <3>2
      <4>2. QED BY <2>3, <2>6, <4>1 DEF FlagInv
    <3>3. QED BY <3>1, <3>2
  <2>7. ASSUME NEW i \in 1 .. n PROVE stack'[i + 1].compute = stack'[i].compute
    <3>1. CASE i = n
      <4>1. stack # <<>> /\ c = stack[n].compute
        BY <2>1, <3>1 DEF Top
      <4>2. QED BY <2>1, <3>1, <4>1
    <3>2. CASE i # n
      <4>1. i \in 1 .. n - 1 /\ i + 1 \in 1 .. n
        BY <2>1, <3>2
      <4>2. QED BY <2>1, <4>1 DEF FlagInv
    <3>3. QED BY <3>1, <3>2
  <2>8. ASSUME NEW u \in compute', NEW s \in Sources(u), op[s] = "op"
        PROVE  s \in compute' \/ Ahead(u, s)'
    <3>1. CASE u \in compute
      <4>1. s \in compute \/ Ahead(u, s)
        BY <2>8, <3>1 DEF FlagInv
      <4>2. Ahead(u, s) => Ahead(u, s)'
        BY <2>1, AheadStays
      <4>3. QED BY <2>3, <4>1, <4>2
    <3>2. CASE u \notin compute
      <4>1. u = t /\ c
        BY <2>3, <3>2
      <4>2. PICK j \in 1 .. Len(src[t]) : src[t][j] = s
        BY <2>8, <4>1 DEF Sources
      <4>3. PICK k \in 1 .. Len(src[t]) : SourceAt(stack'[n + 1], k) = src[t][j]
        BY <2>1, AllSourcesPassed DEF Inv
      <4>4. k >= stack'[n + 1].next
        BY <2>1
      <4>5. n + 1 \in 1 .. Len(stack')
        BY <2>1
      <4>6. SourceAt(stack'[n + 1], k) = s
        BY <4>2, <4>3
      <4>7. stack'[n + 1].tensor = t /\ stack'[n + 1].compute
        BY <2>1, <4>1
      <4>8. Ahead(t, s)'
        BY <4>4, <4>5, <4>6, <4>7 DEF Ahead, SourceAt
      <4>9. QED BY <4>1, <4>8
    <3>3. QED BY <3>1, <3>2
  <2>9. ASSUME NEW C \in SUBSET Tensors, wanted' \subseteq C, Closed(C)
        PROVE  /\ compute' \subseteq C
               /\ \A i \in 1 .. n + 1 : stack'[i].compute => stack'[i].tensor \in C
    <3>1. /\ compute \subseteq C
          /\ \A i \in 1 .. n : stack[i].compute => stack[i].tensor \in C
      BY <2>9 DEF FlagInv
    <3>2. c => t \in C
      <4>1. CASE stack = <<>>
        BY <2>9, <4>1
      <4>2. CASE stack # <<>>
        <5>1. n \in 1 .. n /\ Top = stack[n]
          BY <2>1, <4>2 DEF Top, Inv, StackInv
        <5>2. QED BY <2>9, <3>1, <4>2, <5>1 DEF Closed
      <4>3. QED BY <4>1, <4>2
    <3>3. QED BY <2>1, <2>2, <2>3, <3>1, <3>2
  <2>10. Len(stack') - 1 = n
    BY <2>1
  <2>11. Tensors' = Tensors /\ (\A u : Sources(u)' = Sources(u)) /\ \A C : Closed(C)' <=> Closed(C)
    BY ClosedStays
  <2>12. QED BY <2>1, <2>4, <2>5, <2>6, <2>7, <2>8, <2>9, <2>10, <2>11 DEF FlagInv
<1>3. QED BY <1>1, <1>2

(* The source passed over has the flag.                                    *)
LEMMA SkipKeepsFlag ==
  ASSUME Inv, FlagInv, Skip
  PROVE  FlagInv'
<1> DEFINE n == Len(stack)
<1>1. /\ UNCHANGED <<src, op, order, compute, wanted, aborted>>
      /\ n \in Nat \ {0} /\ Len(stack') = n
      /\ \A i \in 1 .. n - 1 : stack'[i] = stack[i]
      /\ stack[n] \in Frame
      /\ Source(stack[n]) \in compute
      /\ stack'[n].next = stack[n].next + 1
  BY SkipEffect
<1>2. \A i \in 1 .. n : /\ stack'[i].tensor = stack[i].tensor
                        /\ stack'[i].kind = stack[i].kind
                        /\ stack'[i].compute = stack[i].compute
  BY SkipEffect
<1>3. SUFFICES ASSUME ~aborted PROVE FlagInv'
  BY <1>1 DEF FlagInv
<1>4. ASSUME NEW t, NEW s, Ahead(t, s), s \notin compute PROVE Ahead(t, s)'
  <2>1. PICK i \in 1 .. n : stack[i].tensor = t /\ stack[i].compute /\
          \E k \in 1 .. Len(src[t]) : k >= stack[i].next /\ SourceAt(stack[i], k) = s
    BY <1>4 DEF Ahead
  <2>2. PICK k \in 1 .. Len(src[t]) : k >= stack[i].next /\ SourceAt(stack[i], k) = s
    BY <2>1
  <2>3. k >= stack'[i].next
    <3>1. CASE i = n
      <4>1. k # stack[n].next
        BY <1>1, <1>4, <2>2, <3>1 DEF Source
      <4>2. stack[n].next \in Nat
        BY <1>1 DEF Frame
      <4>3. QED BY <1>1, <2>2, <3>1, <4>1, <4>2
    <3>2. CASE i # n
      BY <1>1, <2>2, <3>2
    <3>3. QED BY <3>1, <3>2
  <2>4. SourceAt(stack[i], k) = SourceAt(stack'[i], k)
    BY <1>2 DEF SourceAt
  <2>5. QED BY <1>1, <1>2, <2>1, <2>2, <2>3, <2>4 DEF Ahead, SourceAt
<1>5. \A u \in compute : \A s \in Sources(u) : op[s] = "op" => s \in compute \/ Ahead(u, s)'
  BY <1>3, <1>4 DEF FlagInv
<1>6. \A i \in 1 .. n - 1 : i \in 1 .. n /\ i + 1 \in 1 .. n
  BY <1>1
<1>7. \A i \in 1 .. n - 1 : stack'[i + 1].compute = stack'[i].compute
  BY <1>2, <1>3, <1>6 DEF FlagInv
<1>8. QED BY <1>1, <1>2, <1>3, <1>5, <1>7, ClosedStays DEF FlagInv

(* The source that a call returns from got the flag if its caller has      *)
(* tensors computed, and a loop that has ended has nothing before it.      *)
LEMMA ReturnKeepsFlag ==
  ASSUME Inv, FlagInv, Return
  PROVE  FlagInv'
<1> DEFINE n == Len(stack)
<1>1. CASE Top.kind = "new" /\ ~HasRoom(Top.tensor)
  BY <1>1 DEF Return, FlagInv
<1>2. CASE ~(Top.kind = "new" /\ ~HasRoom(Top.tensor))
  <2>1. /\ n \in Nat \ {0} /\ Top = stack[n] /\ Top \in Frame /\ LoopEnds(Top)
        /\ UNCHANGED <<src, op, order, compute, wanted>>
        /\ Len(stack') = n - 1
        /\ \A i \in 1 .. n - 2 : stack'[i] = stack[i]
    BY <1>2, ReturnEffect
  <2>2. \A i \in 1 .. n - 1 : /\ stack'[i].tensor = stack[i].tensor
                              /\ stack'[i].kind = stack[i].kind
                              /\ stack'[i].compute = stack[i].compute
                              /\ i = n - 1 => stack'[i].next = stack[i].next + 1
    BY <1>2, ReturnEffect
  <2>3. ~aborted
    BY DEF Return
  <2>4. ASSUME NEW t, NEW s, Ahead(t, s), s \notin compute, op[s] = "op" PROVE Ahead(t, s)'
    <3>1. PICK i \in 1 .. n : stack[i].tensor = t /\ stack[i].compute /\
            \E k \in 1 .. Len(src[t]) : k >= stack[i].next /\ SourceAt(stack[i], k) = s
      BY <2>4 DEF Ahead
    <3>2. PICK k \in 1 .. Len(src[t]) : k >= stack[i].next /\ SourceAt(stack[i], k) = s
      BY <3>1
    <3>3. i # n
      <4> SUFFICES ASSUME i = n PROVE FALSE
        OBVIOUS
      <4>1. Top.kind # "known"
        BY <2>1, <2>3, <3>1 DEF FlagInv
      <4>2. Top.next > Len(src[t]) /\ Top.next \in Nat
        BY <2>1, <3>1, <4>1 DEF LoopEnds, Frame
      <4>3. stack[i].tensor \in Tensors
        BY DEF Inv, StackInv, GraphInv
      <4>4. Len(src[t]) \in Nat
        BY <3>1, <4>3 DEF Inv, TensorsInv, Tensors
      <4>5. QED BY <2>1, <3>2, <4>2, <4>4
    <3>4. i \in 1 .. n - 1
      BY <2>1, <3>3
    <3>5. k >= stack'[i].next
      <4>1. CASE i = n - 1
        <5>1. k # stack[i].next
          <6> SUFFICES ASSUME k = stack[i].next PROVE FALSE
            OBVIOUS
          <6>1. n - 1 \in 1 .. n - 1 /\ n - 1 + 1 = n /\ n \in 1 .. n
            BY <2>1, <4>1
          <6>2. stack[n].tensor = Source(stack[n - 1])
            BY <6>1 DEF Inv, StackInv
          <6>3. s = stack[n].tensor
            BY <3>2, <4>1, <6>2 DEF Source
          <6>4. stack[n].compute = stack[n - 1].compute
            BY <2>3, <6>1 DEF FlagInv
          <6>5. QED BY <2>3, <2>4, <3>1, <4>1, <6>1, <6>3, <6>4 DEF FlagInv
        <5>2. stack[i] \in Frame
          BY DEF Inv, StackInv
        <5>3. stack[i].next \in Nat
          BY <5>2 DEF Frame
        <5>4. QED BY <2>2, <3>2, <3>4, <4>1, <5>1, <5>3
      <4>2. CASE i # n - 1
        <5>1. i \in 1 .. n - 2
          BY <2>1, <3>4, <4>2
        <5>2. QED BY <2>1, <3>2, <5>1
      <4>3. QED BY <4>1, <4>2
    <3>6. SourceAt(stack[i], k) = SourceAt(stack'[i], k)
      BY <2>2, <3>4 DEF SourceAt
    <3>7. QED BY <2>1, <2>2, <3>1, <3>2, <3>4, <3>5, <3>6 DEF Ahead, SourceAt
  <2>5. \A u \in compute : \A s \in Sources(u) : op[s] = "op" => s \in compute \/ Ahead(u, s)'
    BY <2>3, <2>4 DEF FlagInv
  <2>6. /\ \A i \in 1 .. n - 1 : i \in 1 .. n
        /\ \A i \in 1 .. n - 2 : i \in 1 .. n - 1 /\ i + 1 \in 1 .. n - 1
        /\ Len(stack') - 1 = n - 2
    BY <2>1
  <2>7. \A i \in 1 .. n - 2 : stack'[i + 1].compute = stack'[i].compute
    BY <2>2, <2>3, <2>6 DEF FlagInv
  <2>8. \A i \in 1 .. n - 1 :
          stack'[i].compute => /\ stack'[i].kind # "known"
                               /\ op[stack'[i].tensor] = "op" => stack'[i].tensor \in compute
    BY <2>2, <2>3, <2>6 DEF FlagInv
  <2>9. \A C \in SUBSET Tensors : wanted \subseteq C /\ Closed(C) =>
          /\ compute \subseteq C
          /\ \A i \in 1 .. n - 1 : stack'[i].compute => stack'[i].tensor \in C
    BY <2>2, <2>3, <2>6 DEF FlagInv
  <2>10. /\ compute \subseteq {u \in Tensors : op[u] = "op"}
         /\ wanted \subseteq Tensors
         /\ \A u \in wanted : op[u] = "op" => u \in compute
    BY <2>3 DEF FlagInv
  <2>11. Tensors' = Tensors /\ (\A u : Sources(u)' = Sources(u)) /\ \A C : Closed(C)' <=> Closed(C)
    BY <2>1, ClosedStays
  <2>12. QED BY <2>1, <2>5, <2>6, <2>7, <2>8, <2>9, <2>10, <2>11 DEF FlagInv
<1>3. QED BY <1>1, <1>2


LEMMA StepFlag == Inv /\ OpsInv /\ FlagInv /\ [Next]_vars => FlagInv'
<1> SUFFICES ASSUME Inv, OpsInv, FlagInv, [Next]_vars PROVE FlagInv'
  OBVIOUS
<1>1. CASE UNCHANGED <<src, op, order, compute, wanted, stack, aborted>>
  <2>1. \A t, s : Ahead(t, s)' <=> Ahead(t, s)
    BY <1>1 DEF Ahead, SourceAt
  <2>2. QED BY <1>1, <2>1, ClosedStays DEF FlagInv
<1>2. ASSUME NEW o \in {"none", "param", "op"}, NEW s \in SourceLists, NewTensor(o, s)
      PROVE  FlagInv'
  <2>1. /\ UNCHANGED <<stack, compute, wanted, aborted>> /\ stack = <<>> /\ ~aborted
        /\ \A t \in Tensors : Sources(t)' = Sources(t)
        /\ Tensors \subseteq Tensors'
    BY <1>2, NewTensorEffect
  <2>2. \A t \in Tensors : op'[t] = op[t]
    <3>1. op' = Append(op, o)
      BY <1>2 DEF NewTensor
    <3>2. QED BY <3>1 DEF OpsInv, Tensors
  <2>3. Len(stack) = 0 /\ Len(stack') = 0
    BY <2>1
  <2>4. /\ compute \subseteq {t \in Tensors : op[t] = "op"}
        /\ wanted \subseteq Tensors
        /\ \A t \in wanted : op[t] = "op" => t \in compute
    BY <2>1 DEF FlagInv
  <2>5. /\ compute' \subseteq {t \in Tensors' : op'[t] = "op"}
        /\ wanted' \subseteq Tensors'
        /\ \A t \in wanted' : op'[t] = "op" => t \in compute'
    BY <2>1, <2>2, <2>4
  <2>6. ASSUME NEW t \in compute, NEW u \in Sources(t)', op'[u] = "op"
        PROVE  u \in compute
    <3>1. t \in Tensors /\ u \in Sources(t) /\ u \in Tensors
      BY <2>1, <2>4, SourcesAreTensors DEF Inv
    <3>2. op[u] = "op"
      BY <2>2, <2>6, <3>1
    <3>3. ~Ahead(t, u)
      BY <2>3 DEF Ahead
    <3>4. QED BY <2>1, <3>1, <3>2, <3>3 DEF FlagInv
  <2>7. ASSUME NEW C \in SUBSET Tensors', wanted \subseteq C, Closed(C)'
        PROVE  compute \subseteq C
    <3> DEFINE D == C \cap Tensors
    <3>1. wanted \subseteq D
      BY <2>4, <2>7
    <3>2. ASSUME NEW t \in D PROVE Sources(t) \subseteq D
      <4>1. Sources(t) \subseteq Tensors
        BY SourcesAreTensors DEF Inv
      <4>2. Sources(t) = Sources(t)' /\ Sources(t)' \subseteq C
        BY <2>1, <2>7 DEF Closed
      <4>3. QED BY <4>1, <4>2
    <3>3. Closed(D)
      BY <3>2 DEF Closed
    <3>4. QED BY <2>1, <3>1, <3>3 DEF FlagInv
  <2>8. QED BY <2>1, <2>3, <2>5, <2>6, <2>7 DEF FlagInv
<1>3. CASE Begin
  <2> DEFINE t == Head(pending).tensor
             c == Head(pending).compute
  <2>1. /\ t \in Tensors /\ c \in BOOLEAN /\ Call(t, c) /\ ~aborted /\ stack = <<>>
        /\ UNCHANGED <<src, op, order>>
    BY <1>3, BeginCalls
  <2>2. wanted' = IF c THEN wanted \cup {t} ELSE wanted
    BY <1>3 DEF Begin
  <2> HIDE DEF t, c
  <2>3. QED BY <2>1, <2>2, CallKeepsFlag
<1>4. CASE Descend
  <2> DEFINE t == Source(Top)
             c == Top.compute
  <2>1. /\ t \in Tensors /\ c \in BOOLEAN /\ Call(t, c) /\ ~aborted
        /\ Len(stack) \in Nat \ {0} /\ t \in Sources(Top.tensor)
        /\ UNCHANGED <<src, op, order, wanted>>
    BY <1>4, DescendCalls
  <2>2. stack # <<>> /\ c = Top.compute
    BY <2>1
  <2> HIDE DEF t, c
  <2>3. QED BY <2>1, <2>2, CallKeepsFlag
<1>5. CASE Skip
  BY <1>5, SkipKeepsFlag
<1>6. CASE Return
  BY <1>6, ReturnKeepsFlag
<1>7. CASE GraphClear
  BY <1>1, <1>7 DEF GraphClear, tensors
<1>8. CASE UNCHANGED vars
  BY <1>1, <1>8 DEF vars, tensors, ghosts
<1>9. CASE \E t \in Tensors : BuildForwardExpand(t)
  BY <1>1, <1>9 DEF BuildForwardExpand, tensors, ghosts
<1>10. CASE \E t, u \in Tensors, idx \in 1 .. 2 : BuildForwardSelect(<<t, u>>, idx)
  BY <1>1, <1>10 DEF BuildForwardSelect, tensors, ghosts
<1>11. QED BY <1>2, <1>3, <1>4, <1>5, <1>6, <1>7, <1>8, <1>9, <1>10 DEF Next, Walk
-----------------------------------------------------------------------------
(* All of it together is inductive.                                        *)
FullInv == Inv /\ OpsInv /\ CompleteInv /\ UseInv /\ FlagInv

THEOREM WalkAccounted == Spec => []FullInv
<1>1. Init => FullInv
  BY InitInv, InitOps, InitComplete, InitUse, InitFlag DEF FullInv
<1>2. FullInv /\ [Next]_vars => FullInv'
  BY StepInv, StepOps, StepComplete, StepUse, StepFlag DEF FullInv
<1>3. QED BY <1>1, <1>2, PTL DEF Spec

(* Between builds what was visited is in the graph.                        *)
LEMMA IdleIsDone == FullInv /\ Idle => visited = Done
<1> SUFFICES ASSUME FullInv, Idle PROVE visited = Done
  OBVIOUS
<1>1. Len(stack) = 0
  BY DEF Idle
<1>2. visited \subseteq Done
  BY <1>1 DEF FullInv, Inv, WalkInv
<1>3. QED BY <1>2 DEF FullInv, Inv, GraphInv

(* Nothing is lost by stopping at what was visited: between builds a graph *)
(* is what was built into it and all that it depends on, whatever was      *)
(* built before, and nothing else.                                         *)
THEOREM NothingLost == Spec => []GraphComplete
<1>1. FullInv => GraphComplete
  <2> SUFFICES ASSUME FullInv, Idle
               PROVE  ReachOf(requested) = visited /\ visited = Done
    BY DEF GraphComplete
  <2>1. visited = Done
    BY IdleIsDone
  <2>2. /\ visited \subseteq Tensors /\ requested \subseteq visited
        /\ \A C \in SUBSET Tensors : requested \subseteq C /\ Closed(C) => visited \subseteq C
    BY DEF FullInv, Idle, CompleteInv, Inv, GraphInv
  <2>3. Closed(visited)
    BY <2>1 DEF Closed, FullInv, CompleteInv
  <2>4. QED BY <2>1, <2>2, <2>3 DEF ReachOf
<1>2. QED BY <1>1, WalkAccounted, PTL

(* ggml_build_forward_expand() counts, for every tensor, how many times    *)
(* one of the graph has it as a source, in either order and over any       *)
(* number of builds and clears.                                            *)
THEOREM UsesAreCounted == Spec => []UseCountsExact
<1>1. FullInv => UseCountsExact
  <2> SUFFICES ASSUME FullInv, Idle, NEW t \in visited
               PROVE  use_counts[t] = Cardinality(Uses(t))
    BY DEF UseCountsExact
  <2>1. \A u \in visited : PassedAt(u, t) = {k \in 1 .. Len(src[u]) : src[u][k] = t}
    BY IdleIsDone DEF PassedAt, Passed
  <2>2. PassedUses(t) = Uses(t)
    BY <2>1 DEF PassedUses, Uses
  <2>3. QED BY <2>2 DEF FullInv, UseInv
<1>2. QED BY <1>1, WalkAccounted, PTL

(* The flag reaches every operation that a wanted tensor depends on, past  *)
(* what another build visited or flagged before, and no other.             *)
THEOREM FlagReachesAll == Spec => []ComputeExact
<1>1. FullInv => ComputeExact
  <2> SUFFICES ASSUME FullInv, Idle
               PROVE  compute = {t \in ReachOf(wanted) : op[t] = "op"}
    BY DEF ComputeExact
  <2> DEFINE C == {u \in Tensors : op[u] = "op" => u \in compute}
  <2>1. /\ compute \subseteq {t \in Tensors : op[t] = "op"} /\ wanted \subseteq Tensors
        /\ \A t \in wanted : op[t] = "op" => t \in compute
        /\ \A t \in compute : \A s \in Sources(t) :
              op[s] = "op" => s \in compute \/ Ahead(t, s)
        /\ \A D \in SUBSET Tensors : wanted \subseteq D /\ Closed(D) => compute \subseteq D
    BY DEF FullInv, Idle, FlagInv
  <2>2. \A t, s : ~Ahead(t, s)
    <3>1. Len(stack) = 0
      BY DEF Idle
    <3>2. QED BY <3>1 DEF Ahead
  <2>3. ASSUME NEW u \in C, NEW s \in Sources(u)
        PROVE  s \in C
    <3>1. s \in Tensors
      BY SourcesAreTensors DEF FullInv, Inv
    <3>2. op[u] = "op"
      <4>1. Sources(u) # {}
        BY <2>3
      <4>2. src[u] # <<>>
        BY <4>1 DEF Sources
      <4>3. QED BY <4>2 DEF FullInv, OpsInv
    <3>3. QED BY <2>1, <2>2, <3>1, <3>2
  <2>4. wanted \subseteq C /\ Closed(C)
    BY <2>1, <2>3 DEF Closed
  <2>5. \A t \in ReachOf(wanted) : t \in C
    BY <2>4 DEF ReachOf
  <2>6. \A t \in compute : t \in ReachOf(wanted) /\ op[t] = "op"
    BY <2>1 DEF ReachOf
  <2>7. QED BY <2>5, <2>6
<1>2. QED BY <1>1, WalkAccounted, PTL


(* Whatever graphs are built, in whatever order and however often they are *)
(* cleared: a node's sources are leafs or earlier nodes at every moment of *)
(* every walk of ggml_visit_parents_graph().                               *)
THEOREM SourcesComeFirst == Spec => []SourcesFirst
<1>1. Inv => SourcesFirst
  BY DEF Inv
<1>2. QED BY <1>1, InitInv, StepInv, PTL DEF Spec

(* And no tensor is a node or a leaf twice.                                *)
THEOREM NothingTwice == Spec => []NoDuplicates
<1>1. Inv => NoDuplicates
  BY DEF Inv
<1>2. QED BY <1>1, InitInv, StepInv, PTL DEF Spec
=============================================================================
