------------------------- MODULE GgmlBackwardProofs -------------------------
(***************************************************************************)
(* For every set of programs: the types of the backward pass; that the     *)
(* gradient of a node is final when the walk comes to the node; that the   *)
(* pass ends the process only at a node that Refuses names; that every     *)
(* gradient it makes has the shape of its tensor, with as many elements as *)
(* fit behind its offset; and that every element of every tensor it is     *)
(* made from lies in the memory of that tensor.                            *)
(*                                                                         *)
(* The argument: what is made names as its sources tensors that were made  *)
(* before it, so a node adds to gradients of smaller numbers only; and     *)
(* what is marked contains the losses and the parameters, so the           *)
(* accumulators belong to tensors that need a gradient.                    *)
(*                                                                         *)
(* What the assertions of the constructors say of a tensor and its sources *)
(* is kept as Accepted, by operation.  From it follows, by operation       *)
(* again, that the expression a node hands to a source passes the          *)
(* assertions of the constructors it is made with, unless the node         *)
(* refuses, and has the shape of the source (Serves).  No leaf but a       *)
(* parameter needs a gradient, because what is marked is the least set.    *)
(*                                                                         *)
(* That the gradients lie in their memory with all they are made from is   *)
(* shown apart.  A tensor is Safe if some set of tensors has it, has with  *)
(* each also its sources, and has none whose last element is outside.  The *)
(* tensors of the program fit, and the blocks of acc and set have a place  *)
(* (ReachInv); so the views with the strides of a source or of a block,    *)
(* and the view that regroups the batches of a product, fit as well, and   *)
(* every expression a node hands on is Sane: safe, unless an assertion     *)
(* turns it down.                                                          *)
(***************************************************************************)
EXTENDS GgmlBackward, SequenceTheorems, WellFoundedInduction, TLAPS

IsSequence == \E S : tensors \in Seq(S)
BeforeBackward ==
    phase = "forward" => /\ accs = {} /\ needed = {}
                         /\ grads = <<>> /\ cursor = 0
Inv == TypeOK /\ IsSequence /\ SourcesComeFirst /\ BeforeBackward
-----------------------------------------------------------------------------
(* The sources of a tensor are those its constructor was handed.           *)
LEMMA PointwiseSources ==
    ASSUME NEW op, NEW a, NEW b, NEW s
    PROVE  /\ plain(op, a).src = <<a>>
           /\ unary(op, a).src = <<a>>
           /\ diag_mask(op, a, 0).src = <<a>>
           /\ scale_impl(a, s, b).src = <<a>>
           /\ soft_max(a).src = <<a>>
<1>1. plain(op, a).src = <<a>>
  BY DEF plain, Like, NewTensor
<1>2. unary(op, a).src = <<a>>
  BY DEF unary, Like, NewTensor
<1>3. diag_mask(op, a, 0).src = <<a>>
  BY DEF diag_mask, Like, NewTensor
<1>4. scale_impl(a, s, b).src = <<a>>
  BY DEF scale_impl, Like, NewTensor
<1>5. soft_max(a).src = <<a>>
  BY DEF soft_max, Like, NewTensor
<1>6. QED
  BY <1>1, <1>2, <1>3, <1>4, <1>5

(* The same for the operations on two tensors of like shapes.              *)
LEMMA ElementwiseSources ==
    ASSUME NEW op, NEW a, NEW b
    PROVE  /\ elementwise(op, a, b, FALSE).src = <<a, b>>
           /\ glu(op, a, b).src = <<a, b>>
<1>1. elementwise(op, a, b, FALSE).src = <<a, b>>
  BY DEF elementwise, Like, NewTensor
<1>2. glu(op, a, b).src = <<a, b>>
  BY DEF glu, Like, NewTensor
<1>3. QED
  BY <1>1, <1>2

(* The same for those whose second tensor has a shape of its own.          *)
LEMMA WithSecondSources ==
    ASSUME NEW a, NEW b, NEW s
    PROVE  /\ add1_impl(a, b, FALSE).src = <<a, b>>
           /\ soft_max_ext(a, b, s).src = <<a, b>>
           /\ acc_impl(a, b, s, FALSE).src = <<a, b>>
           /\ set(a, b, s).src = <<a, b>>
<1>1. add1_impl(a, b, FALSE).src = <<a, b>>
  BY DEF add1_impl, Like, NewTensor
<1>2. soft_max_ext(a, b, s).src = <<a, b>>
  BY DEF soft_max_ext, Like, NewTensor
<1>3. acc_impl(a, b, s, FALSE).src = <<a, b>>
  BY DEF acc_impl, Like, NewTensor
<1>4. set(a, b, s).src = <<a, b>>
  BY DEF set, Like, NewTensor
<1>5. QED
  BY <1>1, <1>2, <1>3, <1>4

(* The same for those that sum or repeat.                                  *)
LEMMA ReductionSources ==
    ASSUME NEW a, NEW b
    PROVE  /\ sum(a).src = <<a>>
           /\ sum_rows(a).src = <<a>>
           /\ mean(a).src = <<a>>
           /\ cross_entropy_loss(a, b).src = <<a, b>>
           /\ repeat(a, b).src = <<a>>
           /\ repeat_back(a, b).src = <<a>>
           /\ mul_mat(a, b).src = <<a, b>>
           /\ get_rows(a, b).src = <<a, b>>
<1>1. sum(a).src = <<a>>
  BY DEF sum, NewTensor
<1>2. sum_rows(a).src = <<a>>
  BY DEF sum_rows, NewTensor
<1>3. mean(a).src = <<a>>
  BY DEF mean, NewTensor
<1>4. cross_entropy_loss(a, b).src = <<a, b>>
  BY DEF cross_entropy_loss, NewTensor
<1>5. repeat(a, b).src = <<a>>
  BY DEF repeat, NewTensor
<1>6. repeat_back(a, b).src = <<a>>
  BY DEF repeat_back, NewTensor
<1>7. mul_mat(a, b).src = <<a, b>>
  BY DEF mul_mat, NewTensor
<1>8. get_rows(a, b).src = <<a, b>>
  BY DEF get_rows, NewTensor
<1>9. QED
  BY <1>1, <1>2, <1>3, <1>4, <1>5, <1>6, <1>7, <1>8

(* The same for those that change where the elements lie.                  *)
LEMMA MovedSources ==
    ASSUME NEW a, NEW b, NEW ne, NEW at
    PROVE  /\ cont(a).src = <<a>>
           /\ cpy(a, b).src = <<a, b>>
           /\ reshape(a, ne).src = <<a>>
           /\ view_4d(a, ne, at).src = <<a>>
           /\ permute(a, at).src = <<a>>
           /\ transpose(a).src = <<a>>
<1>1. cont(a).src = <<a>>
  BY DEF cont, Like, NewTensor
<1>2. cpy(a, b).src = <<a, b>>
  BY DEF cpy, NewView
<1>3. reshape(a, ne).src = <<a>>
  BY DEF reshape, NewView
<1>4. view_4d(a, ne, at).src = <<a>>
  BY DEF view_4d, NewView
<1>5. permute(a, at).src = <<a>>
  BY DEF permute, NewView
<1>6. transpose(a).src = <<a>>
  BY DEF transpose, NewView
<1>7. QED
  BY <1>1, <1>2, <1>3, <1>4, <1>5, <1>6

(* What is made of references to tensors that exist.                       *)
MadeOf(e) == \A k \in DOMAIN e.src : e.src[k].arg[1] \in Tensors

(* References to tensors that exist name sources that come first.          *)
LEMMA MadeOfReferences ==
    ASSUME NEW e, NEW i \in Tensors, NEW j \in Tensors,
           e.src = <<Ref(i)>> \/ e.src = <<Ref(i), Ref(j)>>
    PROVE  MadeOf(e)
BY DEF MadeOf, Ref

(* Making a tensor of such references keeps sources first.                 *)
LEMMA MakingKeepsSourcesFirst ==
    ASSUME IsSequence, SourcesComeFirst, NEW e, MadeOf(e),
           tensors' = Append(tensors, e)
    PROVE  IsSequence' /\ SourcesComeFirst' /\ Tensors \subseteq Tensors'
<1>1. PICK S : tensors \in Seq(S)
  BY DEF IsSequence
<1>2. tensors' \in Seq(S \cup {e})
  BY <1>1
<1>3. /\ Len(tensors) \in Nat
      /\ Len(tensors') = Len(tensors) + 1
      /\ \A i \in Tensors : tensors'[i] = tensors[i]
      /\ tensors'[Len(tensors) + 1] = e
  BY <1>1 DEF Tensors
<1>4. ASSUME NEW i \in Tensors', NEW s \in Sources(i)'
      PROVE  s \in 1 .. i - 1
  <2>1. CASE i \in Tensors
    BY <1>3, <2>1 DEF SourcesComeFirst, Sources, Source
  <2>2. CASE i = Len(tensors) + 1
    BY <1>3, <2>2 DEF MadeOf, Sources, Source, Tensors
  <2>3. QED
    BY <1>3, <2>1, <2>2 DEF Tensors
<1>5. QED
  BY <1>2, <1>3, <1>4 DEF IsSequence, SourcesComeFirst, Tensors

(* A step in which the program makes a tensor.                             *)
Makes == /\ phase = "forward"
         /\ UNCHANGED <<program, flags, grads, cursor, phase>>
         /\ \E e : MadeOf(e) /\ tensors' = Append(tensors, e)

(* Appending such a tensor is what all the actions of the program do.      *)
LEMMA MakeIsOne ==
    ASSUME MayMake, NEW e, Make(e), MadeOf(e)
    PROVE  Makes
BY DEF MayMake, Make, Makes

(* What can be used has been made.                                         *)
LEMMA UsableExist == Usable \subseteq Tensors
BY DEF Usable

(* Element by element, on one tensor.                                      *)
LEMMA MakePointwiseMakes == MakePointwise => Makes
<1>1. SUFFICES ASSUME MayMake, NEW i \in Usable, NEW op,
                      \/ Make(plain(op, Ref(i))) \/ Make(unary(op, Ref(i)))
                      \/ Make(diag_mask(op, Ref(i), 0))
                      \/ Make(scale_impl(Ref(i), <<3, 1>>, 1))
                      \/ Make(soft_max(Ref(i)))
               PROVE  Makes
  BY DEF MakePointwise
<1>2. i \in Tensors
  BY UsableExist
<1>3. /\ MadeOf(plain(op, Ref(i))) /\ MadeOf(unary(op, Ref(i)))
      /\ MadeOf(diag_mask(op, Ref(i), 0))
      /\ MadeOf(scale_impl(Ref(i), <<3, 1>>, 1))
      /\ MadeOf(soft_max(Ref(i)))
  BY <1>2, PointwiseSources, MadeOfReferences, ZenonT(60)
<1>4. QED
  BY <1>1, <1>3, MakeIsOne

(* Element by element, on two.                                             *)
LEMMA MakeElementwiseMakes == MakeElementwise => Makes
<1>1. SUFFICES ASSUME MayMake, NEW i \in Usable, NEW j \in Usable, NEW op,
                      \/ Make(elementwise(op, Ref(i), Ref(j), FALSE))
                      \/ Make(glu(op, Ref(i), Ref(j)))
                      \/ Make(add1_impl(Ref(i), Ref(j), FALSE))
                      \/ Make(soft_max_ext(Ref(i), Ref(j), <<3, 1>>))
               PROVE  Makes
  BY DEF MakeElementwise
<1>2. i \in Tensors /\ j \in Tensors
  BY UsableExist
<1>3. MadeOf(elementwise(op, Ref(i), Ref(j), FALSE))
  BY <1>2, ElementwiseSources, MadeOfReferences, ZenonT(60)
<1>4. MadeOf(glu(op, Ref(i), Ref(j)))
  BY <1>2, ElementwiseSources, MadeOfReferences, ZenonT(60)
<1>5. MadeOf(add1_impl(Ref(i), Ref(j), FALSE))
  BY <1>2, WithSecondSources, MadeOfReferences, ZenonT(60)
<1>6. MadeOf(soft_max_ext(Ref(i), Ref(j), <<3, 1>>))
  BY <1>2, WithSecondSources, MadeOfReferences, ZenonT(60)
<1>7. QED
  BY <1>1, <1>3, <1>4, <1>5, <1>6, MakeIsOne

(* Sums, means and the loss.                                               *)
LEMMA MakeReductionMakes == MakeReduction => Makes
<1>1. SUFFICES ASSUME MayMake, NEW i \in Usable, NEW j \in Usable,
                      \/ Make(sum(Ref(i))) \/ Make(sum_rows(Ref(i)))
                      \/ Make(mean(Ref(i)))
                      \/ Make(cross_entropy_loss(Ref(i), Ref(j)))
               PROVE  Makes
  BY DEF MakeReduction
<1>2. i \in Tensors /\ j \in Tensors
  BY UsableExist
<1>3. /\ MadeOf(sum(Ref(i))) /\ MadeOf(sum_rows(Ref(i))) /\ MadeOf(mean(Ref(i)))
      /\ MadeOf(cross_entropy_loss(Ref(i), Ref(j)))
  BY <1>2, ReductionSources, MadeOfReferences, ZenonT(60)
<1>4. QED
  BY <1>1, <1>3, MakeIsOne

(* Repetition, forwards and back.                                          *)
LEMMA MakeRepeatMakes == MakeRepeat => Makes
<1>1. SUFFICES ASSUME MayMake, NEW i \in Usable, NEW j \in Usable,
                      \/ Make(repeat(Ref(i), tensors[j]))
                      \/ Make(repeat_back(Ref(i), tensors[j]))
               PROVE  Makes
  BY DEF MakeRepeat
<1>2. i \in Tensors
  BY UsableExist
<1>3. MadeOf(repeat(Ref(i), tensors[j])) /\ MadeOf(repeat_back(Ref(i), tensors[j]))
  BY <1>2, ReductionSources, MadeOfReferences, ZenonT(60)
<1>4. QED
  BY <1>1, <1>3, MakeIsOne

(* Matrix products and the choice of rows.                                 *)
LEMMA MakeProductMakes == MakeProduct \/ MakeGetRows => Makes
<1>1. SUFFICES ASSUME MayMake, NEW i \in Tensors, NEW j \in Tensors,
                      \/ Make(mul_mat(Ref(i), Ref(j)))
                      \/ Make(get_rows(Ref(i), Ref(j)))
               PROVE  Makes
  BY UsableExist DEF MakeProduct, MakeGetRows
<1>2. MadeOf(mul_mat(Ref(i), Ref(j))) /\ MadeOf(get_rows(Ref(i), Ref(j)))
  BY ReductionSources, MadeOfReferences, ZenonT(60)
<1>3. QED
  BY <1>1, <1>2, MakeIsOne

(* Blocks written into a tensor.                                           *)
LEMMA MakeWithBlockMakes == MakeWithBlock => Makes
<1>1. SUFFICES ASSUME MayMake, NEW i \in Usable, NEW j \in Usable, NEW at,
                      \/ Make(acc_impl(Ref(i), Ref(j), at, FALSE))
                      \/ Make(set(Ref(i), Ref(j), at))
               PROVE  Makes
  BY DEF MakeWithBlock
<1>2. i \in Tensors /\ j \in Tensors
  BY UsableExist
<1>3. MadeOf(acc_impl(Ref(i), Ref(j), at, FALSE))
  BY <1>2, WithSecondSources, MadeOfReferences, ZenonT(60)
<1>4. MadeOf(set(Ref(i), Ref(j), at))
  BY <1>2, WithSecondSources, MadeOfReferences, ZenonT(60)
<1>5. QED
  BY <1>1, <1>3, <1>4, MakeIsOne

(* Copies and views.                                                       *)
LEMMA MakeMovedMakes == MakeMoved => Makes
<1>1. SUFFICES ASSUME MayMake, NEW i \in Usable, NEW j \in Tensors, NEW ne, NEW at,
                      \/ Make(cont(Ref(i))) \/ Make(transpose(Ref(i)))
                      \/ Make(permute(Ref(i), <<2, 3, 1, 4>>))
                      \/ Make(reshape(Ref(i), ne))
                      \/ Make(view_4d(Ref(i), ne, at))
                      \/ Make(cpy(Ref(i), Ref(j)))
               PROVE  Makes
  BY UsableExist DEF MakeMoved
<1>2. i \in Tensors
  BY UsableExist
<1>3. MadeOf(cont(Ref(i)))
  BY <1>2, MovedSources, MadeOfReferences, ZenonT(60)
<1>4. MadeOf(transpose(Ref(i)))
  BY <1>2, MovedSources, MadeOfReferences, ZenonT(60)
<1>5. MadeOf(permute(Ref(i), <<2, 3, 1, 4>>))
  BY <1>2, MovedSources, MadeOfReferences, ZenonT(60)
<1>6. MadeOf(reshape(Ref(i), ne))
  BY <1>2, MovedSources, MadeOfReferences, ZenonT(60)
<1>7. MadeOf(view_4d(Ref(i), ne, at))
  BY <1>2, MovedSources, MadeOfReferences, ZenonT(60)
<1>8. MadeOf(cpy(Ref(i), Ref(j)))
  BY <1>2, MovedSources, MadeOfReferences, ZenonT(60)
<1>9. QED
  BY <1>1, <1>3, <1>4, <1>5, <1>6, <1>7, <1>8, MakeIsOne
-----------------------------------------------------------------------------
(* What is handed to one tensor leaves the gradients of the others alone.  *)
LEMMA ContributeElsewhere ==
    ASSUME NEW gs, NEW s, NEW c
    PROVE  /\ \A i \in DOMAIN gs \ {s} : Contribute(gs, s, c)[i] = gs[i]
           /\ DOMAIN gs \subseteq DOMAIN Contribute(gs, s, c)
           /\ DOMAIN Contribute(gs, s, c) \subseteq DOMAIN gs \cup {s}
BY DEF Contribute, WithGradient

(* A source is older than its node: gradients from the node on stay.       *)
LEMMA AfterSourceElsewhere ==
    ASSUME SourcesComeFirst, NEW gs, NEW n \in Tensors, NEW k
    PROVE  /\ \A i \in DOMAIN gs : i >= n => AfterSource(gs, n, k)[i] = gs[i]
           /\ DOMAIN gs \subseteq DOMAIN AfterSource(gs, n, k)
           /\ DOMAIN AfterSource(gs, n, k) \subseteq DOMAIN gs \cup needed
<1>1. CASE k \in DOMAIN tensors[n].src /\ Source(n, k) \in needed
  <2>1. Source(n, k) \in 1 .. n - 1
    BY <1>1 DEF SourcesComeFirst, Sources
  <2>2. \A i \in DOMAIN gs : i >= n => i # Source(n, k)
    BY <2>1 DEF Tensors
  <2>3. QED
    BY <1>1, <2>2, ContributeElsewhere DEF AfterSource
<1>2. CASE ~(k \in DOMAIN tensors[n].src /\ Source(n, k) \in needed)
  BY <1>2 DEF AfterSource
<1>3. QED
  BY <1>1, <1>2

(* So they do whatever its two sources get.                                *)
LEMMA GradsAfterElsewhere ==
    ASSUME SourcesComeFirst, NEW n \in Tensors
    PROVE  /\ \A i \in DOMAIN grads : i >= n => GradsAfter(n)[i] = grads[i]
           /\ DOMAIN grads \subseteq DOMAIN GradsAfter(n)
           /\ DOMAIN GradsAfter(n) \subseteq DOMAIN grads \cup needed
BY AfterSourceElsewhere DEF GradsAfter

(* The losses, and the parameters of the graph, need a gradient.           *)
LEMMA NeededAtLeast ==
    ASSUME TypeOK
    PROVE  losses \cup (Params \cap InGraph) \subseteq NeedsGradient
           /\ NeedsGradient \subseteq Tensors
BY DEF TypeOK, NeedsGradient, InGraph

-----------------------------------------------------------------------------
(* Nothing has been made but leaves, and nothing is marked.                *)
LEMMA InitInv == Init => Inv
<1>1. SUFFICES ASSUME Init
               PROVE  Inv
  OBVIOUS
<1>2. PICK n \in Nat : DOMAIN program.leaves = 1 .. n
  <2>1. program.leaves \in Seq(LeafKinds \X [Dims -> Nat \ {0}])
    BY <1>1, ProgramAssumption DEF Init
  <2>2. QED
    BY <2>1
<1>3. tensors = [k \in 1 .. n |-> Leaf(program.leaves[k])]
  BY <1>1, <1>2 DEF Init
<1>4. IsSequence
  <2>1. tensors \in Seq({Leaf(program.leaves[k]) : k \in 1 .. n})
    BY <1>3
  <2>2. QED
    BY <2>1 DEF IsSequence
<1>5. Tensors = 1 .. n
  BY <1>3 DEF Tensors
<1>6. ASSUME NEW leaf
      PROVE  Leaf(leaf).src = <<>>
  BY DEF Leaf, NewTensor
<1>7. SourcesComeFirst
  BY <1>3, <1>5, <1>6 DEF SourcesComeFirst, Sources
<1>8. TypeOK /\ BeforeBackward
  BY <1>1, <1>3 DEF Init, TypeOK, BeforeBackward
<1>9. QED
  BY <1>4, <1>7, <1>8 DEF Inv

(* To make a tensor, and to flag it, keeps the invariant.                  *)
LEMMA MakesInv == Inv /\ Makes => Inv'
<1>1. SUFFICES ASSUME Inv, Makes
               PROVE  Inv'
  OBVIOUS
<1>2. PICK e : MadeOf(e) /\ tensors' = Append(tensors, e)
  BY <1>1 DEF Makes
<1>3. IsSequence' /\ SourcesComeFirst' /\ Tensors \subseteq Tensors'
  BY <1>1, <1>2, MakingKeepsSourcesFirst DEF Inv
<1>4. Len(tensors') \in Nat
  BY <1>3 DEF IsSequence
<1>5. TypeOK' /\ BeforeBackward'
  BY <1>1, <1>3, <1>4 DEF Inv, TypeOK, BeforeBackward, Makes, flags
<1>6. QED
  BY <1>3, <1>5 DEF Inv

(* What a step leaves alone that makes no tensor.                          *)
LEMMA SameTensors ==
    ASSUME IsSequence, SourcesComeFirst, UNCHANGED tensors
    PROVE  IsSequence' /\ SourcesComeFirst' /\ Tensors' = Tensors
           /\ Len(tensors) \in Nat
BY DEF IsSequence, SourcesComeFirst, Tensors, Sources, Source

(* Flagging a loss keeps the invariant.                                    *)
LEMMA SetLossInv == Inv /\ SetLoss => Inv'
<1>1. SUFFICES ASSUME Inv, SetLoss
               PROVE  Inv'
  OBVIOUS
<1>2. IsSequence' /\ SourcesComeFirst' /\ Tensors' = Tensors
  BY <1>1, SameTensors DEF Inv, SetLoss
<1>3. losses' \subseteq Tensors
  BY <1>1 DEF Inv, SetLoss, TypeOK
<1>4. TypeOK' /\ BeforeBackward'
  BY <1>1, <1>2, <1>3 DEF Inv, SetLoss, TypeOK, BeforeBackward
<1>5. QED
  BY <1>2, <1>4 DEF Inv

(* The accumulators are those of losses and of parameters of the graph.    *)
LEMMA BackwardExpandInv == Inv /\ BackwardExpand => Inv'
<1>1. SUFFICES ASSUME Inv, BackwardExpand
               PROVE  Inv'
  OBVIOUS
<1>2. IsSequence' /\ SourcesComeFirst' /\ Tensors' = Tensors
      /\ Len(tensors) \in Nat
  BY <1>1, SameTensors DEF Inv, BackwardExpand
<1>3. PICK given \in SUBSET (Params \cap InGraph) :
          /\ accs' = given \cup losses
          /\ grads' = [i \in given \cup losses |-> Accumulator(i)]
  BY <1>1 DEF BackwardExpand
<1>4. accs' \subseteq needed' /\ needed' \subseteq Tensors
  BY <1>1, <1>3, NeededAtLeast DEF Inv, BackwardExpand
<1>5. DOMAIN grads' = accs'
  BY <1>3
<1>6. cursor' \in 0 .. Len(tensors') /\ phase' = "backward"
  BY <1>1, <1>2 DEF BackwardExpand
<1>7. TypeOK' /\ BeforeBackward'
  BY <1>1, <1>2, <1>4, <1>5, <1>6
     DEF Inv, BackwardExpand, TypeOK, BeforeBackward
<1>8. QED
  BY <1>2, <1>7 DEF Inv

(* Only tensors that need a gradient get one.                              *)
LEMMA ComputeBackwardInv == Inv /\ ComputeBackward => Inv'
<1>1. SUFFICES ASSUME Inv, ComputeBackward
               PROVE  Inv'
  OBVIOUS
<1>2. IsSequence' /\ SourcesComeFirst' /\ Tensors' = Tensors
      /\ Len(tensors) \in Nat
  BY <1>1, SameTensors DEF Inv, ComputeBackward
<1>3. cursor \in Tensors
  BY <1>1, <1>2 DEF Inv, TypeOK, ComputeBackward, Tensors
<1>4. DOMAIN grads \subseteq DOMAIN grads'
      /\ DOMAIN grads' \subseteq DOMAIN grads \cup needed
  BY <1>1, <1>3, GradsAfterElsewhere DEF Inv, ComputeBackward
<1>5. cursor' \in 0 .. Len(tensors')
  BY <1>1, <1>2, <1>3 DEF ComputeBackward, Tensors
<1>6. TypeOK' /\ BeforeBackward'
  BY <1>1, <1>2, <1>4, <1>5
     DEF Inv, ComputeBackward, TypeOK, BeforeBackward, flags
<1>7. QED
  BY <1>2, <1>6 DEF Inv

(* A step that changes neither tensors nor gradients.                      *)
LEMMA OtherInv ==
    Inv /\ (NothingToTrain \/ PassBy \/ Abort \/ UNCHANGED vars) => Inv'
<1>1. SUFFICES ASSUME Inv,
                      NothingToTrain \/ PassBy \/ Abort \/ UNCHANGED vars
               PROVE  Inv'
  OBVIOUS
<1>2. UNCHANGED <<program, tensors, losses, accs, needed, grads>>
  BY <1>1 DEF NothingToTrain, PassBy, Abort, vars, flags
<1>3. IsSequence' /\ SourcesComeFirst' /\ Tensors' = Tensors
      /\ Len(tensors) \in Nat
  BY <1>1, <1>2, SameTensors DEF Inv
<1>4. /\ cursor' \in 0 .. Len(tensors')
      /\ phase' \in {"forward", "backward", "aborted"}
      /\ phase' = "forward" => phase = "forward" /\ cursor' = cursor
  BY <1>1, <1>2, <1>3
     DEF Inv, TypeOK, NothingToTrain, PassBy, Abort, vars
<1>5. TypeOK' /\ BeforeBackward'
  BY <1>1, <1>2, <1>3, <1>4 DEF Inv, TypeOK, BeforeBackward
<1>6. QED
  BY <1>3, <1>5 DEF Inv

(* The actions of the program, together.                                   *)
LEMMA NextMakes ==
    Next => \/ Makes \/ SetLoss \/ BackwardExpand \/ ComputeBackward
            \/ NothingToTrain \/ PassBy \/ Abort
BY MakePointwiseMakes, MakeElementwiseMakes, MakeReductionMakes,
   MakeRepeatMakes, MakeProductMakes, MakeWithBlockMakes, MakeMovedMakes
   DEF Next

(* The invariant is inductive.                                             *)
LEMMA NextInv == Inv /\ [Next]_vars => Inv'
BY NextMakes, MakesInv, SetLossInv, BackwardExpandInv, ComputeBackwardInv,
   OtherInv

(* Accumulators and gradients belong to tensors that need a gradient, the  *)
(* losses are tensors, and the walk stays in the graph.                    *)
THEOREM TypeCorrect == Spec => []TypeOK
<1>1. Inv => TypeOK
  BY DEF Inv
<1>2. QED
  BY InitInv, NextInv, <1>1, PTL DEF Spec

(* No step of the walk changes the gradient of a node it has come to: the  *)
(* gradient a node hands on is the whole of it.                            *)
THEOREM Final == Spec => GradientsAreFinal
<1>1. ASSUME Inv, [Next]_vars, phase = "backward",
             NEW i \in DOMAIN grads, i >= cursor
      PROVE  grads'[i] = grads[i]
  <2>1. CASE ComputeBackward
    <3>1. cursor \in Tensors
      BY <1>1, <2>1, SameTensors DEF Inv, TypeOK, ComputeBackward, Tensors
    <3>2. QED
      BY <1>1, <2>1, <3>1, GradsAfterElsewhere DEF Inv, ComputeBackward
  <2>2. CASE NothingToTrain \/ PassBy \/ Abort \/ UNCHANGED vars
    BY <2>2 DEF NothingToTrain, PassBy, Abort, vars
  <2>3. CASE Makes \/ SetLoss \/ BackwardExpand
    BY <1>1, <2>3 DEF Makes, SetLoss, BackwardExpand
  <2>4. QED
    BY <1>1, <2>1, <2>2, <2>3, NextMakes
<1>2. Inv /\ [Next]_vars =>
        [phase = "backward" =>
            \A i \in DOMAIN grads : i >= cursor => grads'[i] = grads[i]]_vars
  BY <1>1
<1>3. QED
  BY InitInv, NextInv, <1>2, PTL DEF Spec, GradientsAreFinal
-----------------------------------------------------------------------------
(* What the assertions of the constructors leave of a tensor.              *)
Shape == [Dims -> Nat \ {0}]

(* A tensor as the constructors make one: if none of their assertions      *)
(* failed, it lies within the memory it names.                             *)
Lies(e) ==
    /\ {"ne", "nb", "offs", "room", "ok"} \subseteq DOMAIN e
    /\ e.ne \in Shape /\ e.offs \in Nat /\ e.room \in Nat
    /\ e.ok => e.offs + Product(e.ne) <= e.room

(* One that passed them and has a given shape; and one without gaps.       *)
Good(e, ne) == Lies(e) /\ e.ok /\ e.ne = ne
Fresh(e, ne) == Good(e, ne) /\ e.nb = Packed(ne)

(* The number of elements of a shape is a positive number.                 *)
LEMMA ProductIsPositive ==
    ASSUME NEW ne \in Shape
    PROVE  Product(ne) \in Nat \ {0}
<1>1. /\ ne[1] \in Nat \ {0} /\ ne[2] \in Nat \ {0}
      /\ ne[3] \in Nat \ {0} /\ ne[4] \in Nat \ {0}
  BY DEF Shape, Dims
<1>2. ASSUME NEW a \in Nat \ {0}, NEW b \in Nat \ {0}
      PROVE  a * b \in Nat \ {0}
  OBVIOUS
<1>3. QED
  BY <1>1, <1>2 DEF Product

(* Four sizes are a shape, and shapes of the same sizes are equal.         *)
LEMMA SizesAreShape ==
    ASSUME NEW a \in Nat \ {0}, NEW b \in Nat \ {0},
           NEW c \in Nat \ {0}, NEW d \in Nat \ {0}
    PROVE  <<a, b, c, d>> \in Shape
<1>1. DOMAIN <<a, b, c, d>> = Dims
  BY DEF Dims
<1>2. <<a, b, c, d>> = [i \in Dims |-> <<a, b, c, d>>[i]]
  BY <1>1
<1>3. \A i \in Dims : <<a, b, c, d>>[i] \in Nat \ {0}
  BY DEF Dims
<1>4. QED
  BY <1>2, <1>3 DEF Shape

(* A shape is its four sizes.                                              *)
LEMMA SameSizes ==
    ASSUME NEW ne \in Shape
    PROVE  ne = <<ne[1], ne[2], ne[3], ne[4]>>
<1>1. ne = [i \in Dims |-> ne[i]]
  BY DEF Shape
<1>2. DOMAIN <<ne[1], ne[2], ne[3], ne[4]>> = Dims
  BY DEF Dims
<1>3. <<ne[1], ne[2], ne[3], ne[4]>> = [i \in Dims |-> <<ne[1], ne[2], ne[3], ne[4]>>[i]]
  BY <1>2
<1>4. \A i \in Dims : <<ne[1], ne[2], ne[3], ne[4]>>[i] = ne[i]
  BY DEF Dims
<1>5. QED
  BY <1>1, <1>3, <1>4

(* They are positive numbers.                                              *)
LEMMA SizesOf ==
    ASSUME NEW ne \in Shape
    PROVE  /\ ne[1] \in Nat \ {0} /\ ne[2] \in Nat \ {0}
           /\ ne[3] \in Nat \ {0} /\ ne[4] \in Nat \ {0}
BY DEF Shape, Dims

(* The shape of the sums of rows.                                          *)
LEMMA FirstSizeReplaced ==
    ASSUME NEW ne \in Shape
    PROVE  /\ [ne EXCEPT ![1] = 1] \in Shape
           /\ [ne EXCEPT ![1] = 1] = <<1, ne[2], ne[3], ne[4]>>
<1>1. ne \in [Dims -> Nat \ {0}] /\ 1 \in Dims /\ 1 \in Nat \ {0}
  BY DEF Shape, Dims
<1> DEFINE other == [ne EXCEPT ![1] = 1]
<1>2. other \in Shape
  BY <1>1 DEF Shape
<1>3. other[1] = 1 /\ other[2] = ne[2] /\ other[3] = ne[3] /\ other[4] = ne[4]
  BY <1>1 DEF Dims
<1>4. QED
  BY <1>2, <1>3, SameSizes

(* A tensor of one source is as sound as that source.                      *)
LEMMA SourceOk ==
    ASSUME NEW a
    PROVE  AllOk(<<a>>) <=> a.ok
BY DEF AllOk

(* A tensor of two is as sound as both.                                    *)
LEMMA SourcesOk ==
    ASSUME NEW a, NEW b
    PROVE  AllOk(<<a, b>>) <=> a.ok /\ b.ok
BY DEF AllOk

(* ggml_new_tensor() gives a tensor exactly the memory it fills.           *)
LEMMA NewTensorLies ==
    ASSUME NEW op, NEW src, NEW arg, NEW ne \in Shape, NEW guard \in BOOLEAN
    PROVE  LET e == NewTensor(op, src, arg, ne, guard)
           IN  Lies(e) /\ (guard /\ AllOk(src) => Fresh(e, ne))
BY ProductIsPositive DEF NewTensor, Lies, Good, Fresh

(* A view whose block fits into what it is a view of lies in its memory.   *)
LEMMA NewViewLies ==
    ASSUME NEW op, NEW src, NEW arg, NEW of, NEW ne \in Shape, NEW nb,
           NEW offset \in Nat, NEW guard \in BOOLEAN, Lies(of)
    PROVE  LET e == NewView(op, src, arg, of, ne, nb, offset, guard)
           IN  /\ Lies(e) /\ e.nb = nb
               /\ guard /\ AllOk(src) /\ of.ok /\ offset + Product(ne) <= Product(of.ne)
                    => Good(e, ne)
<1>1. Product(ne) \in Nat /\ Product(of.ne) \in Nat
  BY ProductIsPositive DEF Lies
<1>2. QED
  BY <1>1 DEF NewView, Lies, Good

-----------------------------------------------------------------------------
(* What the assertions of the constructors say of a tensor and its sources.*)
OneOf(e, ops) == e.op \in ops /\ e.src = <<e.src[1]>>
TwoOf(e, ops) == e.op \in ops /\ e.src = <<e.src[1], e.src[2]>>


(* By the families of constructors: those that keep the shape of their     *)
(* first source, those that choose another, and those that move elements.  *)
ShapeKept == Plain \cup Unary \cup DiagMask \cup {"scale", "soft_max", "cont"}
RowsSummed == {"sum_rows", "mean"}

AcceptedKept(e) ==
    LET a == e.src[1]
        b == e.src[2]
    IN  \/ /\ OneOf(e, ShapeKept)
           /\ e.ne = a.ne
           /\ e.op \in Unary => is_contiguous_rows(a)
        \/ TwoOf(e, {"soft_max"}) /\ e.ne = a.ne
        \/ TwoOf(e, Elementwise) /\ e.ne = a.ne /\ can_repeat(b, a)
        \/ TwoOf(e, {"add1"}) /\ e.ne = a.ne /\ is_scalar(b)
        \/ TwoOf(e, Glu) /\ e.ne = a.ne /\ e.ne = b.ne /\ is_contiguous_rows(a)
        \/ /\ TwoOf(e, {"acc", "set"})
           /\ e.ne = a.ne
           /\ e.arg[4] \in Nat
           /\ e.arg[4] + Product(b.ne) <= Product(a.ne)

AcceptedShaped(e) ==
    LET a == e.src[1]
        b == e.src[2]
    IN  \/ OneOf(e, {"sum"}) /\ e.ne = <<1, 1, 1, 1>>
        \/ OneOf(e, RowsSummed) /\ e.ne = [a.ne EXCEPT ![1] = 1]
        \/ /\ TwoOf(e, {"cross_entropy_loss"})
           /\ e.ne = <<1, 1, 1, 1>> /\ a.ne = b.ne
        \/ OneOf(e, {"repeat"}) /\ can_repeat(a, e)
        \/ OneOf(e, {"repeat_back"}) /\ can_repeat(e, a)
        \/ /\ TwoOf(e, {"mul_mat"})
           /\ e.ne = <<a.ne[2], b.ne[2], b.ne[3], b.ne[4]>>
           /\ a.ne[1] = b.ne[1] /\ BroadcastOver(a, b) /\ ~is_transposed(a)
        \/ /\ TwoOf(e, {"get_rows"})
           /\ e.ne = <<a.ne[1], b.ne[1], b.ne[2], b.ne[3]>>
           /\ a.ne[3] = b.ne[2] /\ a.ne[4] = b.ne[3] /\ b.ne[4] = 1
           /\ b.type = "i32"

AcceptedMoved(e) ==
    LET a == e.src[1]
        b == e.src[2]
    IN  \/ TwoOf(e, {"cpy"}) /\ Product(e.ne) = Product(a.ne)
        \/ OneOf(e, {"reshape"}) /\ Product(e.ne) = Product(a.ne)
        \/ OneOf(e, {"view"}) /\ Product(e.ne) <= Product(a.ne)
        \/ /\ OneOf(e, {"permute"})
           /\ e.arg = <<2, 3, 1, 4>>
           /\ e.ne = <<a.ne[3], a.ne[1], a.ne[2], a.ne[4]>>
        \/ /\ OneOf(e, {"transpose"})
           /\ e.ne = <<a.ne[2], a.ne[1], a.ne[3], a.ne[4]>>

(* A leaf has no sources.                                                  *)
AcceptedLeaf(e) == e.op \in LeafKinds /\ e.src = <<>>

Accepted(e) ==
    /\ e.ne \in Shape
    /\ AcceptedLeaf(e) \/ AcceptedKept(e) \/ AcceptedShaped(e) \/ AcceptedMoved(e)

(* What it says of a tensor of the graph: its sources are references, only *)
(* row numbers are integers, and a copy goes into a target.                *)
Refers(e) == \A k \in DOMAIN e.src : e.src[k] = Ref(e.src[k].arg[1])
Typed(e) == /\ e.type = IF e.op = "index" THEN "i32" ELSE "f32"
            /\ e.op = "cpy" => tensors[e.src[2].arg[1]].op = "target"
AcceptedInv ==
    \A i \in Tensors : Accepted(tensors[i]) /\ Refers(tensors[i]) /\ Typed(tensors[i])

(* A step in which the program makes a tensor that was accepted.           *)
AppendsAccepted ==
    /\ phase = "forward"
    /\ UNCHANGED <<program, flags, grads, cursor, phase>>
    /\ \E e : /\ MadeOf(e) /\ Accepted(e) /\ Refers(e) /\ Typed(e)
              /\ tensors' = Append(tensors, e)

(* A reference has the shape of what it refers to.                         *)
LEMMA RefFields ==
    ASSUME AcceptedInv, NEW i \in Tensors
    PROVE  /\ Ref(i).ne = tensors[i].ne /\ Ref(i).ne \in Shape
           /\ Ref(i).type = tensors[i].type
           /\ Ref(i).arg = <<i>> /\ Ref(i).ok
BY DEF Ref, AcceptedInv, Accepted

(* What is made of one reference refers to a tensor.                       *)
LEMMA RefersToOne ==
    ASSUME NEW e, NEW i \in Tensors, e.src = <<Ref(i)>>
    PROVE  Refers(e) /\ MadeOf(e)
<1>1. Ref(i).arg[1] = i
  BY DEF Ref
<1>2. QED
  BY <1>1 DEF Refers, MadeOf

(* What is made of two refers to two.                                      *)
LEMMA RefersToTwo ==
    ASSUME NEW e, NEW i \in Tensors, NEW j \in Tensors, e.src = <<Ref(i), Ref(j)>>
    PROVE  Refers(e) /\ MadeOf(e)
<1>1. Ref(i).arg[1] = i /\ Ref(j).arg[1] = j
  BY DEF Ref
<1>2. QED
  BY <1>1 DEF Refers, MadeOf

(* Which of the usable are which.                                          *)
LEMMA UsableFields ==
    ASSUME AcceptedInv, NEW i \in Usable
    PROVE  /\ i \in Tensors /\ Ref(i).type = "f32" /\ Ref(i).ne \in Shape
           /\ tensors[i].op # "index"
BY RefFields DEF Usable, AcceptedInv, Typed

(* What the constructors let pass, element by element, on one tensor.      *)
LEMMA PointwiseAccepted ==
    ASSUME NEW a, a.ne \in Shape, NEW op
    PROVE  /\ op \in Plain => Accepted(plain(op, a))
           /\ op \in Unary /\ unary(op, a).ok => Accepted(unary(op, a))
           /\ op \in DiagMask => Accepted(diag_mask(op, a, 0))
           /\ Accepted(scale_impl(a, <<3, 1>>, 1))
           /\ Accepted(soft_max(a))
<1>1. ASSUME op \in Plain PROVE Accepted(plain(op, a))
  BY <1>1 DEF plain, Like, NewTensor, Accepted, AcceptedKept, OneOf, ShapeKept, Plain, Unary
<1>2. ASSUME op \in Unary, unary(op, a).ok PROVE Accepted(unary(op, a))
  BY <1>2 DEF unary, Like, NewTensor, Accepted, AcceptedKept, OneOf, ShapeKept
<1>3. ASSUME op \in DiagMask PROVE Accepted(diag_mask(op, a, 0))
  BY <1>3 DEF diag_mask, Like, NewTensor, Accepted, AcceptedKept, OneOf, ShapeKept, DiagMask, Unary
<1>4. Accepted(scale_impl(a, <<3, 1>>, 1))
  BY DEF scale_impl, Like, NewTensor, Accepted, AcceptedKept, OneOf, ShapeKept, Unary
<1>5. Accepted(soft_max(a))
  BY DEF soft_max, Like, NewTensor, Accepted, AcceptedKept, OneOf, ShapeKept, Unary
<1>6. QED
  BY <1>1, <1>2, <1>3, <1>4, <1>5

(* The same on two.                                                        *)
LEMMA ElementwiseAccepted ==
    ASSUME NEW a, a.ne \in Shape, NEW b, b.ne \in Shape, NEW op
    PROVE  /\ op \in Elementwise /\ elementwise(op, a, b, FALSE).ok =>
                Accepted(elementwise(op, a, b, FALSE))
           /\ op \in Glu /\ glu(op, a, b).ok => Accepted(glu(op, a, b))
           /\ add1_impl(a, b, FALSE).ok => Accepted(add1_impl(a, b, FALSE))
           /\ Accepted(soft_max_ext(a, b, <<3, 1>>))
<1>1. ASSUME op \in Elementwise, elementwise(op, a, b, FALSE).ok
      PROVE  Accepted(elementwise(op, a, b, FALSE))
  BY <1>1 DEF elementwise, Like, NewTensor, Accepted, AcceptedKept, TwoOf
<1>2. ASSUME op \in Glu, glu(op, a, b).ok PROVE Accepted(glu(op, a, b))
  BY <1>2 DEF glu, Like, NewTensor, Accepted, AcceptedKept, TwoOf,
     is_contiguous_1, is_contiguous_n, is_contiguous_rows, are_same_shape
<1>3. ASSUME add1_impl(a, b, FALSE).ok PROVE Accepted(add1_impl(a, b, FALSE))
  BY <1>3 DEF add1_impl, Like, NewTensor, Accepted, AcceptedKept, TwoOf
<1>4. Accepted(soft_max_ext(a, b, <<3, 1>>))
  BY DEF soft_max_ext, Like, NewTensor, Accepted, AcceptedKept, TwoOf
<1>5. QED
  BY <1>1, <1>2, <1>3, <1>4

(* The same of sums, means, the loss and repetition.                       *)
LEMMA ReductionAccepted ==
    ASSUME NEW a, a.ne \in Shape, NEW b, b.ne \in Shape
    PROVE  /\ Accepted(sum(a)) /\ Accepted(sum_rows(a)) /\ Accepted(mean(a))
           /\ cross_entropy_loss(a, b).ok => Accepted(cross_entropy_loss(a, b))
           /\ repeat(a, b).ok => Accepted(repeat(a, b))
           /\ repeat_back(a, b).ok => Accepted(repeat_back(a, b))
<1>1. <<1, 1, 1, 1>> \in Shape
  BY SizesAreShape
<1>2. [a.ne EXCEPT ![1] = 1] \in Shape
  BY FirstSizeReplaced
<1>3. Accepted(sum(a))
  BY <1>1 DEF sum, NewTensor, Accepted, AcceptedShaped, OneOf
<1>4. Accepted(sum_rows(a))
  BY <1>2 DEF sum_rows, NewTensor, Accepted, AcceptedShaped, OneOf, RowsSummed
<1>5. Accepted(mean(a))
  BY <1>2 DEF mean, NewTensor, Accepted, AcceptedShaped, OneOf, RowsSummed
<1>6. ASSUME cross_entropy_loss(a, b).ok PROVE Accepted(cross_entropy_loss(a, b))
  BY <1>1, <1>6 DEF cross_entropy_loss, NewTensor, Accepted, AcceptedShaped, TwoOf,
     are_same_shape
<1>7. ASSUME repeat(a, b).ok PROVE Accepted(repeat(a, b))
  BY <1>7 DEF repeat, NewTensor, Accepted, AcceptedShaped, OneOf, can_repeat
<1>8. ASSUME repeat_back(a, b).ok PROVE Accepted(repeat_back(a, b))
  BY <1>8 DEF repeat_back, NewTensor, Accepted, AcceptedShaped, OneOf, can_repeat
<1>9. QED
  BY <1>3, <1>4, <1>5, <1>6, <1>7, <1>8

(* The same of matrix products and the choice of rows.                     *)
LEMMA ProductAccepted ==
    ASSUME NEW a, a.ne \in Shape, NEW b, b.ne \in Shape
    PROVE  /\ mul_mat(a, b).ok => Accepted(mul_mat(a, b))
           /\ get_rows(a, b).ok => Accepted(get_rows(a, b))
<1>1. /\ <<a.ne[2], b.ne[2], b.ne[3], b.ne[4]>> \in Shape
      /\ <<a.ne[1], b.ne[1], b.ne[2], b.ne[3]>> \in Shape
  BY SizesAreShape, SizesOf
<1>2. ASSUME mul_mat(a, b).ok PROVE Accepted(mul_mat(a, b))
  BY <1>1, <1>2 DEF mul_mat, NewTensor, Accepted, AcceptedShaped, TwoOf
<1>3. ASSUME get_rows(a, b).ok PROVE Accepted(get_rows(a, b))
  BY <1>1, <1>3 DEF get_rows, NewTensor, Accepted, AcceptedShaped, TwoOf
<1>4. QED
  BY <1>2, <1>3

(* The same of a block written into a tensor, where the block fits.        *)
LEMMA WithBlockAccepted ==
    ASSUME NEW a, a.ne \in Shape, NEW b, b.ne \in Shape, NEW at,
           at[4] \in Nat, at[4] + Product(b.ne) <= Product(a.ne)
    PROVE  /\ Accepted(acc_impl(a, b, at, FALSE))
           /\ Accepted(set(a, b, at))
<1>1. Accepted(acc_impl(a, b, at, FALSE))
  BY DEF acc_impl, Like, NewTensor, Accepted, AcceptedKept, TwoOf
<1>2. Accepted(set(a, b, at))
  BY DEF set, Like, NewTensor, Accepted, AcceptedKept, TwoOf
<1>3. QED
  BY <1>1, <1>2

(* The shape of a permuted tensor, there and back.                         *)
LEMMA PermutedSizes ==
    ASSUME NEW f
    PROVE  /\ [j \in Dims |-> f[CHOOSE k \in Dims : <<2, 3, 1, 4>>[k] = j]]
                = <<f[3], f[1], f[2], f[4]>>
<1>1. /\ (CHOOSE k \in Dims : <<2, 3, 1, 4>>[k] = 1) = 3
      /\ (CHOOSE k \in Dims : <<2, 3, 1, 4>>[k] = 2) = 1
      /\ (CHOOSE k \in Dims : <<2, 3, 1, 4>>[k] = 3) = 2
      /\ (CHOOSE k \in Dims : <<2, 3, 1, 4>>[k] = 4) = 4
  BY DEF Dims
<1>2. DOMAIN <<f[3], f[1], f[2], f[4]>> = Dims
  BY DEF Dims
<1>3. <<f[3], f[1], f[2], f[4]>> = [j \in Dims |-> <<f[3], f[1], f[2], f[4]>>[j]]
  BY <1>2
<1>4. \A j \in Dims : f[CHOOSE k \in Dims : <<2, 3, 1, 4>>[k] = j]
                      = <<f[3], f[1], f[2], f[4]>>[j]
  BY <1>1 DEF Dims
<1>5. QED
  BY <1>3, <1>4

(* The same of copies and of the views that keep all elements.             *)
LEMMA MovedAccepted ==
    ASSUME NEW a, a.ne \in Shape
    PROVE  /\ Accepted(cont(a)) /\ Accepted(transpose(a))
           /\ Accepted(permute(a, <<2, 3, 1, 4>>))
<1>1. /\ <<a.ne[2], a.ne[1], a.ne[3], a.ne[4]>> \in Shape
      /\ <<a.ne[3], a.ne[1], a.ne[2], a.ne[4]>> \in Shape
  BY SizesAreShape, SizesOf
<1>2. Accepted(cont(a))
  BY DEF cont, Like, NewTensor, Accepted, AcceptedKept, OneOf, ShapeKept, Unary
<1>3. Accepted(transpose(a))
  BY <1>1 DEF transpose, NewView, Accepted, AcceptedMoved, OneOf
<1>4. permute(a, <<2, 3, 1, 4>>).ne = <<a.ne[3], a.ne[1], a.ne[2], a.ne[4]>>
  <2> DEFINE axis == <<2, 3, 1, 4>>
             from == [j \in Dims |-> CHOOSE k \in Dims : axis[k] = j]
  <2>1. permute(a, <<2, 3, 1, 4>>).ne = [j \in Dims |-> a.ne[from[j]]]
    BY DEF permute, NewView
  <2>2. \A j \in Dims : from[j] = CHOOSE k \in Dims : <<2, 3, 1, 4>>[k] = j
    OBVIOUS
  <2> HIDE DEF from
  <2>3. [j \in Dims |-> a.ne[from[j]]]
        = [j \in Dims |-> a.ne[CHOOSE k \in Dims : <<2, 3, 1, 4>>[k] = j]]
    BY <2>2
  <2>4. QED
    BY <2>1, <2>3, PermutedSizes
<1>5. /\ permute(a, <<2, 3, 1, 4>>).op = "permute"
      /\ permute(a, <<2, 3, 1, 4>>).src = <<a>>
      /\ permute(a, <<2, 3, 1, 4>>).arg = <<2, 3, 1, 4>>
  BY DEF permute, NewView
<1>6. Accepted(permute(a, <<2, 3, 1, 4>>))
  BY <1>1, <1>4, <1>5 DEF Accepted, AcceptedMoved, OneOf
<1>7. QED
  BY <1>2, <1>3, <1>6

(* The same of another shape, of a block, and of a copy into a target.     *)
LEMMA ReshapedAccepted ==
    ASSUME NEW a, a.ne \in Shape, NEW b, b.ne \in Shape, NEW ne \in Shape, NEW at
    PROVE  /\ reshape(a, ne).ok => Accepted(reshape(a, ne))
           /\ Product(ne) <= Product(a.ne) => Accepted(view_4d(a, ne, at))
           /\ cpy(a, b).ok => Accepted(cpy(a, b))
<1>1. ASSUME reshape(a, ne).ok PROVE Accepted(reshape(a, ne))
  BY <1>1 DEF reshape, NewView, Accepted, AcceptedMoved, OneOf, nelements
<1>2. ASSUME Product(ne) <= Product(a.ne) PROVE Accepted(view_4d(a, ne, at))
  BY <1>2 DEF view_4d, NewView, Accepted, AcceptedMoved, OneOf
<1>3. ASSUME cpy(a, b).ok PROVE Accepted(cpy(a, b))
  BY <1>3 DEF cpy, NewView, Accepted, AcceptedMoved, TwoOf, nelements
<1>4. QED
  BY <1>1, <1>2, <1>3

(* Products grow with their factors.                                       *)
LEMMA ProductsGrow ==
    ASSUME NEW a \in Nat, NEW b \in Nat, NEW c \in Nat, NEW d \in Nat, a <= b, c <= d
    PROVE  a * c <= b * d
<1>1. PICK x \in Nat : b = a + x
  <2>1. b - a \in Nat /\ b = a + (b - a)
    OBVIOUS
  <2>2. QED
    BY <2>1
<1>2. PICK y \in Nat : d = c + y
  <2>1. d - c \in Nat /\ d = c + (d - c)
    OBVIOUS
  <2>2. QED
    BY <2>1
<1>3. b * d = a * c + a * y + x * c + x * y
  BY <1>1, <1>2
<1>4. a * c \in Nat /\ a * y \in Nat /\ x * c \in Nat /\ x * y \in Nat
  OBVIOUS
<1>5. QED
  BY <1>3, <1>4

(* A block of s rows and t columns behind row r and column c.              *)
LEMMA BlockInPlane ==
    ASSUME NEW n \in Nat \ {0}, NEW m \in Nat \ {0}, NEW k \in Nat \ {0},
           NEW r \in 0 .. n - 1, NEW c \in 0 .. m - 1,
           NEW s \in 1 .. n - r, NEW t \in 1 .. m - c
    PROVE  /\ r * 1 + c * n \in Nat
           /\ r * 1 + c * n + s * t * k <= n * m * k
           /\ s * t * k <= n * m * k
<1>1. s * t <= (n - r) * (m - c)
  BY ProductsGrow
<1>2. (n - r) * (m - c) = n * m - c * n - r * (m - c)
  OBVIOUS
<1>3. r * (m - c) = r + r * (m - c - 1) /\ r * (m - c - 1) \in Nat
  OBVIOUS
<1>4. c * n \in Nat /\ s * t \in Nat /\ n * m \in Nat /\ r \in Nat
  OBVIOUS
<1>5. r + c * n + s * t <= n * m
  BY <1>1, <1>2, <1>3, <1>4
<1> DEFINE head == r + c * n
           body == s * t
           all == n * m
<1>6. head \in Nat /\ body \in Nat /\ all \in Nat /\ head + body <= all
  BY <1>4, <1>5
<1> HIDE DEF head, body, all
<1>7. (head + body) * k <= all * k
  BY <1>6, ProductsGrow
<1>8. (head + body) * k = head * k + body * k
  BY <1>6
<1>9. head <= head * k
  <2>1. head * 1 <= head * k
    BY <1>6, ProductsGrow
  <2>2. QED
    BY <1>6, <2>1
<1>10. head * k \in Nat /\ body * k \in Nat /\ all * k \in Nat
  BY <1>6
<1>11. head + body * k <= all * k /\ body * k <= all * k
  BY <1>6, <1>7, <1>8, <1>9, <1>10
<1>12. QED
  BY <1>4, <1>6, <1>11 DEF head, body, all

(* A block of a tensor is not larger than the tensor; laid out without     *)
(* gaps it ends where the tensor does, or before.                          *)
LEMMA BlocksFit ==
    ASSUME NEW ne \in Shape, NEW nb, NEW block \in Blocks(ne, nb)
    PROVE  /\ block[1] \in Shape /\ Product(block[1]) <= Product(ne)
           /\ nb = Packed(ne) => /\ block[2][4] \in Nat
                               /\ block[2][4] + Product(block[1]) <= Product(ne)
<1>1. PICK r \in 0 .. ne[1] - 1, c \in 0 .. ne[2] - 1 :
        \E s \in 1 .. ne[1] - r, t \in 1 .. ne[2] - c :
           block = <<<<s, t, ne[3], ne[4]>>, SubSeq(nb, 2, 4) \o <<r * nb[1] + c * nb[2]>>>>
  <2> DEFINE starts == (0 .. ne[1] - 1) \X (0 .. ne[2] - 1)
             sizes(at) == (1 .. ne[1] - at[1]) \X (1 .. ne[2] - at[2])
             shape(size) == <<size[1], size[2], ne[3], ne[4]>>
             place(at) == SubSeq(nb, 2, 4) \o <<at[1] * nb[1] + at[2] * nb[2]>>
  <2>1. Blocks(ne, nb) = UNION {{<<shape(size), place(at)>> : size \in sizes(at)} : at \in starts}
    BY DEF Blocks
  <2> HIDE DEF shape, place
  <2>2. PICK at \in starts : \E size \in sizes(at) : block = <<shape(size), place(at)>>
    BY <2>1
  <2>3. PICK size \in sizes(at) : block = <<shape(size), place(at)>>
    BY <2>2
  <2>4. /\ at[1] \in 0 .. ne[1] - 1 /\ at[2] \in 0 .. ne[2] - 1
        /\ size[1] \in 1 .. ne[1] - at[1] /\ size[2] \in 1 .. ne[2] - at[2]
    BY <2>2, <2>3
  <2>5. QED
    BY <2>3, <2>4 DEF shape, place
<1>2. PICK s \in 1 .. ne[1] - r, t \in 1 .. ne[2] - c :
           block = <<<<s, t, ne[3], ne[4]>>, SubSeq(nb, 2, 4) \o <<r * nb[1] + c * nb[2]>>>>
  BY <1>1
<1>3. /\ ne[1] \in Nat \ {0} /\ ne[2] \in Nat \ {0}
      /\ ne[3] \in Nat \ {0} /\ ne[4] \in Nat \ {0}
  BY SizesOf
<1> DEFINE k == ne[3] * ne[4]
<1>4. k \in Nat \ {0}
  BY <1>3
<1>5. /\ Product(block[1]) = s * t * k /\ Product(ne) = ne[1] * ne[2] * k
      /\ r * 1 + c * ne[1] \in Nat
  BY <1>2, <1>3 DEF Product
<1> HIDE DEF k
<1>6. /\ r * 1 + c * ne[1] + s * t * k <= ne[1] * ne[2] * k
      /\ s * t * k <= ne[1] * ne[2] * k
  BY <1>3, <1>4, BlockInPlane
<1>7. block[1] \in Shape
  <2>1. s \in Nat \ {0} /\ t \in Nat \ {0}
    BY <1>3
  <2>2. QED
    BY <1>2, <1>3, <2>1, SizesAreShape
<1>8. ASSUME nb = Packed(ne) PROVE block[2][4] = r * 1 + c * ne[1]
  <2>1. /\ nb[1] = 1 /\ nb[2] = ne[1] /\ nb[3] = ne[1] * ne[2]
        /\ nb[4] = ne[1] * ne[2] * ne[3]
    BY <1>8 DEF Packed
  <2>2. SubSeq(nb, 2, 4) \in Seq(Nat) /\ Len(SubSeq(nb, 2, 4)) = 3
    <3>1. nb[2] \in Nat /\ nb[3] \in Nat /\ nb[4] \in Nat
      BY <1>3, <2>1
    <3>2. \A i \in 2 .. 4 : i = 2 \/ i = 3 \/ i = 4
      OBVIOUS
    <3>3. \A i \in 2 .. 4 : nb[i] \in Nat
      BY <3>1, <3>2
    <3>4. QED
      BY <3>3, SubSeqProperties
  <2>3. block[2] = SubSeq(nb, 2, 4) \o <<r * 1 + c * ne[1]>>
    BY <1>2, <2>1
  <2>4. QED
    BY <1>5, <2>2, <2>3
<1>9. QED
  BY <1>5, <1>6, <1>7, <1>8

-----------------------------------------------------------------------------
(* Every action of the program appends an accepted tensor.                 *)
LEMMA MakeAppends ==
    ASSUME MayMake, NEW e, Make(e), MadeOf(e), Accepted(e), Refers(e), Typed(e)
    PROVE  AppendsAccepted
BY DEF MayMake, Make, AppendsAccepted

(* Only leaves are row numbers, and only copies go into a target.          *)
LEMMA NewTensorTyped ==
    ASSUME NEW e, e.type = "f32", e.op \notin {"index", "cpy"}
    PROVE  Typed(e)
BY DEF Typed

(* Element by element, on one tensor.                                      *)
LEMMA PointwiseAppends == AcceptedInv /\ MakePointwise => AppendsAccepted
<1>1. SUFFICES ASSUME AcceptedInv, MayMake, NEW i \in Usable, NEW op,
                      \/ op \in Plain /\ Make(plain(op, Ref(i)))
                      \/ op \in Unary /\ Make(unary(op, Ref(i)))
                      \/ op \in DiagMask /\ Make(diag_mask(op, Ref(i), 0))
                      \/ Make(scale_impl(Ref(i), <<3, 1>>, 1))
                      \/ Make(soft_max(Ref(i)))
               PROVE  AppendsAccepted
  BY DEF MakePointwise
<1>2. i \in Tensors /\ Ref(i).ne \in Shape
  BY <1>1, UsableFields
<1>3. ASSUME NEW e, e.src = <<Ref(i)>> PROVE MadeOf(e) /\ Refers(e)
  BY <1>2, <1>3, RefersToOne
<1>4. CASE op \in Plain /\ Make(plain(op, Ref(i)))
  <2>1. Typed(plain(op, Ref(i)))
    BY <1>4 DEF Typed, plain, Like, NewTensor, Plain
  <2>2. QED
    BY <1>1, <1>2, <1>3, <1>4, <2>1, PointwiseSources, PointwiseAccepted, MakeAppends
<1>5. CASE op \in Unary /\ Make(unary(op, Ref(i)))
  <2>1. Typed(unary(op, Ref(i)))
    BY <1>5 DEF Typed, unary, Like, NewTensor, Unary
  <2>2. unary(op, Ref(i)).ok
    BY <1>5 DEF Make
  <2>3. QED
    BY <1>1, <1>2, <1>3, <1>5, <2>1, <2>2, PointwiseSources, PointwiseAccepted, MakeAppends
<1>6. CASE op \in DiagMask /\ Make(diag_mask(op, Ref(i), 0))
  <2>1. Typed(diag_mask(op, Ref(i), 0))
    BY <1>6 DEF Typed, diag_mask, Like, NewTensor, DiagMask
  <2>2. QED
    BY <1>1, <1>2, <1>3, <1>6, <2>1, PointwiseSources, PointwiseAccepted, MakeAppends
<1>7. CASE Make(scale_impl(Ref(i), <<3, 1>>, 1))
  <2>1. Typed(scale_impl(Ref(i), <<3, 1>>, 1))
    BY DEF Typed, scale_impl, Like, NewTensor
  <2>2. QED
    BY <1>1, <1>2, <1>3, <1>7, <2>1, PointwiseSources, PointwiseAccepted, MakeAppends
<1>8. CASE Make(soft_max(Ref(i)))
  <2>1. Typed(soft_max(Ref(i)))
    BY DEF Typed, soft_max, Like, NewTensor
  <2>2. QED
    BY <1>1, <1>2, <1>3, <1>8, <2>1, PointwiseSources, PointwiseAccepted, MakeAppends
<1>9. QED
  BY <1>1, <1>4, <1>5, <1>6, <1>7, <1>8

(* Element by element, on two.                                             *)
LEMMA ElementwiseAppends == AcceptedInv /\ MakeElementwise => AppendsAccepted
<1>1. SUFFICES ASSUME AcceptedInv, MayMake, NEW i \in Usable, NEW j \in Usable, NEW op,
                      \/ op \in Elementwise /\ Make(elementwise(op, Ref(i), Ref(j), FALSE))
                      \/ op \in Glu /\ Make(glu(op, Ref(i), Ref(j)))
                      \/ Make(add1_impl(Ref(i), Ref(j), FALSE))
                      \/ Make(soft_max_ext(Ref(i), Ref(j), <<3, 1>>))
               PROVE  AppendsAccepted
  BY DEF MakeElementwise
<1>2. /\ i \in Tensors /\ Ref(i).ne \in Shape
      /\ j \in Tensors /\ Ref(j).ne \in Shape
  BY <1>1, UsableFields
<1>3. ASSUME NEW e, e.src = <<Ref(i), Ref(j)>> PROVE MadeOf(e) /\ Refers(e)
  BY <1>2, <1>3, RefersToTwo
<1>4. ASSUME NEW e, Make(e) PROVE e.ok
  BY <1>4 DEF Make
<1>5. CASE op \in Elementwise /\ Make(elementwise(op, Ref(i), Ref(j), FALSE))
  <2>1. Typed(elementwise(op, Ref(i), Ref(j), FALSE))
    BY <1>5 DEF Typed, elementwise, Like, NewTensor, Elementwise
  <2>2. Accepted(elementwise(op, Ref(i), Ref(j), FALSE))
    BY <1>2, <1>4, <1>5, ElementwiseAccepted
  <2>3. QED
    BY <1>1, <1>3, <1>5, <2>1, <2>2, ElementwiseSources, MakeAppends
<1>6. CASE op \in Glu /\ Make(glu(op, Ref(i), Ref(j)))
  <2>1. Typed(glu(op, Ref(i), Ref(j)))
    BY <1>6 DEF Typed, glu, Like, NewTensor, Glu
  <2>2. Accepted(glu(op, Ref(i), Ref(j)))
    BY <1>2, <1>4, <1>6, ElementwiseAccepted
  <2>3. QED
    BY <1>1, <1>3, <1>6, <2>1, <2>2, ElementwiseSources, MakeAppends
<1>7. CASE Make(add1_impl(Ref(i), Ref(j), FALSE))
  <2>1. Typed(add1_impl(Ref(i), Ref(j), FALSE))
    BY DEF Typed, add1_impl, Like, NewTensor
  <2>2. Accepted(add1_impl(Ref(i), Ref(j), FALSE))
    BY <1>2, <1>4, <1>7, ElementwiseAccepted
  <2>3. QED
    BY <1>1, <1>3, <1>7, <2>1, <2>2, WithSecondSources, MakeAppends
<1>8. CASE Make(soft_max_ext(Ref(i), Ref(j), <<3, 1>>))
  <2>1. Typed(soft_max_ext(Ref(i), Ref(j), <<3, 1>>))
    BY DEF Typed, soft_max_ext, Like, NewTensor
  <2>2. Accepted(soft_max_ext(Ref(i), Ref(j), <<3, 1>>))
    BY <1>2, ElementwiseAccepted
  <2>3. QED
    BY <1>1, <1>3, <1>8, <2>1, <2>2, WithSecondSources, MakeAppends
<1>9. QED
  BY <1>1, <1>5, <1>6, <1>7, <1>8

(* Sums, means, the loss and repetition.                                   *)
LEMMA ReductionAppends == AcceptedInv /\ (MakeReduction \/ MakeRepeat) => AppendsAccepted
<1>1. SUFFICES ASSUME AcceptedInv, MayMake, NEW i \in Usable, NEW j \in Usable,
                      \/ Make(sum(Ref(i))) \/ Make(sum_rows(Ref(i)))
                      \/ Make(mean(Ref(i)))
                      \/ Make(cross_entropy_loss(Ref(i), Ref(j)))
                      \/ Make(repeat(Ref(i), tensors[j]))
                      \/ Make(repeat_back(Ref(i), tensors[j]))
               PROVE  AppendsAccepted
  BY DEF MakeReduction, MakeRepeat
<1>2. /\ i \in Tensors /\ Ref(i).ne \in Shape
      /\ j \in Tensors /\ Ref(j).ne \in Shape /\ tensors[j].ne \in Shape
  BY <1>1, UsableFields, RefFields
<1>3. ASSUME NEW e, e.src = <<Ref(i)>> \/ e.src = <<Ref(i), Ref(j)>>
      PROVE  MadeOf(e) /\ Refers(e)
  BY <1>2, <1>3, RefersToOne, RefersToTwo
<1>4. ASSUME NEW e, Make(e) PROVE e.ok
  BY <1>4 DEF Make
<1>5. CASE Make(sum(Ref(i)))
  <2>1. Typed(sum(Ref(i)))
    BY DEF Typed, sum, NewTensor
  <2>2. QED
    BY <1>1, <1>2, <1>3, <1>5, <2>1, ReductionAccepted, ReductionSources, MakeAppends
<1>6. CASE Make(sum_rows(Ref(i)))
  <2>1. Typed(sum_rows(Ref(i)))
    BY DEF Typed, sum_rows, NewTensor
  <2>2. QED
    BY <1>1, <1>2, <1>3, <1>6, <2>1, ReductionAccepted, ReductionSources, MakeAppends
<1>7. CASE Make(mean(Ref(i)))
  <2>1. Typed(mean(Ref(i)))
    BY DEF Typed, mean, NewTensor
  <2>2. QED
    BY <1>1, <1>2, <1>3, <1>7, <2>1, ReductionAccepted, ReductionSources, MakeAppends
<1>8. CASE Make(cross_entropy_loss(Ref(i), Ref(j)))
  <2>1. Typed(cross_entropy_loss(Ref(i), Ref(j)))
    BY DEF Typed, cross_entropy_loss, NewTensor
  <2>2. Accepted(cross_entropy_loss(Ref(i), Ref(j)))
    BY <1>2, <1>4, <1>8, ReductionAccepted
  <2>3. QED
    BY <1>1, <1>3, <1>8, <2>1, <2>2, ReductionSources, MakeAppends
<1>9. CASE Make(repeat(Ref(i), tensors[j]))
  <2>1. Typed(repeat(Ref(i), tensors[j]))
    BY DEF Typed, repeat, NewTensor
  <2>2. Accepted(repeat(Ref(i), tensors[j]))
    BY <1>2, <1>4, <1>9, ReductionAccepted
  <2>3. QED
    BY <1>1, <1>3, <1>9, <2>1, <2>2, ReductionSources, MakeAppends
<1>10. CASE Make(repeat_back(Ref(i), tensors[j]))
  <2>1. Typed(repeat_back(Ref(i), tensors[j]))
    BY DEF Typed, repeat_back, NewTensor
  <2>2. Accepted(repeat_back(Ref(i), tensors[j]))
    BY <1>2, <1>4, <1>10, ReductionAccepted
  <2>3. QED
    BY <1>1, <1>3, <1>10, <2>1, <2>2, ReductionSources, MakeAppends
<1>11. QED
  BY <1>1, <1>5, <1>6, <1>7, <1>8, <1>9, <1>10

(* Matrix products and the choice of rows.                                 *)
LEMMA ProductAppends == AcceptedInv /\ (MakeProduct \/ MakeGetRows) => AppendsAccepted
<1>1. SUFFICES ASSUME AcceptedInv, MayMake, NEW i \in Tensors, NEW j \in Tensors,
                      Make(mul_mat(Ref(i), Ref(j))) \/ Make(get_rows(Ref(i), Ref(j)))
               PROVE  AppendsAccepted
  BY UsableExist DEF MakeProduct, MakeGetRows
<1>2. Ref(i).ne \in Shape /\ Ref(j).ne \in Shape
  BY <1>1, RefFields
<1>3. ASSUME NEW e, e.src = <<Ref(i), Ref(j)>> PROVE MadeOf(e) /\ Refers(e)
  BY <1>1, <1>3, RefersToTwo
<1>4. ASSUME NEW e, Make(e) PROVE e.ok
  BY <1>4 DEF Make
<1>5. CASE Make(mul_mat(Ref(i), Ref(j)))
  <2>1. Typed(mul_mat(Ref(i), Ref(j)))
    BY DEF Typed, mul_mat, NewTensor
  <2>2. Accepted(mul_mat(Ref(i), Ref(j)))
    BY <1>2, <1>4, <1>5, ProductAccepted
  <2>3. QED
    BY <1>1, <1>3, <1>5, <2>1, <2>2, ReductionSources, MakeAppends
<1>6. CASE Make(get_rows(Ref(i), Ref(j)))
  <2>1. Typed(get_rows(Ref(i), Ref(j)))
    BY DEF Typed, get_rows, NewTensor
  <2>2. Accepted(get_rows(Ref(i), Ref(j)))
    BY <1>2, <1>4, <1>6, ProductAccepted
  <2>3. QED
    BY <1>1, <1>3, <1>6, <2>1, <2>2, ReductionSources, MakeAppends
<1>7. QED
  BY <1>1, <1>5, <1>6

(* Blocks written into a tensor.                                           *)
LEMMA WithBlockAppends == AcceptedInv /\ MakeWithBlock => AppendsAccepted
<1>1. SUFFICES ASSUME AcceptedInv, MayMake, NEW i \in Usable, NEW j \in Usable,
                      NEW block \in Blocks(tensors[i].ne, Packed(tensors[i].ne)),
                      block[1] = tensors[j].ne,
                      \/ Make(acc_impl(Ref(i), Ref(j), block[2], FALSE))
                      \/ Make(set(Ref(i), Ref(j), block[2]))
               PROVE  AppendsAccepted
  BY DEF MakeWithBlock
<1>2. /\ i \in Tensors /\ Ref(i).ne \in Shape /\ Ref(i).ne = tensors[i].ne
      /\ j \in Tensors /\ Ref(j).ne \in Shape /\ Ref(j).ne = tensors[j].ne
  BY <1>1, UsableFields, RefFields
<1>3. block[2][4] \in Nat /\ block[2][4] + Product(Ref(j).ne) <= Product(Ref(i).ne)
  BY <1>1, <1>2, BlocksFit
<1>4. ASSUME NEW e, e.src = <<Ref(i), Ref(j)>> PROVE MadeOf(e) /\ Refers(e)
  BY <1>2, <1>4, RefersToTwo
<1>5. CASE Make(acc_impl(Ref(i), Ref(j), block[2], FALSE))
  <2>1. Typed(acc_impl(Ref(i), Ref(j), block[2], FALSE))
    BY DEF Typed, acc_impl, Like, NewTensor
  <2>2. Accepted(acc_impl(Ref(i), Ref(j), block[2], FALSE))
    BY <1>2, <1>3, WithBlockAccepted
  <2>3. QED
    BY <1>1, <1>4, <1>5, <2>1, <2>2, WithSecondSources, MakeAppends
<1>6. CASE Make(set(Ref(i), Ref(j), block[2]))
  <2>1. Typed(set(Ref(i), Ref(j), block[2]))
    BY DEF Typed, set, Like, NewTensor
  <2>2. Accepted(set(Ref(i), Ref(j), block[2]))
    BY <1>2, <1>3, WithBlockAccepted
  <2>3. QED
    BY <1>1, <1>4, <1>6, <2>1, <2>2, WithSecondSources, MakeAppends
<1>7. QED
  BY <1>1, <1>5, <1>6

(* Copies and views.                                                       *)
LEMMA MovedAppends == AcceptedInv /\ MakeMoved => AppendsAccepted
<1>1. SUFFICES ASSUME AcceptedInv, MayMake, NEW i \in Usable,
                      \/ Make(cont(Ref(i)))
                      \/ Make(transpose(Ref(i)))
                      \/ Make(permute(Ref(i), <<2, 3, 1, 4>>))
                      \/ Make(reshape(Ref(i), <<nelements(tensors[i]), 1, 1, 1>>))
                      \/ \E block \in Blocks(tensors[i].ne, tensors[i].nb) :
                            Make(view_4d(Ref(i), block[1], block[2]))
                      \/ \E j \in Tensors : Untouched(j) /\ Make(cpy(Ref(i), Ref(j)))
               PROVE  AppendsAccepted
  BY DEF MakeMoved
<1>2. /\ i \in Tensors /\ Ref(i).ne \in Shape /\ Ref(i).ne = tensors[i].ne
      /\ Ref(i).type = "f32"
  BY <1>1, UsableFields, RefFields
<1>3. ASSUME NEW e, e.src = <<Ref(i)>> PROVE MadeOf(e) /\ Refers(e)
  BY <1>2, <1>3, RefersToOne
<1>4. ASSUME NEW e, Make(e) PROVE e.ok
  BY <1>4 DEF Make
<1>5. CASE Make(cont(Ref(i)))
  <2>1. Typed(cont(Ref(i)))
    BY DEF Typed, cont, Like, NewTensor
  <2>2. QED
    BY <1>1, <1>2, <1>3, <1>5, <2>1, MovedAccepted, MovedSources, MakeAppends
<1>6. CASE Make(transpose(Ref(i)))
  <2>1. Typed(transpose(Ref(i)))
    BY <1>2 DEF Typed, transpose, NewView
  <2>2. QED
    BY <1>1, <1>2, <1>3, <1>6, <2>1, MovedAccepted, MovedSources, MakeAppends
<1>7. CASE Make(permute(Ref(i), <<2, 3, 1, 4>>))
  <2>1. Typed(permute(Ref(i), <<2, 3, 1, 4>>))
    BY <1>2 DEF Typed, permute, NewView
  <2>2. QED
    BY <1>1, <1>2, <1>3, <1>7, <2>1, MovedAccepted, MovedSources, MakeAppends
<1>8. CASE Make(reshape(Ref(i), <<nelements(tensors[i]), 1, 1, 1>>))
  <2> DEFINE ne == <<nelements(tensors[i]), 1, 1, 1>>
  <2>1. ne \in Shape
    BY <1>2, ProductIsPositive, SizesAreShape DEF nelements
  <2> HIDE DEF ne
  <2>2. Typed(reshape(Ref(i), ne))
    BY <1>2 DEF Typed, reshape, NewView
  <2>3. Make(reshape(Ref(i), ne))
    BY <1>8 DEF ne
  <2>4. Accepted(reshape(Ref(i), ne))
    BY <1>2, <1>4, <2>1, <2>3, ReshapedAccepted
  <2>5. QED
    BY <1>1, <1>3, <2>2, <2>3, <2>4, MovedSources, MakeAppends
<1>9. ASSUME NEW block \in Blocks(tensors[i].ne, tensors[i].nb),
             Make(view_4d(Ref(i), block[1], block[2]))
      PROVE  AppendsAccepted
  <2>1. block[1] \in Shape /\ Product(block[1]) <= Product(Ref(i).ne)
    BY <1>2, BlocksFit
  <2>2. Typed(view_4d(Ref(i), block[1], block[2]))
    BY <1>2 DEF Typed, view_4d, NewView
  <2>3. Accepted(view_4d(Ref(i), block[1], block[2]))
    BY <1>2, <2>1, ReshapedAccepted
  <2>4. QED
    BY <1>1, <1>3, <1>9, <2>2, <2>3, MovedSources, MakeAppends
<1>10. ASSUME NEW j \in Tensors, Untouched(j), Make(cpy(Ref(i), Ref(j)))
       PROVE  AppendsAccepted
  <2>1. tensors[j].op = "target" /\ Ref(j).type = "f32" /\ Ref(j).ne \in Shape
    BY <1>1, <1>10, RefFields DEF Untouched, AcceptedInv, Typed
  <2>2. /\ cpy(Ref(i), Ref(j)).type = "f32" /\ cpy(Ref(i), Ref(j)).op = "cpy"
        /\ cpy(Ref(i), Ref(j)).src = <<Ref(i), Ref(j)>>
    BY <2>1 DEF cpy, NewView
  <2>3. Typed(cpy(Ref(i), Ref(j)))
    <3>1. Ref(j).arg[1] = j
      BY DEF Ref
    <3>2. QED
      BY <2>1, <2>2, <3>1 DEF Typed
  <2>4. Accepted(cpy(Ref(i), Ref(j)))
    BY <1>2, <1>4, <1>10, <2>1, ReshapedAccepted
  <2>5. MadeOf(cpy(Ref(i), Ref(j))) /\ Refers(cpy(Ref(i), Ref(j)))
    BY <1>2, <1>10, <2>2, RefersToTwo
  <2>6. QED
    BY <1>1, <1>10, <2>3, <2>4, <2>5, MakeAppends
<1>11. QED
  BY <1>1, <1>5, <1>6, <1>7, <1>8, <1>9, <1>10

(* To make an accepted tensor keeps the tensors accepted.                  *)
LEMMA AppendsInv == Inv /\ AcceptedInv /\ AppendsAccepted => AcceptedInv'
<1>1. SUFFICES ASSUME Inv, AcceptedInv, AppendsAccepted
               PROVE  AcceptedInv'
  OBVIOUS
<1>2. PICK e : /\ MadeOf(e) /\ Accepted(e) /\ Refers(e) /\ Typed(e)
               /\ tensors' = Append(tensors, e)
  BY <1>1 DEF AppendsAccepted
<1>3. PICK S : tensors \in Seq(S)
  BY <1>1 DEF Inv, IsSequence
<1>4. /\ Len(tensors) \in Nat
      /\ Len(tensors') = Len(tensors) + 1
      /\ \A i \in Tensors : tensors'[i] = tensors[i]
      /\ tensors'[Len(tensors) + 1] = e
  BY <1>2, <1>3 DEF Tensors
<1>5. \A i \in Tensors : Ref(i)' = Ref(i)
  BY <1>4 DEF Ref
<1>6. ASSUME NEW f, MadeOf(f), Accepted(f), Refers(f), Typed(f)
      PROVE  Refers(f)' /\ Typed(f)'
  <2>1. Refers(f)'
    BY <1>5, <1>6 DEF Refers, MadeOf
  <2>2. f.op = "cpy" => 2 \in DOMAIN f.src
    <3>1. ASSUME f.op = "cpy" PROVE f.src = <<f.src[1], f.src[2]>>
      BY <1>6, <3>1 DEF Accepted, AcceptedLeaf, AcceptedKept, AcceptedShaped, AcceptedMoved,
         OneOf, TwoOf, LeafKinds, ShapeKept, Plain, Unary, DiagMask, Elementwise, Glu,
         RowsSummed
    <3>2. \A x, y : 2 \in DOMAIN <<x, y>>
      OBVIOUS
    <3>3. QED
      BY <3>1, <3>2
  <2>3. QED
    BY <1>4, <1>6, <2>1, <2>2 DEF Typed, MadeOf
<1>7. ASSUME NEW i \in Tensors PROVE MadeOf(tensors[i])
  <2>1. ASSUME NEW k \in DOMAIN tensors[i].src PROVE Source(i, k) \in Tensors
    <3>1. Source(i, k) \in 1 .. i - 1
      BY <1>1 DEF Inv, SourcesComeFirst, Sources
    <3>2. QED
      BY <1>4, <3>1 DEF Tensors
  <2>2. QED
    BY <2>1 DEF Source, MadeOf
<1>8. ASSUME NEW i \in Tensors', NEW f, f = tensors'[i]
      PROVE  Accepted(f) /\ Refers(f)' /\ Typed(f)'
  <2>1. CASE i \in Tensors
    <3>1. f = tensors[i]
      BY <1>4, <1>8, <2>1
    <3>2. MadeOf(f) /\ Accepted(f) /\ Refers(f) /\ Typed(f)
      BY <1>1, <1>7, <2>1, <3>1 DEF AcceptedInv
    <3>3. QED
      BY <1>6, <3>2
  <2>2. CASE i = Len(tensors) + 1
    BY <1>2, <1>4, <1>6, <1>8, <2>2
  <2>3. i \in Tensors \/ i = Len(tensors) + 1
    BY <1>4 DEF Tensors
  <2>4. QED
    BY <2>1, <2>2, <2>3
<1>9. QED
  BY <1>8 DEF AcceptedInv, Refers, Typed

(* A step that makes no tensor keeps them accepted.                        *)
LEMMA SameTensorsAccepted ==
    AcceptedInv /\ UNCHANGED tensors => AcceptedInv'
<1>1. SUFFICES ASSUME AcceptedInv, tensors' = tensors
               PROVE  AcceptedInv'
  OBVIOUS
<1>2. Tensors' = Tensors
  BY <1>1 DEF Tensors
<1>3. ASSUME NEW i PROVE Ref(i)' = Ref(i)
  BY <1>1 DEF Ref
<1>4. ASSUME NEW f, Refers(f), Typed(f)
      PROVE  Refers(f)' /\ Typed(f)'
  BY <1>1, <1>3, <1>4 DEF Refers, Typed
<1>5. ASSUME NEW i \in Tensors', NEW f, f = tensors'[i]
      PROVE  Accepted(f) /\ Refers(f)' /\ Typed(f)'
  BY <1>1, <1>2, <1>4, <1>5 DEF AcceptedInv
<1>6. QED
  BY <1>5 DEF AcceptedInv, Refers, Typed

(* The leaves are accepted.                                                *)
LEMMA InitAccepted == Init => AcceptedInv
<1>1. SUFFICES ASSUME Init, NEW i \in Tensors
               PROVE  Accepted(tensors[i]) /\ Refers(tensors[i]) /\ Typed(tensors[i])
  BY DEF AcceptedInv
<1>2. program.leaves \in Seq(LeafKinds \X Shape)
  BY <1>1, ProgramAssumption DEF Init, Shape
<1>3. PICK n \in Nat : DOMAIN program.leaves = 1 .. n
  BY <1>2
<1>4. tensors = [k \in 1 .. n |-> Leaf(program.leaves[k])]
  BY <1>1, <1>3 DEF Init
<1>5. i \in 1 .. n
  BY <1>4 DEF Tensors
<1>6. tensors[i] = Leaf(program.leaves[i]) /\ program.leaves[i] \in LeafKinds \X Shape
  BY <1>2, <1>3, <1>4, <1>5
<1>7. ASSUME NEW leaf \in LeafKinds \X Shape
      PROVE  /\ Leaf(leaf).op = leaf[1] /\ leaf[1] \in LeafKinds
             /\ Leaf(leaf).src = <<>> /\ Leaf(leaf).ne \in Shape
             /\ Leaf(leaf).type = IF leaf[1] = "index" THEN "i32" ELSE "f32"
  BY DEF Leaf, NewTensor
<1>8. QED
  BY <1>6, <1>7 DEF Accepted, AcceptedLeaf, Refers, Typed, LeafKinds

-----------------------------------------------------------------------------
(* Tensors of packed strides pass the tests of the constructors.           *)
LEMMA PackedPasses ==
    ASSUME NEW a, a.ne \in Shape, a.nb = Packed(a.ne)
    PROVE  /\ is_contiguous(a) /\ is_contiguous_rows(a) /\ is_padded_1d(a)
<1>1. /\ a.nb[1] = 1 /\ a.nb[2] = a.ne[1] /\ a.nb[3] = a.ne[1] * a.ne[2]
      /\ a.nb[4] = a.ne[1] * a.ne[2] * a.ne[3]
  BY DEF Packed
<1>2. /\ a.ne[1] \in Nat /\ a.ne[2] \in Nat /\ a.ne[3] \in Nat
  BY SizesOf
<1>3. a.ne[2] * a.ne[1] = a.ne[1] * a.ne[2]
  BY <1>2
<1>4. is_contiguous(a)
  BY <1>1, <1>3 DEF is_contiguous, is_contiguous_n
<1>5. is_contiguous_rows(a) /\ is_padded_1d(a)
  BY <1>1 DEF is_contiguous_rows, is_padded_1d
<1>6. QED
  BY <1>4, <1>5

(* A tensor repeats to its own shape once.                                 *)
LEMMA RepeatsItself ==
    ASSUME NEW a, NEW b, a.ne \in Shape, a.ne = b.ne
    PROVE  can_repeat(a, b)
BY DEF can_repeat, Shape

(* What a constructor makes that gives it memory of its own.               *)
LEMMA LikeOne ==
    ASSUME NEW op, NEW a, NEW arg, NEW guard \in BOOLEAN, a.ne \in Shape
    PROVE  /\ Lies(Like(op, <<a>>, arg, FALSE, guard))
           /\ a.ok /\ guard => Fresh(Like(op, <<a>>, arg, FALSE, guard), a.ne)
<1>1. Like(op, <<a>>, arg, FALSE, guard) = NewTensor(op, <<a>>, arg, a.ne, guard)
  BY DEF Like
<1>2. QED
  BY <1>1, NewTensorLies, SourceOk, SourcesOk

(* The same of two tensors.                                                *)
LEMMA LikeTwo ==
    ASSUME NEW op, NEW a, NEW b, NEW arg, NEW guard \in BOOLEAN, a.ne \in Shape
    PROVE  /\ Lies(Like(op, <<a, b>>, arg, FALSE, guard))
           /\ a.ok /\ b.ok /\ guard => Fresh(Like(op, <<a, b>>, arg, FALSE, guard), a.ne)
<1>1. Like(op, <<a, b>>, arg, FALSE, guard) = NewTensor(op, <<a, b>>, arg, a.ne, guard)
  BY DEF Like
<1>2. QED
  BY <1>1, NewTensorLies, SourceOk, SourcesOk

(* The same where the caller chooses.                                      *)
LEMMA LikeTwoChosen ==
    ASSUME NEW op, NEW a, NEW b, NEW arg, NEW inplace \in BOOLEAN, NEW guard \in BOOLEAN,
           Lies(a)
    PROVE  /\ Lies(Like(op, <<a, b>>, arg, inplace, guard))
           /\ a.ok /\ b.ok /\ guard => Good(Like(op, <<a, b>>, arg, inplace, guard), a.ne)
<1>1. CASE inplace = FALSE
  <2>1. a.ne \in Shape
    BY DEF Lies
  <2>2. QED
    BY <1>1, <2>1, LikeTwo DEF Fresh
<1>2. CASE inplace = TRUE
  <2>1. /\ Like(op, <<a, b>>, arg, inplace, guard)
              = NewView(op, <<a, b>>, arg, a, a.ne, a.nb, 0, guard)
        /\ a.ne \in Shape /\ 0 \in Nat /\ 0 + Product(a.ne) <= Product(a.ne)
    BY <1>2, ProductIsPositive DEF Like, Lies
  <2>2. QED
    BY <2>1, NewViewLies, SourceOk, SourcesOk
<1>3. QED
  BY <1>1, <1>2

(* What the functions of one tensor make that the backward pass calls.     *)
LEMMA OneMakes ==
    ASSUME NEW a, a.ne \in Shape, NEW op, NEW s, NEW n
    PROVE  /\ Lies(plain(op, a)) /\ Lies(unary(op, a)) /\ Lies(diag_mask(op, a, n))
           /\ Lies(scale(a, s)) /\ Lies(cont(a))
           /\ a.ok => /\ Fresh(plain(op, a), a.ne)
                      /\ Fresh(diag_mask(op, a, n), a.ne)
                      /\ Fresh(cont(a), a.ne)
                      /\ is_contiguous_rows(a) => Fresh(unary(op, a), a.ne)
                      /\ is_padded_1d(a) => Fresh(scale(a, s), a.ne)
<1>1. Lies(plain(op, a)) /\ (a.ok => Fresh(plain(op, a), a.ne))
  BY LikeOne DEF plain
<1>2. Lies(diag_mask(op, a, n)) /\ (a.ok => Fresh(diag_mask(op, a, n), a.ne))
  BY LikeOne DEF diag_mask
<1>3. Lies(cont(a)) /\ (a.ok => Fresh(cont(a), a.ne))
  BY LikeOne DEF cont
<1>4. Lies(unary(op, a)) /\ (a.ok /\ is_contiguous_rows(a) => Fresh(unary(op, a), a.ne))
  <2>1. is_contiguous_rows(a) \in BOOLEAN
    BY DEF is_contiguous_rows
  <2>2. QED
    BY <2>1, LikeOne DEF unary
<1>5. Lies(scale(a, s)) /\ (a.ok /\ is_padded_1d(a) => Fresh(scale(a, s), a.ne))
  <2>1. is_padded_1d(a) \in BOOLEAN
    BY DEF is_padded_1d
  <2>2. QED
    BY <2>1, LikeOne DEF scale, scale_impl
<1>6. QED
  BY <1>1, <1>2, <1>3, <1>4, <1>5

(* What those of two make.                                                 *)
LEMMA TwoMake ==
    ASSUME NEW a, NEW b, NEW s, a.ne \in Shape
    PROVE  /\ Lies(mul(a, b)) /\ Lies(div(a, b))
           /\ Lies(silu_back(a, b)) /\ Lies(rms_norm_back(a, b))
           /\ Lies(soft_max_ext_back(a, b, s))
           /\ a.ok /\ b.ok => /\ Fresh(silu_back(a, b), a.ne)
                              /\ Fresh(rms_norm_back(a, b), a.ne)
                              /\ Fresh(soft_max_ext_back(a, b, s), a.ne)
                              /\ can_repeat(b, a) => /\ Fresh(mul(a, b), a.ne)
                                                     /\ Fresh(div(a, b), a.ne)
<1>1. /\ Lies(mul(a, b)) /\ Lies(div(a, b))
      /\ a.ok /\ b.ok /\ can_repeat(b, a) => Fresh(mul(a, b), a.ne) /\ Fresh(div(a, b), a.ne)
  <2>1. can_repeat(b, a) \in BOOLEAN
    BY DEF can_repeat
  <2>2. QED
    BY <2>1, LikeTwo DEF mul, div, elementwise
<1>2. Lies(silu_back(a, b)) /\ (a.ok /\ b.ok => Fresh(silu_back(a, b), a.ne))
  BY LikeTwo DEF silu_back
<1>3. Lies(rms_norm_back(a, b)) /\ (a.ok /\ b.ok => Fresh(rms_norm_back(a, b), a.ne))
  BY LikeTwo DEF rms_norm_back
<1>4. /\ Lies(soft_max_ext_back(a, b, s))
      /\ a.ok /\ b.ok => Fresh(soft_max_ext_back(a, b, s), a.ne)
  BY LikeTwo DEF soft_max_ext_back
<1>5. QED
  BY <1>1, <1>2, <1>3, <1>4

(* The four ways in which a gradient is added to another.                  *)
LEMMA AddedTo ==
    ASSUME NEW a, NEW b, NEW at, NEW inplace \in BOOLEAN, Lies(a)
    PROVE  /\ Lies(add_impl(a, b, inplace)) /\ Lies(sub_impl(a, b, inplace))
           /\ Lies(add1_impl(a, b, inplace)) /\ Lies(acc_impl(a, b, at, inplace))
           /\ a.ok /\ b.ok /\ can_repeat(b, a) =>
                 Good(add_impl(a, b, inplace), a.ne) /\ Good(sub_impl(a, b, inplace), a.ne)
           /\ a.ok /\ b.ok /\ is_scalar(b) /\ is_padded_1d(a) =>
                 Good(add1_impl(a, b, inplace), a.ne)
           /\ a.ok /\ b.ok /\ nelements(b) <= nelements(a) /\ is_contiguous(a) =>
                 Good(acc_impl(a, b, at, inplace), a.ne)
<1>1. /\ can_repeat(b, a) \in BOOLEAN
      /\ (is_scalar(b) /\ is_padded_1d(a)) \in BOOLEAN
      /\ (nelements(b) <= nelements(a) /\ is_contiguous(a)) \in BOOLEAN
  BY DEF can_repeat
<1>2. /\ Lies(add_impl(a, b, inplace)) /\ Lies(sub_impl(a, b, inplace))
      /\ a.ok /\ b.ok /\ can_repeat(b, a) =>
            Good(add_impl(a, b, inplace), a.ne) /\ Good(sub_impl(a, b, inplace), a.ne)
  BY <1>1, LikeTwoChosen DEF add_impl, sub_impl, elementwise
<1>3. /\ Lies(add1_impl(a, b, inplace))
      /\ a.ok /\ b.ok /\ is_scalar(b) /\ is_padded_1d(a) =>
            Good(add1_impl(a, b, inplace), a.ne)
  BY <1>1, LikeTwoChosen DEF add1_impl
<1>4. /\ Lies(acc_impl(a, b, at, inplace))
      /\ a.ok /\ b.ok /\ nelements(b) <= nelements(a) /\ is_contiguous(a) =>
            Good(acc_impl(a, b, at, inplace), a.ne)
  BY <1>1, LikeTwoChosen DEF acc_impl
<1>5. QED
  BY <1>2, <1>3, <1>4

(* Those that change the shape.                                            *)
LEMMA ReductionMakes ==
    ASSUME NEW a, NEW b, a.ne \in Shape, b.ne \in Shape
    PROVE  /\ Lies(mean(a)) /\ Lies(repeat(a, b)) /\ Lies(repeat_back(a, b))
           /\ a.ok => Fresh(mean(a), [a.ne EXCEPT ![1] = 1])
           /\ a.ok /\ can_repeat(a, b) => Fresh(repeat(a, b), b.ne)
           /\ a.ok /\ can_repeat(b, a) => Fresh(repeat_back(a, b), b.ne)
<1>1. can_repeat(a, b) \in BOOLEAN /\ can_repeat(b, a) \in BOOLEAN
  BY DEF can_repeat
<1>2. [a.ne EXCEPT ![1] = 1] \in Shape
  BY FirstSizeReplaced
<1>3. Lies(mean(a)) /\ (a.ok => Fresh(mean(a), [a.ne EXCEPT ![1] = 1]))
  BY <1>2, NewTensorLies, SourceOk, SourcesOk DEF mean
<1>4. Lies(repeat(a, b)) /\ (a.ok /\ can_repeat(a, b) => Fresh(repeat(a, b), b.ne))
  BY <1>1, NewTensorLies, SourceOk, SourcesOk DEF repeat
<1>5. Lies(repeat_back(a, b)) /\ (a.ok /\ can_repeat(b, a) => Fresh(repeat_back(a, b), b.ne))
  BY <1>1, NewTensorLies, SourceOk, SourcesOk DEF repeat_back
<1>6. QED
  BY <1>3, <1>4, <1>5

(* The outer product that the backward pass of a matrix product calls.     *)
LEMMA OutProdMakes ==
    ASSUME NEW a, NEW b, a.ne \in Shape, b.ne \in Shape
    PROVE  /\ Lies(out_prod(a, b))
           /\ out_prod(a, b).ne = <<a.ne[1], b.ne[1], b.ne[3], b.ne[4]>>
           /\ a.ok /\ b.ok /\ a.ne[2] = b.ne[2] /\ BroadcastOver(a, b) /\ ~is_transposed(a)
                 => Fresh(out_prod(a, b), <<a.ne[1], b.ne[1], b.ne[3], b.ne[4]>>)
<1> DEFINE guard == a.ne[2] = b.ne[2] /\ BroadcastOver(a, b) /\ ~is_transposed(a)
           ne == <<a.ne[1], b.ne[1], b.ne[3], b.ne[4]>>
<1>1. ne \in Shape /\ guard \in BOOLEAN
  BY SizesAreShape, SizesOf DEF BroadcastOver
<1>2. out_prod(a, b) = NewTensor("out_prod", <<a, b>>, <<>>, ne, guard)
  BY DEF out_prod
<1>3. out_prod(a, b).ne = ne
  BY <1>2 DEF NewTensor
<1> HIDE DEF guard, ne
<1>4. Lies(out_prod(a, b)) /\ (a.ok /\ b.ok /\ guard => Fresh(out_prod(a, b), ne))
  BY <1>1, <1>2, NewTensorLies, SourceOk, SourcesOk
<1>5. QED
  BY <1>3, <1>4 DEF guard, ne

(* The rows put back, where there is one matrix of them.                   *)
LEMMA GetRowsBackMakes ==
    ASSUME NEW a, NEW b, NEW c, c.ne \in Shape
    PROVE  /\ Lies(get_rows_back(a, b, c))
           /\ a.ok /\ b.ok /\ is_matrix(a) /\ is_vector(b) /\ b.type = "i32"
                /\ is_matrix(c) /\ a.ne[1] = c.ne[1]
                 => Good(get_rows_back(a, b, c), c.ne)
<1> DEFINE guard == /\ is_matrix(a) /\ is_vector(b) /\ b.type = "i32"
                    /\ is_matrix(c) /\ a.ne[1] = c.ne[1]
           ne == <<c.ne[1], c.ne[2], 1, 1>>
<1>1. ne \in Shape /\ guard \in BOOLEAN
  BY SizesAreShape, SizesOf
<1>2. get_rows_back(a, b, c) = NewTensor("get_rows_back", <<a, b>>, <<>>, ne, guard)
  BY DEF get_rows_back
<1>3. guard => ne = c.ne
  BY SameSizes DEF is_matrix
<1> HIDE DEF guard, ne
<1>4. Lies(get_rows_back(a, b, c)) /\ (a.ok /\ b.ok /\ guard => Good(get_rows_back(a, b, c), ne))
  BY <1>1, <1>2, NewTensorLies, SourceOk, SourcesOk DEF Fresh
<1>5. QED
  BY <1>3, <1>4 DEF guard

(* The gradient of the loss has the shape of the logits.                   *)
LEMMA CrossEntropyBackMakes ==
    ASSUME NEW a, NEW b, NEW c, b.ne \in Shape
    PROVE  /\ Lies(cross_entropy_loss_back(a, b, c))
           /\ a.ok /\ b.ok /\ c.ok /\ is_scalar(a) /\ b.ne = c.ne
                 => Good(cross_entropy_loss_back(a, b, c), b.ne)
<1> DEFINE guard == is_scalar(a) /\ are_same_shape(b, c)
<1>1. guard \in BOOLEAN
  BY DEF are_same_shape
<1>2. AllOk(<<a, b, c>>) <=> a.ok /\ b.ok /\ c.ok
  BY DEF AllOk
<1>3. cross_entropy_loss_back(a, b, c)
        = NewTensor("cross_entropy_loss_back", <<a, b, c>>, <<>>, b.ne, guard)
  BY DEF cross_entropy_loss_back
<1>4. guard <=> is_scalar(a) /\ b.ne = c.ne
  BY DEF are_same_shape
<1> HIDE DEF guard
<1>5. QED
  BY <1>1, <1>2, <1>3, <1>4, NewTensorLies DEF Fresh

(* Those that make a view.                                                 *)
LEMMA ViewMakes ==
    ASSUME NEW a, Lies(a), NEW ne \in Shape, NEW at, at[4] \in Nat
    PROVE  /\ Lies(view_4d(a, ne, at)) /\ is_contiguous_rows(view_4d(a, ne, at))
           /\ a.ok /\ at[4] + Product(ne) <= Product(a.ne) => Good(view_4d(a, ne, at), ne)
           /\ Lies(reshape(a, ne))
           /\ a.ok /\ is_contiguous(a) /\ Product(a.ne) = Product(ne) => Good(reshape(a, ne), ne)
<1> DEFINE always == TRUE
           nb == <<1, at[1], at[2], at[3]>>
<1>0. /\ always \in BOOLEAN
      /\ view_4d(a, ne, at) = NewView("view", <<a>>, at, a, ne, nb, at[4], always)
  BY DEF view_4d
<1> HIDE DEF always, nb
<1>1. /\ Lies(view_4d(a, ne, at)) /\ view_4d(a, ne, at).nb = nb
      /\ a.ok /\ always /\ at[4] + Product(ne) <= Product(a.ne) => Good(view_4d(a, ne, at), ne)
  BY <1>0, NewViewLies, SourceOk
<1>2. is_contiguous_rows(view_4d(a, ne, at))
  BY <1>1 DEF is_contiguous_rows, nb
<1> DEFINE guard == is_contiguous(a) /\ nelements(a) = Product(ne)
<1>3. /\ guard \in BOOLEAN /\ 0 \in Nat
      /\ reshape(a, ne) = NewView("reshape", <<a>>, <<>>, a, ne, Packed(ne), 0, guard)
      /\ Product(ne) \in Nat
  BY ProductIsPositive DEF reshape
<1>4. guard <=> is_contiguous(a) /\ Product(a.ne) = Product(ne)
  BY DEF nelements
<1> HIDE DEF guard
<1>5. /\ Lies(reshape(a, ne))
      /\ a.ok /\ guard /\ 0 + Product(ne) <= Product(a.ne) => Good(reshape(a, ne), ne)
  BY <1>3, NewViewLies, SourceOk, SourcesOk
<1>6. Product(a.ne) = Product(ne) => 0 + Product(ne) <= Product(a.ne)
  BY <1>3
<1>7. QED
  BY <1>1, <1>2, <1>4, <1>5, <1>6 DEF always

(* Dimensions that change places leave the number of elements.             *)
LEMMA SwappedProducts ==
    ASSUME NEW ne \in Shape
    PROVE  /\ Product(<<ne[2], ne[1], ne[3], ne[4]>>) = Product(ne)
           /\ Product(<<ne[2], ne[3], ne[1], ne[4]>>) = Product(ne)
BY SizesOf DEF Product

(* A transposed tensor has rows for columns.                               *)
LEMMA TransposeMakes ==
    ASSUME NEW a, Lies(a)
    PROVE  /\ Lies(transpose(a))
           /\ transpose(a).ne = <<a.ne[2], a.ne[1], a.ne[3], a.ne[4]>>
           /\ a.ok => Good(transpose(a), <<a.ne[2], a.ne[1], a.ne[3], a.ne[4]>>)
<1> DEFINE ne == <<a.ne[2], a.ne[1], a.ne[3], a.ne[4]>>
<1>1. ne \in Shape /\ 0 + Product(ne) <= Product(a.ne)
  <2>1. a.ne \in Shape
    BY DEF Lies
  <2>2. Product(a.ne) \in Nat /\ Product(ne) = Product(a.ne)
    BY <2>1, SwappedProducts, ProductIsPositive
  <2>3. ne \in Shape
    BY <2>1, SizesAreShape, SizesOf
  <2>4. QED
    BY <2>2, <2>3
<1>2. transpose(a).ne = ne
  BY DEF transpose, NewView
<1>3. Lies(transpose(a)) /\ (a.ok => Good(transpose(a), ne))
  BY <1>1, NewViewLies, SourceOk, SourcesOk DEF transpose
<1>4. QED
  BY <1>2, <1>3

(* They do so whether or not the source has an accumulator.                *)
LEMMA AddedToSource ==
    ASSUME NEW a, NEW b, NEW at, NEW s, Lies(a)
    PROVE  /\ Lies(add_impl(a, b, s \in accs)) /\ Lies(sub_impl(a, b, s \in accs))
           /\ Lies(add1_impl(a, b, s \in accs)) /\ Lies(acc_impl(a, b, at, s \in accs))
           /\ a.ok /\ b.ok /\ can_repeat(b, a) =>
                 Good(add_impl(a, b, s \in accs), a.ne) /\ Good(sub_impl(a, b, s \in accs), a.ne)
           /\ a.ok /\ b.ok /\ is_scalar(b) /\ is_padded_1d(a) =>
                 Good(add1_impl(a, b, s \in accs), a.ne)
           /\ a.ok /\ b.ok /\ nelements(b) <= nelements(a) /\ is_contiguous(a) =>
                 Good(acc_impl(a, b, at, s \in accs), a.ne)
<1>1. (s \in accs) \in BOOLEAN
  OBVIOUS
<1>2. QED
  BY <1>1, AddedTo, Zenon

-----------------------------------------------------------------------------
(* What can be added to what a source has, so that its gradient keeps the  *)
(* shape of the source.                                                    *)
GoodGrads(gs) == \A t \in DOMAIN gs : Good(gs[t], tensors[t].ne)

(* A sum or a difference fits whatever the source has.                     *)
Joins(s, c) ==
    \/ c.how = "add" /\ Good(c.e, tensors[s].ne)
    \/ c.how = "sub" /\ Fresh(c.e, tensors[s].ne)

(* What fits the gradients so far: a scalar is added to packed elements    *)
(* only, and a block is written into packed ones.                          *)
Fitting(gs, s, c) ==
    \/ Joins(s, c)
    \/ /\ c.how = "add1"
       /\ c.e.ok /\ c.e.ne \in Shape /\ can_repeat(c.e, tensors[s])
       /\ s \in DOMAIN gs => is_scalar(c.e) /\ is_padded_1d(gs[s])
    \/ /\ c.how = "acc"
       /\ c.e.ok /\ nelements(c.e) <= Product(tensors[s].ne)
       /\ IF s \in DOMAIN gs THEN is_contiguous(gs[s]) ELSE is_padded_1d(Ref(s))

(* Something within its memory, or nothing.                                *)
Handed(c) == \/ c.how = "nothing"
             \/ c.how \in {"add", "sub", "add1", "acc"} /\ Lies(c.e)

(* What fits is taken up: the source then has a gradient of its shape.     *)
LEMMA ContributeGood ==
    ASSUME AcceptedInv, NEW gs, NEW s \in Tensors, NEW c,
           s \in DOMAIN gs => Good(gs[s], tensors[s].ne), Fitting(gs, s, c)
    PROVE  /\ s \in DOMAIN Contribute(gs, s, c)
           /\ Good(Contribute(gs, s, c)[s], tensors[s].ne)
<1>1. /\ tensors[s].ne \in Shape /\ Ref(s).ne = tensors[s].ne /\ Ref(s).ok
  BY RefFields
<1>2. (s \in accs) \in BOOLEAN
  OBVIOUS
<1>3. ASSUME NEW e PROVE /\ s \in DOMAIN WithGradient(gs, s, e)
                         /\ WithGradient(gs, s, e)[s] = e
  BY DEF WithGradient
<1>4. CASE c.how = "add" /\ Good(c.e, tensors[s].ne)
  <2>1. Good(add_or_set(gs, s, c.e), tensors[s].ne)
    <3>1. CASE s \in DOMAIN gs
      <4>1. can_repeat(c.e, gs[s])
        BY <1>4, <3>1, RepeatsItself DEF Good, Lies
      <4>2. QED
        BY <1>2, <1>4, <3>1, <4>1, AddedToSource DEF Good, add_or_set
    <3>2. CASE s \notin DOMAIN gs
      BY <1>4, <3>2 DEF add_or_set
    <3>3. QED
      BY <3>1, <3>2
  <2>2. Contribute(gs, s, c) = WithGradient(gs, s, add_or_set(gs, s, c.e))
    BY <1>4 DEF Contribute
  <2>3. QED
    BY <1>3, <2>1, <2>2
<1>5. CASE c.how = "sub" /\ Fresh(c.e, tensors[s].ne)
  <2>1. Good(sub_or_set(gs, s, c.e), tensors[s].ne)
    <3>1. CASE s \in DOMAIN gs
      <4>1. can_repeat(c.e, gs[s])
        BY <1>5, <3>1, RepeatsItself DEF Good, Fresh, Lies
      <4>2. QED
        BY <1>2, <1>5, <3>1, <4>1, AddedToSource DEF Good, Fresh, sub_or_set
    <3>2. CASE s \notin DOMAIN gs
      <4>1. is_contiguous_rows(c.e) /\ c.e.ne \in Shape /\ c.e.ok /\ c.e.ne = tensors[s].ne
        BY <1>5, PackedPasses DEF Fresh, Good, Lies
      <4>2. Fresh(unary("neg", c.e), tensors[s].ne)
        BY <4>1, OneMakes
      <4>3. QED
        BY <3>2, <4>2 DEF sub_or_set, Fresh
    <3>3. QED
      BY <3>1, <3>2
  <2>2. Contribute(gs, s, c) = WithGradient(gs, s, sub_or_set(gs, s, c.e))
    BY <1>5 DEF Contribute
  <2>3. QED
    BY <1>3, <2>1, <2>2
<1>6. CASE /\ c.how = "add1"
           /\ c.e.ok /\ c.e.ne \in Shape /\ can_repeat(c.e, tensors[s])
           /\ s \in DOMAIN gs => is_scalar(c.e) /\ is_padded_1d(gs[s])
  <2>1. Good(add1_or_set(gs, s, c.e), tensors[s].ne)
    <3>1. CASE s \in DOMAIN gs
      BY <1>2, <1>6, <3>1, AddedToSource DEF Good, add1_or_set
    <3>2. CASE s \notin DOMAIN gs
      BY <1>1, <1>6, <3>2, ReductionMakes DEF add1_or_set, Fresh
    <3>3. QED
      BY <3>1, <3>2
  <2>2. Contribute(gs, s, c) = WithGradient(gs, s, add1_or_set(gs, s, c.e))
    BY <1>6 DEF Contribute
  <2>3. QED
    BY <1>3, <2>1, <2>2
<1>7. CASE /\ c.how = "acc"
           /\ c.e.ok /\ nelements(c.e) <= Product(tensors[s].ne)
           /\ IF s \in DOMAIN gs THEN is_contiguous(gs[s]) ELSE is_padded_1d(Ref(s))
  <2>1. Good(acc_or_set(gs, s, c.e, c.at), tensors[s].ne)
    <3>1. CASE s \in DOMAIN gs
      BY <1>2, <1>7, <3>1, AddedToSource DEF Good, nelements, acc_or_set
    <3>2. CASE s \notin DOMAIN gs
      <4> DEFINE zero == scale(Ref(s), <<0, 1>>)
      <4>1. Fresh(zero, tensors[s].ne)
        BY <1>1, <1>7, <3>2, OneMakes
      <4>2. acc_or_set(gs, s, c.e, c.at) = acc_impl(zero, c.e, c.at, FALSE)
        BY <3>2 DEF acc_or_set
      <4> HIDE DEF zero
      <4>3. is_contiguous(zero) /\ Lies(zero) /\ zero.ok /\ zero.ne = tensors[s].ne
        BY <1>1, <4>1, PackedPasses DEF Fresh, Good
      <4>4. nelements(c.e) <= nelements(zero)
        BY <1>7, <4>3 DEF nelements
      <4>5. Good(acc_impl(zero, c.e, c.at, FALSE), zero.ne)
        BY <1>7, <4>3, <4>4, AddedTo
      <4>6. QED
        BY <4>2, <4>3, <4>5
    <3>3. QED
      BY <3>1, <3>2
  <2>2. Contribute(gs, s, c) = WithGradient(gs, s, acc_or_set(gs, s, c.e, c.at))
    BY <1>7 DEF Contribute
  <2>3. QED
    BY <1>3, <2>1, <2>2
<1>8. QED
  BY <1>4, <1>5, <1>6, <1>7 DEF Fitting, Joins

(* Whatever is added to it, a gradient lies within its memory.             *)
LEMMA ContributeLies ==
    ASSUME AcceptedInv, NEW gs, NEW s \in Tensors, NEW c,
           s \in DOMAIN gs => Lies(gs[s]), Handed(c)
    PROVE  s \in DOMAIN Contribute(gs, s, c) => Lies(Contribute(gs, s, c)[s])
<1>1. /\ tensors[s].ne \in Shape /\ Ref(s).ne = tensors[s].ne
  BY RefFields
<1>2. ASSUME NEW e PROVE WithGradient(gs, s, e)[s] = e
  BY DEF WithGradient
<1>3. CASE c.how = "nothing"
  BY <1>3 DEF Contribute
<1>4. CASE c.how = "add" /\ Lies(c.e)
  <2>1. Lies(add_or_set(gs, s, c.e))
    BY <1>4, AddedToSource DEF add_or_set
  <2>2. Contribute(gs, s, c) = WithGradient(gs, s, add_or_set(gs, s, c.e))
    BY <1>4 DEF Contribute
  <2>3. QED
    BY <1>2, <2>1, <2>2
<1>5. CASE c.how = "sub" /\ Lies(c.e)
  <2>1. Lies(unary("neg", c.e))
    BY <1>5, OneMakes DEF Lies
  <2>2. Lies(sub_or_set(gs, s, c.e))
    BY <2>1, AddedToSource DEF sub_or_set
  <2>3. Contribute(gs, s, c) = WithGradient(gs, s, sub_or_set(gs, s, c.e))
    BY <1>5 DEF Contribute
  <2>4. QED
    BY <1>2, <2>2, <2>3
<1>6. CASE c.how = "add1" /\ Lies(c.e)
  <2>1. Lies(repeat(c.e, tensors[s]))
    BY <1>1, <1>6, ReductionMakes DEF Lies
  <2>2. Lies(add1_or_set(gs, s, c.e))
    BY <2>1, AddedToSource DEF add1_or_set
  <2>3. Contribute(gs, s, c) = WithGradient(gs, s, add1_or_set(gs, s, c.e))
    BY <1>6 DEF Contribute
  <2>4. QED
    BY <1>2, <2>2, <2>3
<1>7. CASE c.how = "acc"
  <2> DEFINE zero == scale(Ref(s), <<0, 1>>)
  <2>1. Lies(zero)
    BY <1>1, OneMakes
  <2>2. s \notin DOMAIN gs => acc_or_set(gs, s, c.e, c.at) = acc_impl(zero, c.e, c.at, FALSE)
    BY DEF acc_or_set
  <2> HIDE DEF zero
  <2>3. FALSE \in BOOLEAN
    OBVIOUS
  <2>4. Lies(acc_impl(zero, c.e, c.at, FALSE))
    BY <2>1, <2>3, AddedTo
  <2>5. Lies(acc_or_set(gs, s, c.e, c.at))
    BY <2>2, <2>4, AddedToSource DEF acc_or_set
  <2>6. Contribute(gs, s, c) = WithGradient(gs, s, acc_or_set(gs, s, c.e, c.at))
    BY <1>7 DEF Contribute
  <2>7. QED
    BY <1>2, <2>5, <2>6
<1>8. QED
  BY <1>3, <1>4, <1>5, <1>6, <1>7 DEF Handed
-----------------------------------------------------------------------------
(* What is known of a node by its operation.                               *)
LEMMA ByOperation ==
    ASSUME NEW e, Accepted(e)
    PROVE  /\ e.op \in LeafKinds => e.src = <<>>
           /\ e.op \in ShapeKept /\ e.op # "soft_max" =>
                 OneOf(e, ShapeKept) /\ e.ne = e.src[1].ne
           /\ e.op \in Unary => is_contiguous_rows(e.src[1])
           /\ e.op = "soft_max" => /\ OneOf(e, ShapeKept) \/ TwoOf(e, {"soft_max"})
                                  /\ e.ne = e.src[1].ne
           /\ e.op \in Elementwise => /\ TwoOf(e, Elementwise)
                                      /\ e.ne = e.src[1].ne
                                      /\ can_repeat(e.src[2], e.src[1])
           /\ e.op = "add1" => TwoOf(e, {"add1"}) /\ e.ne = e.src[1].ne /\ is_scalar(e.src[2])
           /\ e.op \in Glu => /\ TwoOf(e, Glu)
                             /\ e.ne = e.src[1].ne /\ e.ne = e.src[2].ne
                             /\ is_contiguous_rows(e.src[1])
           /\ e.op \in {"acc", "set"} =>
                 /\ TwoOf(e, {"acc", "set"}) /\ e.ne = e.src[1].ne
                 /\ e.arg[4] \in Nat
                 /\ e.arg[4] + Product(e.src[2].ne) <= Product(e.src[1].ne)
<1> USE DEF LeafKinds, ShapeKept, Plain, Unary, DiagMask, Elementwise, Glu, RowsSummed
<1>1. CASE AcceptedLeaf(e)
  BY <1>1 DEF AcceptedLeaf
<1>2. CASE AcceptedKept(e)
  BY <1>2 DEF AcceptedKept, OneOf, TwoOf
<1>3. CASE AcceptedShaped(e)
  BY <1>3 DEF AcceptedShaped, OneOf, TwoOf
<1>4. CASE AcceptedMoved(e)
  BY <1>4 DEF AcceptedMoved, OneOf, TwoOf
<1>5. QED
  BY <1>1, <1>2, <1>3, <1>4 DEF Accepted

(* The same of sums, means and repetition.                                 *)
LEMMA ByReduction ==
    ASSUME NEW e, Accepted(e)
    PROVE  /\ e.op = "sum" => OneOf(e, {"sum"}) /\ e.ne = <<1, 1, 1, 1>>
           /\ e.op \in RowsSummed => OneOf(e, RowsSummed) /\ e.ne = [e.src[1].ne EXCEPT ![1] = 1]
           /\ e.op = "repeat" => OneOf(e, {"repeat"}) /\ can_repeat(e.src[1], e)
           /\ e.op = "repeat_back" => OneOf(e, {"repeat_back"}) /\ can_repeat(e, e.src[1])
<1> USE DEF LeafKinds, ShapeKept, Plain, Unary, DiagMask, Elementwise, Glu, RowsSummed
<1>1. CASE AcceptedLeaf(e)
  BY <1>1 DEF AcceptedLeaf
<1>2. CASE AcceptedKept(e)
  BY <1>2 DEF AcceptedKept, OneOf, TwoOf
<1>3. CASE AcceptedShaped(e)
  BY <1>3 DEF AcceptedShaped, OneOf, TwoOf
<1>4. CASE AcceptedMoved(e)
  BY <1>4 DEF AcceptedMoved, OneOf, TwoOf
<1>5. QED
  BY <1>1, <1>2, <1>3, <1>4 DEF Accepted

(* The same of products, the choice of rows and the loss.                  *)
LEMMA ByProduct ==
    ASSUME NEW e, Accepted(e)
    PROVE  /\ e.op = "mul_mat" =>
                 /\ TwoOf(e, {"mul_mat"})
                 /\ e.ne = <<e.src[1].ne[2], e.src[2].ne[2], e.src[2].ne[3], e.src[2].ne[4]>>
                 /\ e.src[1].ne[1] = e.src[2].ne[1]
                 /\ BroadcastOver(e.src[1], e.src[2]) /\ ~is_transposed(e.src[1])
           /\ e.op = "get_rows" =>
                 /\ TwoOf(e, {"get_rows"})
                 /\ e.ne = <<e.src[1].ne[1], e.src[2].ne[1], e.src[2].ne[2], e.src[2].ne[3]>>
                 /\ e.src[1].ne[3] = e.src[2].ne[2] /\ e.src[1].ne[4] = e.src[2].ne[3]
                 /\ e.src[2].ne[4] = 1 /\ e.src[2].type = "i32"
           /\ e.op = "cross_entropy_loss" => /\ TwoOf(e, {"cross_entropy_loss"})
                                            /\ e.ne = <<1, 1, 1, 1>>
                                            /\ e.src[1].ne = e.src[2].ne
<1> USE DEF LeafKinds, ShapeKept, Plain, Unary, DiagMask, Elementwise, Glu, RowsSummed
<1>1. CASE AcceptedLeaf(e)
  BY <1>1 DEF AcceptedLeaf
<1>2. CASE AcceptedKept(e)
  BY <1>2 DEF AcceptedKept, OneOf, TwoOf
<1>3. CASE AcceptedShaped(e)
  BY <1>3 DEF AcceptedShaped, OneOf, TwoOf
<1>4. CASE AcceptedMoved(e)
  BY <1>4 DEF AcceptedMoved, OneOf, TwoOf
<1>5. QED
  BY <1>1, <1>2, <1>3, <1>4 DEF Accepted

(* The same of copies and views; and there is no other operation.          *)
LEMMA ByMovingOperation ==
    ASSUME NEW e, Accepted(e)
    PROVE  /\ e.op = "cpy" => TwoOf(e, {"cpy"}) /\ Product(e.ne) = Product(e.src[1].ne)
           /\ e.op = "reshape" => OneOf(e, {"reshape"}) /\ Product(e.ne) = Product(e.src[1].ne)
           /\ e.op = "view" => OneOf(e, {"view"}) /\ Product(e.ne) <= Product(e.src[1].ne)
           /\ e.op = "permute" =>
                 /\ OneOf(e, {"permute"}) /\ e.arg = <<2, 3, 1, 4>>
                 /\ e.ne = <<e.src[1].ne[3], e.src[1].ne[1], e.src[1].ne[2], e.src[1].ne[4]>>
           /\ e.op = "transpose" =>
                 /\ OneOf(e, {"transpose"})
                 /\ e.ne = <<e.src[1].ne[2], e.src[1].ne[1], e.src[1].ne[3], e.src[1].ne[4]>>
           /\ e.op \in {"param", "input", "index", "target"} \cup ShapeKept \cup Elementwise
                 \cup {"add1"} \cup Glu \cup {"acc", "set", "sum"} \cup RowsSummed
                 \cup {"cross_entropy_loss", "repeat", "repeat_back", "mul_mat", "get_rows",
                       "cpy", "reshape", "view", "permute", "transpose"}
<1> USE DEF LeafKinds, ShapeKept, Plain, Unary, DiagMask, Elementwise, Glu, RowsSummed
<1>1. CASE AcceptedLeaf(e)
  BY <1>1 DEF AcceptedLeaf
<1>2. CASE AcceptedKept(e)
  BY <1>2 DEF AcceptedKept, OneOf, TwoOf
<1>3. CASE AcceptedShaped(e)
  BY <1>3 DEF AcceptedShaped, OneOf, TwoOf
<1>4. CASE AcceptedMoved(e)
  BY <1>4 DEF AcceptedMoved, OneOf, TwoOf
<1>5. QED
  BY <1>1, <1>2, <1>3, <1>4 DEF Accepted

(* The sources of a node as its constructor saw them.                      *)
LEMMA SourceFields ==
    ASSUME Inv, AcceptedInv, NEW i \in Tensors, NEW k \in DOMAIN tensors[i].src
    PROVE  /\ Source(i, k) \in Tensors
           /\ tensors[i].src[k] = Ref(Source(i, k))
           /\ Ref(Source(i, k)).ne = tensors[Source(i, k)].ne
           /\ Ref(Source(i, k)).ne \in Shape /\ Ref(Source(i, k)).ok
           /\ Ref(Source(i, k)).type = tensors[Source(i, k)].type
<1>1. Source(i, k) \in 1 .. i - 1
  BY DEF Inv, SourcesComeFirst, Sources
<1>2. Source(i, k) \in Tensors
  BY <1>1, SameTensors DEF Inv, IsSequence, Tensors
<1>3. tensors[i].src[k] = Ref(Source(i, k))
  BY DEF AcceptedInv, Refers, Source
<1>4. QED
  BY <1>2, <1>3, RefFields

(* The source of a node that has one.                                      *)
LEMMA OneSource ==
    ASSUME Inv, AcceptedInv, NEW i \in Tensors, NEW ops, OneOf(tensors[i], ops)
    PROVE  /\ DOMAIN tensors[i].src = {1}
           /\ X(i) = tensors[i].src[1] /\ Source(i, 1) \in Tensors
           /\ X(i).ne = tensors[Source(i, 1)].ne /\ X(i).ne \in Shape /\ X(i).ok
<1>1. \A x : DOMAIN <<x>> = {1}
  OBVIOUS
<1>2. DOMAIN tensors[i].src = {1}
  BY <1>1 DEF OneOf
<1>3. QED
  BY <1>2, SourceFields DEF X

(* The sources of a node that has two.                                     *)
LEMMA TwoSources ==
    ASSUME Inv, AcceptedInv, NEW i \in Tensors, NEW ops, TwoOf(tensors[i], ops)
    PROVE  /\ DOMAIN tensors[i].src = {1, 2}
           /\ X(i) = tensors[i].src[1] /\ Source(i, 1) \in Tensors
           /\ X(i).ne = tensors[Source(i, 1)].ne /\ X(i).ne \in Shape /\ X(i).ok
           /\ Y(i) = tensors[i].src[2] /\ Source(i, 2) \in Tensors
           /\ Y(i).ne = tensors[Source(i, 2)].ne /\ Y(i).ne \in Shape /\ Y(i).ok
<1>1. \A x, y : DOMAIN <<x, y>> = {1, 2}
  OBVIOUS
<1>2. DOMAIN tensors[i].src = {1, 2}
  BY <1>1 DEF TwoOf
<1>3. 1 \in DOMAIN tensors[i].src /\ 2 \in DOMAIN tensors[i].src
  BY <1>2
<1>4. QED
  BY <1>2, <1>3, SourceFields DEF X, Y

(* What is handed on, by the way it is.                                    *)
LEMMA Hands ==
    ASSUME NEW s, NEW e, NEW at
    PROVE  /\ Handed(Nothing)
           /\ Lies(e) => /\ Handed(Add(e)) /\ Handed(Sub(e))
                         /\ Handed(Add1(e)) /\ Handed(Acc(e, at))
           /\ Good(e, tensors[s].ne) => Joins(s, Add(e))
           /\ Fresh(e, tensors[s].ne) => Joins(s, Add(e)) /\ Joins(s, Sub(e))
BY DEF Handed, Nothing, Add, Sub, Add1, Acc, Joins, Fresh

(* Whether a tensor repeats to another depends on the two shapes.          *)
LEMMA RepeatsAlike ==
    ASSUME NEW a, NEW b, NEW c, NEW d, can_repeat(a, b), a.ne = c.ne, b.ne = d.ne
    PROVE  can_repeat(c, d)
BY DEF can_repeat

(* Summing what was repeated gives back the shape.                         *)
LEMMA SummedToMakes ==
    ASSUME NEW e, NEW a, NEW b, Lies(e), b.ne \in Shape
    PROVE  /\ Lies(SummedTo(e, a, b))
           /\ e.ok /\ e.ne = a.ne /\ can_repeat(b, a) => Good(SummedTo(e, a, b), b.ne)
<1>1. e.ne \in Shape
  BY DEF Lies
<1>2. CASE are_same_shape(a, b)
  <2>1. SummedTo(e, a, b) = e /\ a.ne = b.ne
    BY <1>2 DEF SummedTo, are_same_shape
  <2>2. QED
    BY <2>1 DEF Good
<1>3. CASE ~are_same_shape(a, b)
  <2>1. SummedTo(e, a, b) = repeat_back(e, b)
    BY <1>3 DEF SummedTo
  <2>2. e.ne = a.ne /\ can_repeat(b, a) => can_repeat(b, e)
    BY RepeatsAlike
  <2>3. QED
    BY <1>1, <2>1, <2>2, ReductionMakes DEF Fresh
<1>4. QED
  BY <1>2, <1>3

(* Sums, differences, products and quotients: what was repeated is summed. *)
LEMMA ArithmeticServes ==
    ASSUME Inv, AcceptedInv, NEW i \in Tensors, NEW g, Good(g, tensors[i].ne),
           Op(i) \in {"dup", "add1"} \cup Elementwise,
           NEW k \in DOMAIN tensors[i].src
    PROVE  /\ Handed(ArithmeticBack(i, g)[k])
           /\ /\ Fresh(g, tensors[i].ne) /\ Source(i, k) \in needed
              /\ ~RepeatedOperand(i)
              => Joins(Source(i, k), ArithmeticBack(i, g)[k])
<1> DEFINE s == Source(i, k)
           c == ArithmeticBack(i, g)[k]
<1>1. Accepted(tensors[i]) /\ Op(i) = tensors[i].op
  BY DEF AcceptedInv, Op
<1>2. g.ne = tensors[i].ne /\ g.ne \in Shape /\ g.ok /\ Lies(g)
  BY DEF Good, Lies
<1>3. CASE Op(i) = "dup"
  <2>1. OneOf(tensors[i], ShapeKept) /\ g.ne = tensors[i].src[1].ne
    BY <1>1, <1>2, <1>3, ByOperation DEF ShapeKept, Plain
  <2>2. k = 1 /\ X(i).ne = tensors[s].ne /\ X(i) = tensors[i].src[1]
    BY <2>1, OneSource
  <2>3. c = Add(g)
    BY <1>3, <2>2 DEF ArithmeticBack
  <2>4. QED
    BY <1>2, <2>1, <2>2, <2>3, Hands DEF Good
<1>4. CASE Op(i) \in Elementwise
  <2>1. /\ TwoOf(tensors[i], Elementwise) /\ g.ne = tensors[i].src[1].ne
        /\ can_repeat(tensors[i].src[2], tensors[i].src[1])
    BY <1>1, <1>2, <1>4, ByOperation
  <2>2. /\ k = 1 \/ k = 2
        /\ g.ne = X(i).ne /\ X(i).ne \in Shape /\ X(i).ok
        /\ X(i).ne = tensors[Source(i, 1)].ne
        /\ Y(i).ne \in Shape /\ Y(i).ok /\ Y(i).ne = tensors[Source(i, 2)].ne
        /\ can_repeat(Y(i), X(i))
    BY <2>1, TwoSources
  <2>3. can_repeat(Y(i), g) /\ can_repeat(g, X(i))
    BY <1>2, <2>2, RepeatsAlike, RepeatsItself
  <2>4. Lies(SummedTo(g, X(i), Y(i))) /\ Good(SummedTo(g, X(i), Y(i)), Y(i).ne)
    BY <1>2, <2>2, SummedToMakes
  <2>5. CASE Op(i) = "add"
    <3>1. c = IF k = 1 THEN Add(g) ELSE Add(SummedTo(g, X(i), Y(i)))
      BY <2>2, <2>5 DEF ArithmeticBack
    <3>2. QED
      BY <1>2, <2>2, <2>4, <3>1, Hands DEF Good
  <2>6. CASE Op(i) = "sub"
    <3>1. c = IF k = 1 THEN Add(g) ELSE Sub(g)
      BY <2>2, <2>6 DEF ArithmeticBack
    <3>2. k = 2 /\ Source(i, k) \in needed /\ ~RepeatedOperand(i) => g.ne = Y(i).ne
      BY <2>2, <2>6 DEF RepeatedOperand, NeedsSource, are_same_shape
    <3>3. QED
      BY <1>2, <2>2, <3>1, <3>2, Hands DEF Good, Fresh
  <2>7. CASE Op(i) = "mul"
    <3>1. c = IF k = 1 THEN Add(mul(g, Y(i))) ELSE Add(SummedTo(mul(X(i), g), X(i), Y(i)))
      BY <2>2, <2>7 DEF ArithmeticBack
    <3>2. /\ Lies(mul(g, Y(i))) /\ Good(mul(g, Y(i)), X(i).ne)
          /\ Lies(mul(X(i), g)) /\ Good(mul(X(i), g), X(i).ne)
      BY <1>2, <2>2, <2>3, TwoMake DEF Fresh
    <3>3. /\ Lies(SummedTo(mul(X(i), g), X(i), Y(i)))
          /\ Good(SummedTo(mul(X(i), g), X(i), Y(i)), Y(i).ne)
      BY <2>2, <3>2, SummedToMakes DEF Good
    <3>4. QED
      BY <2>2, <3>1, <3>2, <3>3, Hands
  <2>8. CASE Op(i) = "div"
    <3> DEFINE q == div(Ref(i), Y(i))
    <3>1. c = IF k = 1 THEN Add(div(g, Y(i))) ELSE Sub(mul(g, q))
      BY <2>2, <2>8 DEF ArithmeticBack
    <3>2. Ref(i).ne = g.ne /\ Ref(i).ok
      BY <1>2, RefFields
    <3>3. can_repeat(Y(i), Ref(i))
      BY <2>3, <3>2, RepeatsAlike
    <3>4. Fresh(q, g.ne)
      BY <1>2, <2>2, <3>2, <3>3, TwoMake
    <3> HIDE DEF q
    <3>5. can_repeat(q, g) /\ q.ok
      BY <1>2, <3>4, RepeatsItself DEF Fresh, Good
    <3>6. Fresh(div(g, Y(i)), X(i).ne) /\ Fresh(mul(g, q), X(i).ne)
      BY <1>2, <2>2, <2>3, <3>5, TwoMake
    <3>7. k = 2 /\ Source(i, k) \in needed /\ ~RepeatedOperand(i) => X(i).ne = Y(i).ne
      BY <2>2, <2>8 DEF RepeatedOperand, NeedsSource, are_same_shape
    <3>8. QED
      BY <2>2, <3>1, <3>6, <3>7, Hands DEF Good, Fresh
  <2>9. QED
    BY <1>4, <2>5, <2>6, <2>7, <2>8 DEF Elementwise
<1>5. CASE Op(i) = "add1"
  <2>1. /\ TwoOf(tensors[i], {"add1"}) /\ g.ne = tensors[i].src[1].ne
        /\ is_scalar(tensors[i].src[2])
    BY <1>1, <1>2, <1>5, ByOperation
  <2>2. /\ k = 1 \/ k = 2
        /\ g.ne = X(i).ne /\ X(i).ne = tensors[Source(i, 1)].ne
        /\ Y(i).ne = tensors[Source(i, 2)].ne /\ is_scalar(Y(i))
        /\ 2 \in DOMAIN tensors[i].src
    BY <2>1, TwoSources
  <2>3. c = IF k = 1 THEN Add(g) ELSE Add(mean(g))
    BY <1>5, <2>2 DEF ArithmeticBack
  <2>4. Fresh(mean(g), [g.ne EXCEPT ![1] = 1])
    BY <1>2, ReductionMakes
  <2>5. [g.ne EXCEPT ![1] = 1] = <<1, g.ne[2], g.ne[3], g.ne[4]>>
    BY <1>2, FirstSizeReplaced
  <2>6. k = 2 /\ Source(i, k) \in needed /\ ~RepeatedOperand(i) =>
          [g.ne EXCEPT ![1] = 1] = Y(i).ne
    BY <1>5, <2>2, <2>5 DEF RepeatedOperand, NeedsSource, is_vector, is_scalar
  <2>7. QED
    BY <1>2, <2>2, <2>3, <2>4, <2>6, Hands DEF Good, Fresh
<1>6. QED
  BY <1>3, <1>4, <1>5

(* A node of one source, of the shape of the node.                         *)
LEMMA KeptSource ==
    ASSUME Inv, AcceptedInv, NEW i \in Tensors, NEW g, Good(g, tensors[i].ne),
           Op(i) \in ShapeKept, Op(i) # "soft_max"
    PROVE  /\ DOMAIN tensors[i].src = {1}
           /\ g.ne = tensors[Source(i, 1)].ne /\ g.ne \in Shape /\ g.ok /\ Lies(g)
           /\ X(i).ne = g.ne /\ X(i).ok /\ Ref(i).ne = g.ne /\ Ref(i).ok
           /\ Op(i) \in Unary => is_contiguous_rows(X(i))
<1>1. Accepted(tensors[i]) /\ Op(i) = tensors[i].op
  BY DEF AcceptedInv, Op
<1>2. /\ OneOf(tensors[i], ShapeKept) /\ tensors[i].ne = tensors[i].src[1].ne
      /\ Op(i) \in Unary => is_contiguous_rows(tensors[i].src[1])
  BY <1>1, ByOperation
<1>3. g.ne = tensors[i].ne /\ g.ne \in Shape /\ g.ok /\ Lies(g)
  BY DEF Good, Lies
<1>4. QED
  BY <1>2, <1>3, OneSource, RefFields

(* Functions whose kernels make a tensor of the shape of their source.     *)
LEMMA FunctionServes ==
    ASSUME Inv, AcceptedInv, NEW i \in Tensors, NEW g, Good(g, tensors[i].ne),
           Op(i) \in FunctionOps
    PROVE  /\ DOMAIN tensors[i].src = {1} /\ Handed(FunctionBack(i, g))
           /\ Fresh(g, tensors[i].ne) => Joins(Source(i, 1), FunctionBack(i, g))
<1> DEFINE s == Source(i, 1)
           c == FunctionBack(i, g)
<1>1. /\ DOMAIN tensors[i].src = {1}
      /\ g.ne = tensors[s].ne /\ g.ne \in Shape /\ g.ok
      /\ X(i).ne = g.ne /\ X(i).ok /\ Ref(i).ne = g.ne /\ Ref(i).ok
  BY KeptSource DEF FunctionOps, ShapeKept, Plain
<1>2. /\ can_repeat(X(i), g) /\ can_repeat(g, X(i)) /\ can_repeat(Ref(i), g)
  BY <1>1, RepeatsItself
<1>3. CASE Op(i) = "sqr"
  <2>1. Fresh(mul(X(i), g), g.ne)
    BY <1>1, <1>2, TwoMake
  <2>2. is_padded_1d(mul(X(i), g))
    BY <1>1, <2>1, PackedPasses DEF Fresh, Good
  <2>3. Fresh(scale(mul(X(i), g), <<2, 1>>), g.ne)
    BY <1>1, <2>1, <2>2, OneMakes DEF Fresh, Good
  <2>4. c = Add(scale(mul(X(i), g), <<2, 1>>))
    BY <1>3 DEF FunctionBack
  <2>5. QED
    BY <1>1, <2>3, <2>4, Hands DEF Fresh, Good
<1>4. CASE Op(i) = "sqrt"
  <2>1. Fresh(div(g, Ref(i)), g.ne)
    BY <1>1, <1>2, TwoMake
  <2>2. is_padded_1d(div(g, Ref(i)))
    BY <1>1, <2>1, PackedPasses DEF Fresh, Good
  <2>3. Fresh(scale(div(g, Ref(i)), <<1, 2>>), g.ne)
    BY <1>1, <2>1, <2>2, OneMakes DEF Fresh, Good
  <2>4. c = Add(scale(div(g, Ref(i)), <<1, 2>>))
    BY <1>4 DEF FunctionBack
  <2>5. QED
    BY <1>1, <2>3, <2>4, Hands DEF Fresh, Good
<1>5. CASE Op(i) = "log"
  <2>1. Fresh(div(g, X(i)), g.ne)
    BY <1>1, <1>2, TwoMake
  <2>2. c = Add(div(g, X(i)))
    BY <1>5 DEF FunctionBack
  <2>3. QED
    BY <1>1, <2>1, <2>2, Hands DEF Fresh, Good
<1>6. ASSUME NEW op PROVE Fresh(mul(g, plain(op, X(i))), g.ne)
  <2>1. Fresh(plain(op, X(i)), g.ne)
    BY <1>1, OneMakes
  <2>2. can_repeat(plain(op, X(i)), g) /\ plain(op, X(i)).ok
    BY <1>1, <2>1, RepeatsItself DEF Fresh, Good
  <2>3. QED
    BY <1>1, <2>2, TwoMake
<1>7. CASE Op(i) = "sin"
  <2>1. c = Add(mul(g, plain("cos", X(i))))
    BY <1>7 DEF FunctionBack
  <2>2. QED
    BY <1>1, <1>6, <2>1, Hands DEF Fresh, Good
<1>8. CASE Op(i) = "cos"
  <2>1. c = Sub(mul(g, plain("sin", X(i))))
    BY <1>8 DEF FunctionBack
  <2>2. QED
    BY <1>1, <1>6, <2>1, Hands DEF Fresh, Good
<1>9. CASE Op(i) = "rms_norm"
  <2>1. Fresh(rms_norm_back(g, X(i)), g.ne)
    BY <1>1, TwoMake
  <2>2. c = Add(rms_norm_back(g, X(i)))
    BY <1>9 DEF FunctionBack
  <2>3. QED
    BY <1>1, <2>1, <2>2, Hands DEF Fresh, Good
<1>10. CASE Op(i) = "scale"
  <2>1. Lies(scale(g, <<Arg(i)[1], Arg(i)[2]>>))
    BY <1>1, OneMakes
  <2>2. ASSUME Fresh(g, tensors[i].ne) PROVE Fresh(scale(g, <<Arg(i)[1], Arg(i)[2]>>), g.ne)
    <3>1. is_padded_1d(g)
      BY <1>1, <2>2, PackedPasses DEF Fresh, Good
    <3>2. QED
      BY <1>1, <3>1, OneMakes
  <2>3. c = Add(scale(g, <<Arg(i)[1], Arg(i)[2]>>))
    BY <1>10 DEF FunctionBack
  <2>4. QED
    BY <1>1, <2>1, <2>2, <2>3, Hands DEF Fresh, Good
<1>11. QED
  BY <1>1, <1>3, <1>4, <1>5, <1>7, <1>8, <1>9, <1>10 DEF FunctionOps

(* Activations; a step function has no backward pass.                      *)
LEMMA UnaryServes ==
    ASSUME Inv, AcceptedInv, NEW i \in Tensors, NEW g, Good(g, tensors[i].ne),
           Op(i) \in UnaryOps
    PROVE  /\ DOMAIN tensors[i].src = {1} /\ Handed(UnaryBack(i, g))
           /\ Fresh(g, tensors[i].ne) /\ ~NoBackwardPass(i) =>
                 Joins(Source(i, 1), UnaryBack(i, g))
<1> DEFINE s == Source(i, 1)
           c == UnaryBack(i, g)
<1>1. /\ DOMAIN tensors[i].src = {1}
      /\ g.ne = tensors[s].ne /\ g.ne \in Shape /\ g.ok /\ Lies(g)
      /\ X(i).ne = g.ne /\ X(i).ok /\ Ref(i).ne = g.ne /\ Ref(i).ok
      /\ is_contiguous_rows(X(i))
  BY KeptSource DEF UnaryOps, ShapeKept, Unary
<1>2. ASSUME NEW op
      PROVE  /\ Fresh(mul(unary(op, X(i)), g), g.ne)
             /\ Fresh(mul(g, unary(op, X(i))), g.ne)
  <2>1. Fresh(unary(op, X(i)), g.ne)
    BY <1>1, OneMakes
  <2>2. /\ can_repeat(unary(op, X(i)), g) /\ can_repeat(g, unary(op, X(i)))
        /\ unary(op, X(i)).ok /\ unary(op, X(i)).ne = g.ne
    BY <1>1, <2>1, RepeatsItself DEF Fresh, Good
  <2>3. QED
    BY <1>1, <2>2, TwoMake
<1>3. CASE Op(i) = "abs"
  <2>1. c = Add(mul(unary("sgn", X(i)), g))
    BY <1>3 DEF UnaryBack
  <2>2. QED
    BY <1>1, <1>2, <2>1, Hands DEF Fresh, Good
<1>4. CASE Op(i) \in {"sgn", "step"}
  <2>1. c = Nothing /\ NoBackwardPass(i)
    BY <1>4 DEF UnaryBack, NoBackwardPass
  <2>2. QED
    BY <1>1, <2>1, Hands
<1>5. CASE Op(i) = "neg"
  <2>1. c = Sub(g)
    BY <1>5 DEF UnaryBack
  <2>2. QED
    BY <1>1, <2>1, Hands DEF Fresh, Good
<1>6. CASE Op(i) = "relu"
  <2>1. c = Add(mul(unary("step", X(i)), g))
    BY <1>6 DEF UnaryBack
  <2>2. QED
    BY <1>1, <1>2, <2>1, Hands DEF Fresh, Good
<1>7. CASE Op(i) = "silu"
  <2>1. Fresh(silu_back(g, X(i)), g.ne)
    BY <1>1, TwoMake
  <2>2. c = Add(silu_back(g, X(i)))
    BY <1>7 DEF UnaryBack
  <2>3. QED
    BY <1>1, <2>1, <2>2, Hands DEF Fresh, Good
<1>8. CASE Op(i) = "exp"
  <2>1. can_repeat(g, Ref(i))
    BY <1>1, RepeatsItself
  <2>2. Fresh(mul(Ref(i), g), g.ne)
    BY <1>1, <2>1, TwoMake
  <2>3. c = Add(mul(Ref(i), g))
    BY <1>8 DEF UnaryBack
  <2>4. QED
    BY <1>1, <2>2, <2>3, Hands DEF Fresh, Good
<1>9. CASE Op(i) = "expm1"
  <2>1. c = Add(mul(g, unary("exp", X(i))))
    BY <1>9 DEF UnaryBack
  <2>2. QED
    BY <1>1, <1>2, <2>1, Hands DEF Fresh, Good
<1>10. CASE Op(i) = "softplus"
  <2>1. c = Add(mul(g, unary("sigmoid", X(i))))
    BY <1>10 DEF UnaryBack
  <2>2. QED
    BY <1>1, <1>2, <2>1, Hands DEF Fresh, Good
<1>11. QED
  BY <1>1, <1>3, <1>4, <1>5, <1>6, <1>7, <1>8, <1>9, <1>10 DEF UnaryOps

(* The gradients of the sources of a node that does not refuse.            *)
LEMMA SourcePacked ==
    ASSUME GoodGrads(grads), NEW i \in Tensors, ~MovedGradient(i),
           NEW k \in DOMAIN tensors[i].src, Source(i, k) \in DOMAIN grads
    PROVE  is_padded_1d(grads[Source(i, k)]) /\ is_contiguous(grads[Source(i, k)])
<1>1. Source(i, k) \in Sources(i)
  BY DEF Sources
<1>2. /\ grads[Source(i, k)].nb = Packed(grads[Source(i, k)].ne)
      /\ grads[Source(i, k)].ne \in Shape
  BY <1>1 DEF MovedGradient, GoodGrads, Good, Lies
<1>3. QED
  BY <1>2, PackedPasses

(* A scalar added to every element, or spread where there is nothing yet.  *)
LEMMA AddsOne ==
    ASSUME NEW gs, NEW s, NEW e, e.ok, e.ne \in Shape, can_repeat(e, tensors[s]),
           s \in DOMAIN gs => is_scalar(e) /\ is_padded_1d(gs[s])
    PROVE  Fitting(gs, s, Add1(e))
BY DEF Fitting, Add1

(* What fits any gradient fits those so far.                               *)
LEMMA JoinsFits ==
    ASSUME NEW gs, NEW s, NEW c, Joins(s, c)
    PROVE  Fitting(gs, s, c)
BY DEF Fitting

(* A number divides itself, and 1 divides it.                              *)
LEMMA ModOfItself ==
    ASSUME NEW n \in Nat \ {0}
    PROVE  n % n = 0 /\ n % 1 = 0
OBVIOUS

(* The sums of rows repeat to the rows.                                    *)
LEMMA FirstRepeats ==
    ASSUME NEW a, NEW b, b.ne \in Shape, a.ne = <<1, b.ne[2], b.ne[3], b.ne[4]>>
    PROVE  can_repeat(a, b)
<1>1. /\ b.ne[1] % 1 = 0 /\ b.ne[2] % b.ne[2] = 0
      /\ b.ne[3] % b.ne[3] = 0 /\ b.ne[4] % b.ne[4] = 0
  BY SizesOf, ModOfItself
<1>2. QED
  BY <1>1 DEF can_repeat, Dims

(* A scalar repeats to any shape.                                          *)
LEMMA OneRepeats ==
    ASSUME NEW a, NEW b, b.ne \in Shape, a.ne = <<1, 1, 1, 1>>
    PROVE  can_repeat(a, b)
<1>1. /\ b.ne[1] % 1 = 0 /\ b.ne[2] % 1 = 0 /\ b.ne[3] % 1 = 0 /\ b.ne[4] % 1 = 0
  BY SizesOf, ModOfItself
<1>2. QED
  BY <1>1 DEF can_repeat, Dims

(* Sums, means and repetition.                                             *)
LEMMA ReductionServes ==
    ASSUME Inv, AcceptedInv, GoodGrads(grads),
           NEW i \in Tensors, NEW g, Good(g, tensors[i].ne), Op(i) \in ReductionOps
    PROVE  /\ DOMAIN tensors[i].src = {1} /\ Handed(ReductionBack(i, g))
           /\ Fresh(g, tensors[i].ne) /\ ~RowsIntoGradient(i) /\ ~MovedGradient(i) =>
                 Fitting(grads, Source(i, 1), ReductionBack(i, g))
<1> DEFINE s == Source(i, 1)
           c == ReductionBack(i, g)
           strong == Fresh(g, tensors[i].ne) /\ ~RowsIntoGradient(i) /\ ~MovedGradient(i)
<1>1. Accepted(tensors[i]) /\ Op(i) = tensors[i].op
  BY DEF AcceptedInv, Op
<1>2. g.ne = tensors[i].ne /\ g.ne \in Shape /\ g.ok /\ Lies(g)
  BY DEF Good, Lies
<1>3. \E ops : OneOf(tensors[i], ops)
  BY <1>1, ByReduction DEF ReductionOps, RowsSummed
<1>4. /\ DOMAIN tensors[i].src = {1} /\ X(i) = tensors[i].src[1]
      /\ s \in Tensors /\ X(i).ne = tensors[s].ne /\ X(i).ne \in Shape /\ X(i).ok
  BY <1>3, OneSource
<1>5. strong /\ s \in DOMAIN grads => is_padded_1d(grads[s])
  BY <1>4, SourcePacked
<1>6. CASE Op(i) = "sum"
  <2>1. g.ne = <<1, 1, 1, 1>>
    BY <1>1, <1>2, <1>6, ByReduction
  <2>2. is_scalar(g) /\ can_repeat(g, tensors[s])
    BY <1>4, <2>1, OneRepeats DEF is_scalar
  <2>3. c = Add1(g)
    BY <1>6 DEF ReductionBack
  <2>4. strong => Fitting(grads, s, Add1(g))
    BY <1>2, <1>5, <2>2, AddsOne
  <2>5. QED
    BY <1>2, <1>4, <2>3, <2>4, Hands
<1>7. CASE Op(i) = "mean"
  <2> DEFINE e == scale(g, <<1, X(i).ne[1]>>)
  <2>1. c = Add1(e)
    BY <1>7 DEF ReductionBack
  <2>2. Lies(e) /\ (is_padded_1d(g) => Fresh(e, g.ne))
    BY <1>2, OneMakes
  <2> HIDE DEF e
  <2>3. tensors[i].ne = [tensors[i].src[1].ne EXCEPT ![1] = 1]
    BY <1>1, <1>7, ByReduction DEF RowsSummed
  <2>4. g.ne = <<1, X(i).ne[2], X(i).ne[3], X(i).ne[4]>>
    BY <1>2, <1>4, <2>3, FirstSizeReplaced
  <2>5. ASSUME strong PROVE Fitting(grads, s, Add1(e))
    <3>1. Fresh(e, g.ne)
      BY <1>2, <2>2, <2>5, PackedPasses DEF Fresh, Good
    <3>2. e.ok /\ e.ne = g.ne /\ e.ne \in Shape
      BY <1>2, <3>1 DEF Fresh, Good
    <3>3. can_repeat(e, tensors[s])
      BY <1>4, <2>4, <3>2, FirstRepeats
    <3>4. s \in DOMAIN grads => is_scalar(e)
      BY <1>7, <2>4, <2>5, <3>2 DEF RowsIntoGradient, is_vector, is_scalar
    <3>5. QED
      BY <1>5, <2>5, <3>2, <3>3, <3>4, AddsOne
  <2>6. QED
    BY <1>4, <2>1, <2>2, <2>5, Hands
<1>8. CASE Op(i) \in {"sum_rows", "repeat_back"}
  <2>1. can_repeat(g, X(i))
    <3>1. CASE Op(i) = "repeat_back"
      <4>1. can_repeat(tensors[i], tensors[i].src[1])
        BY <1>1, <3>1, ByReduction
      <4>2. QED
        BY <1>2, <1>4, <4>1, RepeatsAlike
    <3>2. CASE Op(i) = "sum_rows"
      <4>1. tensors[i].ne = [tensors[i].src[1].ne EXCEPT ![1] = 1]
        BY <1>1, <3>2, ByReduction DEF RowsSummed
      <4>2. g.ne = <<1, X(i).ne[2], X(i).ne[3], X(i).ne[4]>>
        BY <1>2, <1>4, <4>1, FirstSizeReplaced
      <4>3. QED
        BY <1>4, <4>2, FirstRepeats
    <3>3. QED
      BY <1>8, <3>1, <3>2
  <2>2. Fresh(repeat(g, X(i)), tensors[s].ne)
    BY <1>2, <1>4, <2>1, ReductionMakes
  <2>3. c = Add(repeat(g, X(i)))
    BY <1>8 DEF ReductionBack
  <2>4. QED
    BY <1>4, <2>2, <2>3, Hands, JoinsFits DEF Fresh, Good
<1>9. CASE Op(i) = "repeat"
  <2>1. can_repeat(X(i), tensors[i])
    BY <1>1, <1>4, <1>9, ByReduction
  <2>2. can_repeat(X(i), g)
    BY <1>2, <2>1, RepeatsAlike
  <2>3. Fresh(repeat_back(g, X(i)), tensors[s].ne)
    BY <1>2, <1>4, <2>2, ReductionMakes
  <2>4. c = Add(repeat_back(g, X(i)))
    BY <1>9 DEF ReductionBack
  <2>5. QED
    BY <1>4, <2>3, <2>4, Hands, JoinsFits DEF Fresh, Good
<1>10. QED
  BY <1>6, <1>7, <1>8, <1>9 DEF ReductionOps

(* Only the result of an assertion changes.                                *)
LEMMA AssertingMakes ==
    ASSUME NEW e, Lies(e), NEW condition
    PROVE  /\ Lies(Asserting(e, condition))
           /\ condition => /\ \A ne : Good(e, ne) => Good(Asserting(e, condition), ne)
                          /\ \A ne : Fresh(e, ne) => Fresh(Asserting(e, condition), ne)
<1>1. {"ne", "nb", "offs", "room", "ok"} \subseteq DOMAIN e
  BY DEF Lies
<1>2. /\ DOMAIN Asserting(e, condition) = DOMAIN e
      /\ Asserting(e, condition).ne = e.ne /\ Asserting(e, condition).nb = e.nb
      /\ Asserting(e, condition).offs = e.offs /\ Asserting(e, condition).room = e.room
      /\ Asserting(e, condition).ok <=> e.ok /\ condition
  BY <1>1 DEF Asserting
<1>3. Lies(Asserting(e, condition))
  BY <1>2 DEF Lies
<1>4. QED
  BY <1>2, <1>3 DEF Good, Fresh

(* A quotient without remainder.                                           *)
LEMMA Divides ==
    ASSUME NEW a \in Nat \ {0}, NEW b \in Nat \ {0}, b % a = 0
    PROVE  (b \div a) \in Nat \ {0} /\ a * (b \div a) = b
<1>1. b = a * (b \div a) + (b % a) /\ (b \div a) \in Int
  OBVIOUS
<1>2. a * (b \div a) = b
  BY <1>1
<1> DEFINE q == b \div a
<1>3. q \in Int /\ a * q = b
  BY <1>1, <1>2
<1> HIDE DEF q
<1>4. q > 0
  <2> SUFFICES ASSUME q <= 0 PROVE FALSE
    BY <1>3
  <2>1. 0 - q \in Nat
    BY <1>3
  <2>2. a * (0 - q) \in Nat
    BY <2>1
  <2>3. a * (0 - q) = 0 - b
    BY <1>3
  <2>4. QED
    BY <2>2, <2>3
<1>5. QED
  BY <1>3, <1>4 DEF q

(* Only 1 divides 1.                                                       *)
LEMMA DividesOne ==
    ASSUME NEW a \in Nat \ {0}, 1 % a = 0
    PROVE  a = 1
<1>1. CASE a > 1
  BY <1>1
<1>2. QED
  BY <1>1

(* The gradient of the first matrix of a product: the batches of the       *)
(* second that belong to one of the first are brought side by side.        *)
LEMMA GroupedMakes ==
    ASSUME NEW p, NEW x, Lies(p), x.ne \in Shape, p.ne[3] % x.ne[3] = 0
    PROVE  /\ Lies(repeat_back(Grouped(p, x), x))
           /\ /\ p.ok /\ p.ne[1] = x.ne[1] /\ p.ne[2] = x.ne[2]
              /\ p.ne[4] = 1 /\ x.ne[4] = 1
              => Good(repeat_back(Grouped(p, x), x), x.ne)
<1> DEFINE nr2 == p.ne[3] \div x.ne[3]
           ne == <<x.ne[1], x.ne[2], x.ne[3], nr2>>
           at == <<p.nb[2], p.nb[3] * nr2, p.nb[3], 0>>
<1>1. /\ p.ne \in Shape
      /\ p.ne[3] \in Nat \ {0} /\ x.ne[3] \in Nat \ {0}
      /\ x.ne[1] \in Nat \ {0} /\ x.ne[2] \in Nat \ {0}
  BY SizesOf DEF Lies
<1>2. nr2 \in Nat \ {0} /\ x.ne[3] * nr2 = p.ne[3]
  BY <1>1, Divides
<1>3. Grouped(p, x) = view_4d(p, ne, at)
  BY DEF Grouped
<1>4. at[4] = 0 /\ 0 \in Nat
  OBVIOUS
<1> HIDE DEF nr2
<1>5. ne \in Shape
  BY <1>1, <1>2, SizesAreShape
<1>6. ne[1] = x.ne[1] /\ ne[2] = x.ne[2] /\ ne[3] = x.ne[3] /\ ne[4] = nr2
  OBVIOUS
<1> HIDE DEF ne, at
<1> DEFINE v == view_4d(p, ne, at)
<1>7. at[4] \in Nat
  BY <1>4
<1>8. /\ Lies(v)
      /\ p.ok /\ at[4] + Product(ne) <= Product(p.ne) => Good(v, ne)
  BY <1>7, <1>5, ViewMakes
<1> HIDE DEF v
<1>9. v.ne \in Shape
  BY <1>8 DEF Lies
<1>10. /\ Lies(repeat_back(v, x))
       /\ v.ok /\ can_repeat(x, v) => Fresh(repeat_back(v, x), x.ne)
  BY <1>9, ReductionMakes
<1>11. Grouped(p, x) = v
  BY <1>3 DEF v
<1>12. ASSUME p.ok, p.ne[1] = x.ne[1], p.ne[2] = x.ne[2], p.ne[4] = 1, x.ne[4] = 1
      PROVE  Good(repeat_back(Grouped(p, x), x), x.ne)
  <2>1. Product(ne) = Product(p.ne) /\ Product(p.ne) \in Nat
    <3>1. Product(ne) = x.ne[1] * x.ne[2] * (x.ne[3] * nr2)
      BY <1>1, <1>2, <1>6 DEF Product
    <3>2. Product(p.ne) = x.ne[1] * x.ne[2] * p.ne[3]
      BY <1>1, <1>12 DEF Product
    <3>3. QED
      BY <1>1, <1>2, <3>1, <3>2, ProductIsPositive
  <2>2. Good(v, ne)
    <3>1. at[4] + Product(ne) <= Product(p.ne)
      BY <1>4, <2>1
    <3>2. QED
      BY <1>8, <1>12, <3>1
  <2>3. can_repeat(x, v)
    <3>1. /\ x.ne[1] % x.ne[1] = 0 /\ x.ne[2] % x.ne[2] = 0
          /\ x.ne[3] % x.ne[3] = 0 /\ nr2 % 1 = 0
      BY <1>1, <1>2, ModOfItself
    <3>2. QED
      BY <1>6, <1>12, <2>2, <3>1 DEF can_repeat, Good, Dims
  <2>4. QED
    BY <1>10, <1>11, <2>2, <2>3 DEF Good, Fresh
<1>13. QED
  BY <1>10, <1>11, <1>12

(* Both sources of a matrix product, where one was broadcast over at most  *)
(* one dimension.                                                          *)
LEMMA MulMatServes ==
    ASSUME Inv, AcceptedInv, NEW i \in Tensors, NEW g, Good(g, tensors[i].ne),
           Op(i) = "mul_mat", NEW k \in DOMAIN tensors[i].src
    PROVE  /\ k \in {1, 2}
           /\ Handed(ProductBack(i, g)[k])
           /\ Source(i, k) \in needed /\ ~MovedSource(i) /\ ~BroadcastOverTwo(i) =>
                 Joins(Source(i, k), ProductBack(i, g)[k])
<1> DEFINE x == X(i)
           y == Y(i)
           product == out_prod(y, g)
           agree == g.ne[3] = y.ne[3] /\ g.ne[4] = y.ne[4]
<1>1. Accepted(tensors[i]) /\ Op(i) = tensors[i].op
  BY DEF AcceptedInv, Op
<1>2. g.ne = tensors[i].ne /\ g.ne \in Shape /\ g.ok /\ Lies(g)
  BY DEF Good, Lies
<1>3. /\ TwoOf(tensors[i], {"mul_mat"})
      /\ tensors[i].ne = <<tensors[i].src[1].ne[2], tensors[i].src[2].ne[2],
                           tensors[i].src[2].ne[3], tensors[i].src[2].ne[4]>>
      /\ tensors[i].src[1].ne[1] = tensors[i].src[2].ne[1]
      /\ BroadcastOver(tensors[i].src[1], tensors[i].src[2])
      /\ ~is_transposed(tensors[i].src[1])
  BY <1>1, ByProduct
<1>4. /\ DOMAIN tensors[i].src = {1, 2}
      /\ x = tensors[i].src[1] /\ x.ne = tensors[Source(i, 1)].ne /\ x.ne \in Shape /\ x.ok
      /\ y = tensors[i].src[2] /\ y.ne = tensors[Source(i, 2)].ne /\ y.ne \in Shape /\ y.ok
  BY <1>3, TwoSources
<1>5. /\ g.ne[1] = x.ne[2] /\ g.ne[2] = y.ne[2] /\ g.ne[3] = y.ne[3] /\ g.ne[4] = y.ne[4]
      /\ x.ne[1] = y.ne[1] /\ y.ne[3] % x.ne[3] = 0 /\ y.ne[4] % x.ne[4] = 0
      /\ ~is_transposed(x)
  BY <1>2, <1>3, <1>4 DEF BroadcastOver
<1>6. /\ g.ne[1] \in Nat \ {0} /\ g.ne[2] \in Nat \ {0}
      /\ g.ne[3] \in Nat \ {0} /\ g.ne[4] \in Nat \ {0}
      /\ x.ne[3] \in Nat \ {0} /\ x.ne[4] \in Nat \ {0}
  BY <1>2, <1>4, SizesOf
<1>7. /\ Lies(product) /\ product.ne = <<x.ne[1], x.ne[2], y.ne[3], y.ne[4]>>
      /\ ~is_transposed(y) => Fresh(product, product.ne)
  <2>1. BroadcastOver(y, g) /\ y.ne[2] = g.ne[2]
    BY <1>5, <1>6, ModOfItself DEF BroadcastOver
  <2>2. /\ Lies(product) /\ product.ne = <<y.ne[1], g.ne[1], g.ne[3], g.ne[4]>>
        /\ ~is_transposed(y) => Fresh(product, <<y.ne[1], g.ne[1], g.ne[3], g.ne[4]>>)
    BY <1>2, <1>4, <2>1, OutProdMakes
  <2>3. <<y.ne[1], g.ne[1], g.ne[3], g.ne[4]>> = <<x.ne[1], x.ne[2], y.ne[3], y.ne[4]>>
    BY <1>5
  <2> HIDE DEF product
  <2>4. QED
    BY <2>2, <2>3
<1>8. /\ product.ne[1] = x.ne[1] /\ product.ne[2] = x.ne[2]
      /\ product.ne[3] = y.ne[3] /\ product.ne[4] = y.ne[4]
  BY <1>7
<1> HIDE DEF product
<1>9. CASE k = 1
  <2> DEFINE whole == MulMatBack0(g, x, y)
             back == repeat_back(Grouped(product, x), x)
             tests == product.ne[1] = x.ne[1] /\ product.ne[2] = x.ne[2] /\ product.ne[4] = 1
  <2>1. ProductBack(i, g)[k] = Add(Asserting(whole, agree))
    BY <1>9 DEF ProductBack
  <2>2. whole = IF product.ne = x.ne THEN product ELSE Asserting(back, tests)
    BY DEF MulMatBack0, product, are_same_shape
  <2>3. /\ Lies(back)
        /\ /\ product.ok /\ product.ne[1] = x.ne[1] /\ product.ne[2] = x.ne[2]
           /\ product.ne[4] = 1 /\ x.ne[4] = 1
           => Good(back, x.ne)
    BY <1>4, <1>5, <1>7, <1>8, GroupedMakes
  <2> HIDE DEF whole, back, tests
  <2>4. Lies(whole)
    BY <1>7, <2>2, <2>3, AssertingMakes
  <2>5. agree
    BY <1>5
  <2> HIDE DEF agree
  <2>6. Handed(ProductBack(i, g)[k])
    BY <2>1, <2>4, AssertingMakes, Hands
  <2>7. ASSUME Source(i, k) \in needed, ~MovedSource(i), ~BroadcastOverTwo(i)
        PROVE  Good(whole, x.ne)
    <3>1. ~is_transposed(y)
      BY <1>9, <2>7 DEF MovedSource
    <3>2. Fresh(product, product.ne)
      BY <1>7, <3>1
    <3>3. CASE product.ne = x.ne
      BY <2>2, <3>2, <3>3 DEF Fresh
    <3>4. CASE product.ne # x.ne
      <4>1. y.ne[4] = 1
        <5>1. y.ne[4] = 1 \/ (x.ne[3] = y.ne[3] /\ x.ne[4] = y.ne[4])
          BY <1>4, <1>9, <2>7 DEF BroadcastOverTwo, NeedsSource
        <5>2. x.ne = <<x.ne[1], x.ne[2], x.ne[3], x.ne[4]>>
          BY <1>4, SameSizes
        <5>3. QED
          BY <1>7, <3>4, <5>1, <5>2
      <4>2. x.ne[4] = 1
        BY <1>5, <1>6, <4>1, DividesOne
      <4>3. tests
        BY <1>8, <4>1 DEF tests
      <4>4. Good(back, x.ne)
        BY <1>8, <2>3, <3>2, <4>1, <4>2 DEF Fresh, Good
      <4>5. QED
        BY <2>2, <2>3, <3>4, <4>3, <4>4, AssertingMakes
    <3>5. QED
      BY <3>3, <3>4
  <2>8. Good(whole, x.ne) => Good(Asserting(whole, agree), tensors[Source(i, k)].ne)
    BY <1>4, <1>9, <2>4, <2>5, AssertingMakes
  <2>9. QED
    BY <1>9, <2>1, <2>6, <2>7, <2>8, Hands
<1>10. CASE k = 2
  <2> DEFINE turned == transpose(g)
  <2>1. ProductBack(i, g)[k] = Add(out_prod(x, turned))
    BY <1>10 DEF ProductBack
  <2>2. /\ turned.ne = <<g.ne[2], g.ne[1], g.ne[3], g.ne[4]>>
        /\ turned.ok /\ turned.ne \in Shape
    BY <1>2, TransposeMakes DEF Good, Lies
  <2> HIDE DEF turned
  <2>3. /\ turned.ne[1] = y.ne[2] /\ turned.ne[2] = x.ne[2]
        /\ turned.ne[3] = y.ne[3] /\ turned.ne[4] = y.ne[4]
    BY <1>5, <2>2
  <2>4. BroadcastOver(x, turned)
    BY <1>5, <2>3 DEF BroadcastOver
  <2>5. <<x.ne[1], turned.ne[1], turned.ne[3], turned.ne[4]>> = y.ne
    BY <1>4, <1>5, <2>3, SameSizes
  <2>6. Fresh(out_prod(x, turned), y.ne)
    BY <1>4, <1>5, <2>2, <2>3, <2>4, <2>5, OutProdMakes
  <2>7. QED
    BY <1>4, <1>10, <2>1, <2>6, Hands DEF Fresh, Good
<1>11. QED
  BY <1>4, <1>9, <1>10

(* What no gradient is needed for: the leaves that are not parameters.     *)
Given(i) == tensors[i].op \in LeafKinds \ {"param"}
NeededInv == \A i \in losses \cup needed : ~Given(i)

(* A gated unit hands its gradient through the other half, and through the *)
(* gate.                                                                   *)
LEMMA SwigluServes ==
    ASSUME Inv, AcceptedInv, NEW i \in Tensors, NEW g, Good(g, tensors[i].ne),
           Op(i) = "swiglu", NEW k \in DOMAIN tensors[i].src
    PROVE  /\ k \in {1, 2} /\ Handed(ProductBack(i, g)[k])
           /\ Joins(Source(i, k), ProductBack(i, g)[k])
<1>1. Accepted(tensors[i]) /\ Op(i) = tensors[i].op
  BY DEF AcceptedInv, Op
<1>2. g.ne = tensors[i].ne /\ g.ne \in Shape /\ g.ok /\ Lies(g)
  BY DEF Good, Lies
<1>3. /\ TwoOf(tensors[i], Glu)
      /\ tensors[i].ne = tensors[i].src[1].ne /\ tensors[i].ne = tensors[i].src[2].ne
      /\ is_contiguous_rows(tensors[i].src[1])
  BY <1>1, ByOperation DEF Glu
<1>4. /\ DOMAIN tensors[i].src = {1, 2}
      /\ X(i).ne = tensors[Source(i, 1)].ne /\ X(i).ok /\ g.ne = X(i).ne
      /\ Y(i).ne = tensors[Source(i, 2)].ne /\ Y(i).ok /\ g.ne = Y(i).ne
      /\ is_contiguous_rows(X(i))
  BY <1>2, <1>3, TwoSources
<1>5. CASE k = 1
  <2> DEFINE product == mul(g, Y(i))
  <2>1. ProductBack(i, g)[k] = Add(silu_back(product, X(i)))
    BY <1>5 DEF ProductBack
  <2>2. can_repeat(Y(i), g)
    BY <1>2, <1>4, RepeatsItself
  <2>3. Fresh(product, g.ne)
    BY <1>2, <1>4, <2>2, TwoMake
  <2> HIDE DEF product
  <2>4. product.ok /\ product.ne = g.ne /\ product.ne \in Shape
    BY <1>2, <2>3 DEF Fresh, Good
  <2>5. Fresh(silu_back(product, X(i)), g.ne)
    BY <1>4, <2>4, TwoMake
  <2>6. QED
    BY <1>4, <1>5, <2>1, <2>5, Hands DEF Fresh, Good
<1>6. CASE k = 2
  <2> DEFINE gate == unary("silu", X(i))
  <2>1. ProductBack(i, g)[k] = Add(mul(gate, g))
    BY <1>6 DEF ProductBack
  <2>2. Fresh(gate, g.ne)
    BY <1>2, <1>4, OneMakes
  <2> HIDE DEF gate
  <2>3. gate.ok /\ gate.ne = g.ne /\ gate.ne \in Shape
    BY <1>2, <2>2 DEF Fresh, Good
  <2>4. can_repeat(g, gate)
    BY <1>2, <2>3, RepeatsItself
  <2>5. Fresh(mul(gate, g), g.ne)
    BY <1>2, <2>3, <2>4, TwoMake
  <2>6. QED
    BY <1>4, <1>6, <2>1, <2>5, Hands DEF Fresh, Good
<1>7. QED
  BY <1>4, <1>5, <1>6

(* A choice of rows of one matrix; row numbers get no gradient.            *)
LEMMA GetRowsServes ==
    ASSUME Inv, AcceptedInv, NeededInv,
           NEW i \in Tensors, NEW g, Good(g, tensors[i].ne),
           Op(i) = "get_rows", NEW k \in DOMAIN tensors[i].src
    PROVE  /\ k \in {1, 2} /\ Handed(ProductBack(i, g)[k])
           /\ Source(i, k) \in needed /\ ~RowsOfSeveralMatrices(i) =>
                 Joins(Source(i, k), ProductBack(i, g)[k])
<1>1. Accepted(tensors[i]) /\ Op(i) = tensors[i].op
  BY DEF AcceptedInv, Op
<1>2. g.ne = tensors[i].ne /\ g.ne \in Shape /\ g.ok /\ Lies(g)
  BY DEF Good, Lies
<1>3. /\ TwoOf(tensors[i], {"get_rows"})
      /\ tensors[i].ne = <<tensors[i].src[1].ne[1], tensors[i].src[2].ne[1],
                           tensors[i].src[2].ne[2], tensors[i].src[2].ne[3]>>
      /\ tensors[i].src[1].ne[3] = tensors[i].src[2].ne[2]
      /\ tensors[i].src[1].ne[4] = tensors[i].src[2].ne[3]
      /\ tensors[i].src[2].ne[4] = 1 /\ tensors[i].src[2].type = "i32"
  BY <1>1, ByProduct
<1>4. /\ DOMAIN tensors[i].src = {1, 2}
      /\ X(i) = tensors[i].src[1] /\ X(i).ne = tensors[Source(i, 1)].ne
      /\ X(i).ne \in Shape /\ X(i).ok
      /\ Y(i) = tensors[i].src[2] /\ Y(i).ok /\ Source(i, 2) \in Tensors
  BY <1>3, TwoSources
<1>5. /\ g.ne[1] = X(i).ne[1] /\ g.ne[3] = Y(i).ne[2] /\ g.ne[4] = Y(i).ne[3]
      /\ X(i).ne[3] = Y(i).ne[2] /\ X(i).ne[4] = Y(i).ne[3]
      /\ Y(i).ne[4] = 1 /\ Y(i).type = "i32"
  BY <1>2, <1>3, <1>4
<1>6. CASE k = 1
  <2>1. ProductBack(i, g)[k] = Add(get_rows_back(g, Y(i), X(i)))
    BY <1>6 DEF ProductBack
  <2>2. Lies(get_rows_back(g, Y(i), X(i)))
    BY <1>4, GetRowsBackMakes
  <2>3. ASSUME ~RowsOfSeveralMatrices(i)
        PROVE  Good(get_rows_back(g, Y(i), X(i)), X(i).ne)
    <3>1. is_matrix(X(i))
      BY <2>3 DEF RowsOfSeveralMatrices
    <3>2. is_matrix(g) /\ is_vector(Y(i))
      BY <1>5, <3>1 DEF is_matrix, is_vector
    <3>3. QED
      BY <1>2, <1>4, <1>5, <3>1, <3>2, GetRowsBackMakes
  <2>4. QED
    BY <1>4, <1>6, <2>1, <2>2, <2>3, Hands
<1>7. CASE k = 2
  <2>1. ProductBack(i, g)[k] = Nothing
    BY <1>7 DEF ProductBack
  <2>2. tensors[Source(i, 2)].type = "i32"
    <3>1. Y(i).type = tensors[Source(i, 2)].type
      BY DEF Y, Ref
    <3>2. QED
      BY <1>5, <3>1
  <2>3. tensors[Source(i, 2)].op = "index"
    BY <1>4, <2>2 DEF AcceptedInv, Typed
  <2>4. Source(i, 2) \notin needed
    BY <2>3 DEF NeededInv, Given, LeafKinds
  <2>5. QED
    BY <1>7, <2>1, <2>4, Hands
<1>8. QED
  BY <1>4, <1>6, <1>7

(* The block of a gradient where the second source was written.            *)
LEMMA BlockServes ==
    ASSUME Inv, AcceptedInv, NEW i \in Tensors, NEW g, Good(g, tensors[i].ne),
           Op(i) \in {"acc", "set"}, NEW k \in DOMAIN tensors[i].src
    PROVE  /\ k \in {1, 2} /\ Handed(BlockBack(i, g)[k])
           /\ Fresh(g, tensors[i].ne) => Joins(Source(i, k), BlockBack(i, g)[k])
<1> DEFINE ne == Y(i).ne
           at == Arg(i)
           block == view_4d(g, ne, at)
           negated == unary("neg", block)
           copied == cont(block)
<1>1. Accepted(tensors[i]) /\ Op(i) = tensors[i].op /\ at = tensors[i].arg
  BY DEF AcceptedInv, Op, Arg
<1>2. g.ne = tensors[i].ne /\ g.ne \in Shape /\ g.ok /\ Lies(g)
  BY DEF Good, Lies
<1>3. /\ TwoOf(tensors[i], {"acc", "set"}) /\ tensors[i].ne = tensors[i].src[1].ne
      /\ at[4] \in Nat
      /\ at[4] + Product(tensors[i].src[2].ne) <= Product(tensors[i].src[1].ne)
  BY <1>1, ByOperation
<1>4. /\ DOMAIN tensors[i].src = {1, 2}
      /\ g.ne = X(i).ne /\ X(i).ne = tensors[Source(i, 1)].ne
      /\ ne = tensors[Source(i, 2)].ne /\ ne \in Shape
      /\ at[4] + Product(ne) <= Product(g.ne)
  BY <1>2, <1>3, TwoSources
<1>5. BlockBack(i, g) = <<IF Op(i) = "acc" THEN Add(g)
                          ELSE Add(acc_impl(g, negated, at, FALSE)),
                          Add(reshape(copied, ne))>>
  BY DEF BlockBack
<1> HIDE DEF ne, at
<1>6. Good(block, ne) /\ is_contiguous_rows(block)
  BY <1>2, <1>3, <1>4, ViewMakes
<1> HIDE DEF block
<1>7. block.ok /\ block.ne = ne
  BY <1>6 DEF Good
<1>8. Fresh(negated, ne) /\ Fresh(copied, ne)
  BY <1>4, <1>6, <1>7, OneMakes
<1> HIDE DEF negated, copied
<1>9. /\ copied.ok /\ copied.ne = ne /\ Lies(copied) /\ is_contiguous(copied)
      /\ negated.ok /\ negated.ne = ne
  BY <1>4, <1>8, PackedPasses DEF Fresh, Good
<1>10. Good(reshape(copied, ne), ne)
  BY <1>3, <1>4, <1>9, ViewMakes
<1>11. /\ Lies(acc_impl(g, negated, at, FALSE))
       /\ Fresh(g, tensors[i].ne) => Good(acc_impl(g, negated, at, FALSE), g.ne)
  <2>1. FALSE \in BOOLEAN
    OBVIOUS
  <2>2. nelements(negated) <= nelements(g)
    BY <1>2, <1>3, <1>4, <1>9, ProductIsPositive DEF nelements
  <2>3. Fresh(g, tensors[i].ne) => is_contiguous(g)
    BY <1>2, PackedPasses DEF Fresh
  <2>4. QED
    BY <1>2, <1>9, <2>1, <2>2, <2>3, AddedTo
<1>12. CASE k = 1
  <2>1. BlockBack(i, g)[k] = IF Op(i) = "acc" THEN Add(g)
                             ELSE Add(acc_impl(g, negated, at, FALSE))
    BY <1>5, <1>12
  <2>2. QED
    BY <1>2, <1>4, <1>11, <1>12, <2>1, Hands DEF Good
<1>13. CASE k = 2
  <2>1. BlockBack(i, g)[k] = Add(reshape(copied, ne))
    BY <1>5, <1>13
  <2>2. QED
    BY <1>4, <1>10, <1>13, <2>1, Hands DEF Good
<1>14. QED
  BY <1>4, <1>12, <1>13

(* Masks, and the loss; a mask and labels are not to get a gradient.       *)
LEMMA LossServes ==
    ASSUME Inv, AcceptedInv, NEW i \in Tensors, NEW g, Good(g, tensors[i].ne),
           Op(i) \in LossOps, NEW k \in DOMAIN tensors[i].src
    PROVE  /\ k \in {1, 2} /\ Handed(LossBack(i, g))
           /\ Source(i, k) \in needed /\ ~GradientForConstant(i) =>
                 k = 1 /\ Joins(Source(i, k), LossBack(i, g))
<1>1. Accepted(tensors[i]) /\ Op(i) = tensors[i].op
  BY DEF AcceptedInv, Op
<1>2. g.ne = tensors[i].ne /\ g.ne \in Shape /\ g.ok /\ Lies(g)
  BY DEF Good, Lies
<1>3. CASE Op(i) \in DiagMask
  <2>1. LossBack(i, g) = Add(diag_mask("diag_mask_zero", g, Arg(i)[1]))
    BY <1>3 DEF LossBack, DiagMask
  <2>2. DOMAIN tensors[i].src = {1} /\ g.ne = tensors[Source(i, 1)].ne
    BY <1>3, KeptSource DEF ShapeKept, DiagMask
  <2>3. Fresh(diag_mask("diag_mask_zero", g, Arg(i)[1]), g.ne)
    BY <1>2, OneMakes
  <2>4. QED
    BY <2>1, <2>2, <2>3, Hands DEF Fresh, Good
<1>4. CASE Op(i) = "soft_max"
  <2>1. LossBack(i, g) = Add(soft_max_ext_back(g, Ref(i), Arg(i)))
    BY <1>4 DEF LossBack, DiagMask
  <2>2. /\ OneOf(tensors[i], ShapeKept) \/ TwoOf(tensors[i], {"soft_max"})
        /\ tensors[i].ne = tensors[i].src[1].ne
    BY <1>1, <1>4, ByOperation
  <2>3. k \in {1, 2} /\ g.ne = tensors[Source(i, 1)].ne
    BY <1>2, <2>2, OneSource, TwoSources
  <2>4. Fresh(soft_max_ext_back(g, Ref(i), Arg(i)), g.ne)
    BY <1>2, RefFields, TwoMake
  <2>5. Source(i, k) \in needed /\ ~GradientForConstant(i) => k = 1
    BY <1>4, <2>3 DEF GradientForConstant, NeedsSource
  <2>6. QED
    BY <2>1, <2>3, <2>4, <2>5, Hands DEF Fresh, Good
<1>5. CASE Op(i) = "cross_entropy_loss"
  <2>1. LossBack(i, g) = Add(cross_entropy_loss_back(g, X(i), Y(i)))
    BY <1>5 DEF LossBack, DiagMask
  <2>2. /\ TwoOf(tensors[i], {"cross_entropy_loss"})
        /\ tensors[i].ne = <<1, 1, 1, 1>> /\ tensors[i].src[1].ne = tensors[i].src[2].ne
    BY <1>1, <1>5, ByProduct
  <2>3. /\ k \in {1, 2}
        /\ X(i).ne = tensors[Source(i, 1)].ne /\ X(i).ne \in Shape /\ X(i).ok
        /\ Y(i).ok /\ X(i).ne = Y(i).ne /\ is_scalar(g)
    BY <1>2, <2>2, TwoSources DEF is_scalar
  <2>4. Good(cross_entropy_loss_back(g, X(i), Y(i)), X(i).ne)
    BY <1>2, <2>3, CrossEntropyBackMakes
  <2>5. Source(i, k) \in needed /\ ~GradientForConstant(i) => k = 1
    BY <1>5, <2>3 DEF GradientForConstant, NeedsSource
  <2>6. QED
    BY <2>1, <2>3, <2>4, <2>5, Hands DEF Good
<1>6. QED
  BY <1>3, <1>4, <1>5 DEF LossOps

(* What permutes a shape back.                                             *)
LEMMA PermuteMakes ==
    ASSUME NEW a, Lies(a)
    PROVE  LET axis == [j \in Dims |-> CHOOSE k \in Dims : <<2, 3, 1, 4>>[k] = j]
           IN  /\ Lies(permute(a, axis))
               /\ a.ok => Good(permute(a, axis), <<a.ne[2], a.ne[3], a.ne[1], a.ne[4]>>)
<1> DEFINE axis == [j \in Dims |-> CHOOSE k \in Dims : <<2, 3, 1, 4>>[k] = j]
           from == [j \in Dims |-> CHOOSE i \in Dims : axis[i] = j]
           ne == [j \in Dims |-> a.ne[from[j]]]
           nb == [j \in Dims |-> a.nb[from[j]]]
           turned == <<a.ne[2], a.ne[3], a.ne[1], a.ne[4]>>
           always == TRUE
<1>1. permute(a, axis) = NewView("permute", <<a>>, axis, a, ne, nb, 0, always)
  BY DEF permute
<1>2. axis[1] = 3 /\ axis[2] = 1 /\ axis[3] = 2 /\ axis[4] = 4
  BY DEF Dims
<1> HIDE DEF axis
<1>3. from[1] = 2 /\ from[2] = 3 /\ from[3] = 1 /\ from[4] = 4
  <2>1. /\ (CHOOSE i \in Dims : axis[i] = 1) = 2
        /\ (CHOOSE i \in Dims : axis[i] = 2) = 3
        /\ (CHOOSE i \in Dims : axis[i] = 3) = 1
        /\ (CHOOSE i \in Dims : axis[i] = 4) = 4
    BY <1>2 DEF Dims
  <2>2. QED
    BY <2>1 DEF Dims
<1> HIDE DEF from
<1>4. /\ a.ne \in Shape /\ turned \in Shape
      /\ Product(turned) = Product(a.ne) /\ Product(a.ne) \in Nat
  <2>1. a.ne \in Shape
    BY DEF Lies
  <2>2. QED
    BY <2>1, SizesOf, SizesAreShape, SwappedProducts, ProductIsPositive
<1>5. ne = turned
  <2>1. DOMAIN turned = Dims
    BY DEF Dims
  <2>2. turned = [j \in Dims |-> turned[j]]
    BY <2>1
  <2>3. \A j \in Dims : a.ne[from[j]] = turned[j]
    BY <1>3 DEF Dims
  <2>4. QED
    BY <2>2, <2>3
<1> HIDE DEF ne, nb, turned, always
<1>6. 0 \in Nat /\ always \in BOOLEAN /\ always /\ 0 + Product(ne) <= Product(a.ne)
  BY <1>4, <1>5 DEF always
<1>7. /\ Lies(permute(a, axis))
      /\ a.ok => Good(permute(a, axis), ne)
  <2> DEFINE e == NewView("permute", <<a>>, axis, a, ne, nb, 0, always)
  <2>1. ne \in Shape
    BY <1>4, <1>5
  <2>2. /\ Lies(e)
        /\ always /\ AllOk(<<a>>) /\ a.ok /\ 0 + Product(ne) <= Product(a.ne) => Good(e, ne)
    BY <1>6, <2>1, NewViewLies
  <2> HIDE DEF e
  <2>3. permute(a, axis) = e
    BY <1>1 DEF e
  <2>4. QED
    BY <1>6, <2>2, <2>3, SourceOk
<1>8. QED
  BY <1>5, <1>7 DEF axis, turned

(* Copies and views: what is the same elements elsewhere.                  *)
LEMMA MovedServes ==
    ASSUME Inv, AcceptedInv, NeededInv, GoodGrads(grads),
           NEW i \in Tensors, NEW g, Good(g, tensors[i].ne),
           Op(i) \in MovedOps, NEW k \in DOMAIN tensors[i].src
    PROVE  /\ k \in {1, 2} /\ Handed(MovedBack(i, g))
           /\ /\ Fresh(g, tensors[i].ne) /\ Source(i, k) \in needed
              /\ ~MovedSource(i) /\ ~MovedGradient(i)
              => k = 1 /\ Fitting(grads, Source(i, k), MovedBack(i, g))
<1> DEFINE s == Source(i, k)
           c == MovedBack(i, g)
           strong == /\ Fresh(g, tensors[i].ne) /\ s \in needed
                     /\ ~MovedSource(i) /\ ~MovedGradient(i)
<1>1. Accepted(tensors[i]) /\ Op(i) = tensors[i].op
  BY DEF AcceptedInv, Op
<1>2. g.ne = tensors[i].ne /\ g.ne \in Shape /\ g.ok /\ Lies(g)
  BY DEF Good, Lies
<1>3. Fresh(g, tensors[i].ne) => is_contiguous(g)
  BY <1>2, PackedPasses DEF Fresh
<1>4. ASSUME NEW ne \in Shape, Product(g.ne) = Product(ne)
      PROVE  Lies(reshape(g, ne)) /\ (is_contiguous(g) => Good(reshape(g, ne), ne))
  <2>1. <<0, 0, 0, 0>>[4] \in Nat
    OBVIOUS
  <2>2. QED
    BY <1>2, <1>4, <2>1, ViewMakes
<1>5. CASE Op(i) = "cpy"
  <2>1. TwoOf(tensors[i], {"cpy"}) /\ Product(tensors[i].ne) = Product(tensors[i].src[1].ne)
    BY <1>1, <1>5, ByMovingOperation
  <2>2. /\ DOMAIN tensors[i].src = {1, 2}
        /\ X(i).ne = tensors[Source(i, 1)].ne /\ X(i).ne \in Shape
        /\ Product(g.ne) = Product(X(i).ne)
    BY <1>2, <2>1, TwoSources
  <2>3. c = Add(reshape(g, X(i).ne))
    BY <1>5 DEF MovedBack
  <2>4. Source(i, 2) \notin needed
    <3>1. tensors[Source(i, 2)].op = "target"
      BY <1>1, <1>5 DEF AcceptedInv, Typed, Source
    <3>2. QED
      BY <3>1 DEF NeededInv, Given, LeafKinds
  <2>5. QED
    BY <1>3, <1>4, <2>2, <2>3, <2>4, Hands, JoinsFits
<1>6. CASE Op(i) = "cont"
  <2>1. /\ DOMAIN tensors[i].src = {1} /\ g.ne = tensors[Source(i, 1)].ne
        /\ X(i).ne = g.ne
    BY <1>6, KeptSource DEF ShapeKept, Unary, Plain, DiagMask
  <2>2. c = Add(Asserting(g, is_contiguous(g)))
    BY <1>2, <1>6, <2>1 DEF MovedBack, are_same_shape
  <2>3. /\ Lies(Asserting(g, is_contiguous(g)))
        /\ is_contiguous(g) => Good(Asserting(g, is_contiguous(g)), g.ne)
    BY <1>2, AssertingMakes DEF Good
  <2>4. QED
    BY <1>3, <2>1, <2>2, <2>3, Hands, JoinsFits
<1>7. CASE Op(i) = "reshape"
  <2>1. OneOf(tensors[i], {"reshape"}) /\ Product(tensors[i].ne) = Product(tensors[i].src[1].ne)
    BY <1>1, <1>7, ByMovingOperation
  <2>2. /\ DOMAIN tensors[i].src = {1}
        /\ X(i).ne = tensors[Source(i, 1)].ne /\ X(i).ne \in Shape
        /\ Product(g.ne) = Product(X(i).ne)
    BY <1>2, <2>1, OneSource
  <2>3. c = Add(reshape(IF is_contiguous(g) THEN g ELSE cont(g), X(i).ne))
    BY <1>7 DEF MovedBack
  <2>4. Good(reshape(IF is_contiguous(g) THEN g ELSE cont(g), X(i).ne), X(i).ne)
    <3>1. CASE is_contiguous(g)
      BY <1>4, <2>2, <3>1
    <3>2. CASE ~is_contiguous(g)
      <4>1. Fresh(cont(g), g.ne)
        BY <1>2, OneMakes
      <4>2. cont(g).ok /\ cont(g).ne = g.ne /\ Lies(cont(g)) /\ is_contiguous(cont(g))
        BY <1>2, <4>1, PackedPasses DEF Fresh, Good
      <4>3. <<0, 0, 0, 0>>[4] \in Nat
        OBVIOUS
      <4>4. Good(reshape(cont(g), X(i).ne), X(i).ne)
        BY <2>2, <4>2, <4>3, ViewMakes
      <4>5. QED
        BY <3>2, <4>4
    <3>3. QED
      BY <3>1, <3>2
  <2>5. QED
    BY <2>2, <2>3, <2>4, Hands, JoinsFits DEF Good
<1>8. CASE Op(i) = "view"
  <2>1. OneOf(tensors[i], {"view"}) /\ Product(tensors[i].ne) <= Product(tensors[i].src[1].ne)
    BY <1>1, <1>8, ByMovingOperation
  <2>2. /\ DOMAIN tensors[i].src = {1} /\ k = 1
        /\ X(i).ne = tensors[s].ne
        /\ nelements(g) <= Product(X(i).ne)
    BY <1>2, <2>1, OneSource DEF nelements
  <2>3. c.how = "acc" /\ c.e = g
    BY <1>8 DEF MovedBack, Acc
  <2>4. strong => IF s \in DOMAIN grads THEN is_contiguous(grads[s]) ELSE is_padded_1d(Ref(s))
    BY <1>8, <2>2, SourcePacked DEF MovedSource, X
  <2>5. strong => Fitting(grads, s, c)
    BY <1>2, <2>2, <2>3, <2>4 DEF Fitting
  <2>6. QED
    BY <1>2, <2>2, <2>3, <2>5 DEF Handed
<1>9. CASE Op(i) = "permute"
  <2> DEFINE axis == [j \in Dims |-> CHOOSE n \in Dims : <<2, 3, 1, 4>>[n] = j]
  <2>1. /\ OneOf(tensors[i], {"permute"}) /\ tensors[i].arg = <<2, 3, 1, 4>>
        /\ tensors[i].ne = <<tensors[i].src[1].ne[3], tensors[i].src[1].ne[1],
                             tensors[i].src[1].ne[2], tensors[i].src[1].ne[4]>>
    BY <1>1, <1>9, ByMovingOperation
  <2>2. /\ DOMAIN tensors[i].src = {1}
        /\ X(i).ne = tensors[Source(i, 1)].ne /\ X(i).ne \in Shape
        /\ X(i) = tensors[i].src[1]
    BY <2>1, OneSource
  <2>3. c = Add(permute(g, axis))
    BY <1>9, <2>1 DEF MovedBack, Arg
  <2>4. /\ Lies(permute(g, axis))
        /\ Good(permute(g, axis), <<g.ne[2], g.ne[3], g.ne[1], g.ne[4]>>)
    BY <1>2, PermuteMakes
  <2> HIDE DEF axis
  <2>5. <<g.ne[2], g.ne[3], g.ne[1], g.ne[4]>> = X(i).ne
    <3>1. /\ g.ne[1] = X(i).ne[3] /\ g.ne[2] = X(i).ne[1]
          /\ g.ne[3] = X(i).ne[2] /\ g.ne[4] = X(i).ne[4]
      BY <1>2, <2>1, <2>2
    <3>2. QED
      BY <2>2, <3>1, SameSizes
  <2>6. QED
    BY <2>2, <2>3, <2>4, <2>5, Hands, JoinsFits
<1>10. CASE Op(i) = "transpose"
  <2>1. /\ OneOf(tensors[i], {"transpose"})
        /\ tensors[i].ne = <<tensors[i].src[1].ne[2], tensors[i].src[1].ne[1],
                             tensors[i].src[1].ne[3], tensors[i].src[1].ne[4]>>
    BY <1>1, <1>10, ByMovingOperation
  <2>2. /\ DOMAIN tensors[i].src = {1}
        /\ X(i).ne = tensors[Source(i, 1)].ne /\ X(i).ne \in Shape
        /\ X(i) = tensors[i].src[1]
    BY <2>1, OneSource
  <2>3. c = Add(transpose(g))
    BY <1>10 DEF MovedBack
  <2>4. /\ Lies(transpose(g))
        /\ Good(transpose(g), <<g.ne[2], g.ne[1], g.ne[3], g.ne[4]>>)
    BY <1>2, TransposeMakes
  <2>5. <<g.ne[2], g.ne[1], g.ne[3], g.ne[4]>> = X(i).ne
    <3>1. /\ g.ne[1] = X(i).ne[2] /\ g.ne[2] = X(i).ne[1]
          /\ g.ne[3] = X(i).ne[3] /\ g.ne[4] = X(i).ne[4]
      BY <1>2, <2>1, <2>2
    <3>2. QED
      BY <2>2, <3>1, SameSizes
  <2>6. QED
    BY <2>2, <2>3, <2>4, <2>5, Hands, JoinsFits
<1>11. QED
  BY <1>5, <1>6, <1>7, <1>8, <1>9, <1>10 DEF MovedOps

(* Whatever a node is, what it hands to its k-th source lies within its    *)
(* memory; if the node does not refuse, it fits what the source has.       *)
Serves(i, k) ==
    LET c == Contributions(i, grads[i])[k]
        s == Source(i, k)
    IN  /\ k \in {1, 2} /\ Handed(c)
        /\ s \in needed /\ ~Refuses(i) => Joins(s, c) \/ (k = 1 /\ Fitting(grads, s, c))

(* Every node that is supported serves its sources, whatever its           *)
(* operation.                                                              *)
LEMMA NodeServes ==
    ASSUME Inv, AcceptedInv, NeededInv, GoodGrads(grads),
           NEW i \in Tensors, i \in DOMAIN grads, Op(i) \notin Unsupported,
           NEW k \in DOMAIN tensors[i].src
    PROVE  Serves(i, k)
<1> DEFINE g == grads[i]
           s == Source(i, k)
           c == Contributions(i, g)[k]
           calm == s \in needed /\ ~Refuses(i)
<1>1. Good(g, tensors[i].ne)
  BY DEF GoodGrads
<1>2. calm => Fresh(g, tensors[i].ne)
  BY <1>1 DEF Refuses, MovedGradient, Fresh, Good
<1>3. Accepted(tensors[i]) /\ Op(i) = tensors[i].op
  BY DEF AcceptedInv, Op
<1>4. Op(i) \notin LeafKinds
  <2>1. DOMAIN <<>> = {}
    OBVIOUS
  <2>2. QED
    BY <1>3, <2>1, ByOperation
<1>5. \/ Op(i) \in {"dup", "add1"} \cup Elementwise
      \/ Op(i) \in {"mul_mat", "get_rows", "swiglu"}
      \/ Op(i) \in {"acc", "set"}
      \/ Op(i) \in FunctionOps
      \/ Op(i) \in UnaryOps
      \/ Op(i) \in ReductionOps
      \/ Op(i) \in LossOps
      \/ Op(i) \in MovedOps
  BY <1>3, <1>4, ByMovingOperation
     DEF LeafKinds, ShapeKept, Plain, Unary, DiagMask, Elementwise, Glu, RowsSummed,
         FunctionOps, UnaryOps, ReductionOps, LossOps, MovedOps, Unsupported
<1> HIDE DEF g
<1>6. CASE Op(i) \in {"dup", "add1"} \cup Elementwise
  <2>1. Contributions(i, g) = ArithmeticBack(i, g)
    BY <1>4, <1>6
       DEF Contributions, LeafKinds, Elementwise, FunctionOps, UnaryOps, ReductionOps,
           LossOps, DiagMask, MovedOps
  <2>2. k \in {1, 2}
    <3>1. OneOf(tensors[i], ShapeKept) \/ TwoOf(tensors[i], Elementwise \cup {"add1"})
      BY <1>3, <1>6, ByOperation DEF ShapeKept, Plain, OneOf, TwoOf
    <3>2. QED
      BY <3>1, OneSource, TwoSources
  <2>3. QED
    BY <1>1, <1>2, <1>6, <2>1, <2>2, ArithmeticServes DEF Serves, Refuses, g
<1>7. CASE Op(i) \in {"mul_mat", "get_rows", "swiglu"}
  <2>1. Contributions(i, g) = ProductBack(i, g)
    BY <1>4, <1>7
       DEF Contributions, LeafKinds, Elementwise, FunctionOps, UnaryOps, ReductionOps,
           LossOps, DiagMask, MovedOps
  <2>2. k \in {1, 2} /\ Handed(ProductBack(i, g)[k]) /\ (calm => Joins(s, ProductBack(i, g)[k]))
    BY <1>1, <1>7, MulMatServes, GetRowsServes, SwigluServes DEF Refuses
  <2>3. QED
    BY <2>1, <2>2 DEF Serves, g
<1>8. CASE Op(i) \in {"acc", "set"}
  <2>1. Contributions(i, g) = BlockBack(i, g)
    BY <1>4, <1>8
       DEF Contributions, LeafKinds, Elementwise, FunctionOps, UnaryOps, ReductionOps,
           LossOps, DiagMask, MovedOps
  <2>2. k \in {1, 2} /\ Handed(BlockBack(i, g)[k]) /\ (calm => Joins(s, BlockBack(i, g)[k]))
    BY <1>1, <1>2, <1>8, BlockServes
  <2>3. QED
    BY <2>1, <2>2 DEF Serves, g
<1>9. CASE Op(i) \in FunctionOps
  <2>1. DOMAIN tensors[i].src = {1} /\ Handed(FunctionBack(i, g))
        /\ (calm => Joins(Source(i, 1), FunctionBack(i, g)))
    BY <1>1, <1>2, <1>9, FunctionServes
  <2>2. Contributions(i, g) = <<FunctionBack(i, g), Nothing>>
    BY <1>4, <1>9
       DEF Contributions, LeafKinds, Elementwise, FunctionOps, UnaryOps, ReductionOps,
           LossOps, DiagMask, MovedOps
  <2>3. k = 1 /\ c = FunctionBack(i, g)
    BY <2>1, <2>2
  <2>4. QED
    BY <2>1, <2>3 DEF Serves, g
<1>10. CASE Op(i) \in UnaryOps
  <2>1. DOMAIN tensors[i].src = {1} /\ Handed(UnaryBack(i, g))
        /\ (calm => Joins(Source(i, 1), UnaryBack(i, g)))
    BY <1>1, <1>2, <1>10, UnaryServes DEF Refuses
  <2>2. Contributions(i, g) = <<UnaryBack(i, g), Nothing>>
    BY <1>4, <1>10
       DEF Contributions, LeafKinds, Elementwise, FunctionOps, UnaryOps, ReductionOps,
           LossOps, DiagMask, MovedOps
  <2>3. k = 1 /\ c = UnaryBack(i, g)
    BY <2>1, <2>2
  <2>4. QED
    BY <2>1, <2>3 DEF Serves, g
<1>11. CASE Op(i) \in ReductionOps
  <2>1. DOMAIN tensors[i].src = {1} /\ Handed(ReductionBack(i, g))
        /\ (calm => Fitting(grads, Source(i, 1), ReductionBack(i, g)))
    BY <1>1, <1>2, <1>11, ReductionServes DEF Refuses
  <2>2. Contributions(i, g) = <<ReductionBack(i, g), Nothing>>
    BY <1>4, <1>11
       DEF Contributions, LeafKinds, Elementwise, FunctionOps, UnaryOps, ReductionOps,
           LossOps, DiagMask, MovedOps
  <2>3. k = 1 /\ c = ReductionBack(i, g)
    BY <2>1, <2>2
  <2>4. QED
    BY <2>1, <2>3 DEF Serves, g
<1>12. CASE Op(i) \in LossOps
  <2>1. k \in {1, 2} /\ Handed(LossBack(i, g))
        /\ (calm => k = 1 /\ Joins(s, LossBack(i, g)))
    BY <1>1, <1>12, LossServes DEF Refuses
  <2>2. Contributions(i, g) = <<LossBack(i, g), Nothing>>
    BY <1>4, <1>12
       DEF Contributions, LeafKinds, Elementwise, FunctionOps, UnaryOps, ReductionOps,
           LossOps, DiagMask, MovedOps
  <2>3. c = IF k = 1 THEN LossBack(i, g) ELSE Nothing
    BY <2>1, <2>2
  <2>4. QED
    BY <2>1, <2>3, Hands DEF Serves, g
<1>13. CASE Op(i) \in MovedOps
  <2>1. k \in {1, 2} /\ Handed(MovedBack(i, g))
        /\ (calm => k = 1 /\ Fitting(grads, s, MovedBack(i, g)))
    BY <1>1, <1>2, <1>13, MovedServes DEF Refuses
  <2>2. Contributions(i, g) = <<MovedBack(i, g), Nothing>>
    BY <1>4, <1>13
       DEF Contributions, LeafKinds, Elementwise, FunctionOps, UnaryOps, ReductionOps,
           LossOps, DiagMask, MovedOps
  <2>3. c = IF k = 1 THEN MovedBack(i, g) ELSE Nothing
    BY <2>1, <2>2
  <2>4. QED
    BY <2>1, <2>3, Hands DEF Serves, g
<1>14. QED
  BY <1>5, <1>6, <1>7, <1>8, <1>9, <1>10, <1>11, <1>12, <1>13

(* What fits keeps the gradients of their shapes.                          *)
LEMMA ContributeKeeps ==
    ASSUME AcceptedInv, NEW gs, GoodGrads(gs), NEW s \in Tensors, NEW c, Fitting(gs, s, c)
    PROVE  /\ GoodGrads(Contribute(gs, s, c))
           /\ DOMAIN Contribute(gs, s, c) = DOMAIN gs \cup {s}
<1>1. s \in DOMAIN Contribute(gs, s, c) /\ Good(Contribute(gs, s, c)[s], tensors[s].ne)
  BY ContributeGood DEF GoodGrads
<1>2. /\ \A i \in DOMAIN gs \ {s} : Contribute(gs, s, c)[i] = gs[i]
      /\ DOMAIN gs \subseteq DOMAIN Contribute(gs, s, c)
      /\ DOMAIN Contribute(gs, s, c) \subseteq DOMAIN gs \cup {s}
  BY ContributeElsewhere
<1>3. QED
  BY <1>1, <1>2 DEF GoodGrads

(* A node that does not refuse gives its sources their gradients.          *)
LEMMA NodeSucceeds ==
    ASSUME Inv, AcceptedInv, NeededInv, GoodGrads(grads),
           NEW i \in Tensors, i \in DOMAIN grads, ~Refuses(i)
    PROVE  NodeAssertions(i) /\ SourcesHaveGradients(i, GradsAfter(i))
<1> DEFINE one == AfterSource(grads, i, 1)
           two == AfterSource(one, i, 2)
           Served(k) == k \in DOMAIN tensors[i].src /\ Source(i, k) \in needed
<1>1. Op(i) \notin Unsupported
  BY DEF Refuses, NoBackwardPass
<1>2. ASSUME NEW k \in DOMAIN tensors[i].src
      PROVE  Serves(i, k) /\ Source(i, k) \in Tensors
  BY <1>1, NodeServes, SourceFields
<1>3. /\ GoodGrads(one) /\ DOMAIN grads \subseteq DOMAIN one
      /\ Served(1) => Source(i, 1) \in DOMAIN one
  <2>1. CASE Served(1)
    <3>1. Fitting(grads, Source(i, 1), Contributions(i, grads[i])[1])
      BY <1>2, <2>1, JoinsFits DEF Serves
    <3>2. one = Contribute(grads, Source(i, 1), Contributions(i, grads[i])[1])
      BY <2>1 DEF AfterSource
    <3> HIDE DEF one
    <3>3. GoodGrads(one) /\ DOMAIN one = DOMAIN grads \cup {Source(i, 1)}
      BY <1>2, <2>1, <3>1, <3>2, ContributeKeeps
    <3>4. QED
      BY <3>3
  <2>2. CASE ~Served(1)
    BY <2>2 DEF AfterSource
  <2>3. QED
    BY <2>1, <2>2
<1> HIDE DEF one
<1>4. /\ GoodGrads(two) /\ DOMAIN one \subseteq DOMAIN two
      /\ Served(2) => Source(i, 2) \in DOMAIN two
  <2>1. CASE Served(2)
    <3>1. Fitting(one, Source(i, 2), Contributions(i, grads[i])[2])
      BY <1>2, <2>1, JoinsFits DEF Serves
    <3>2. two = Contribute(one, Source(i, 2), Contributions(i, grads[i])[2])
      BY <2>1 DEF AfterSource
    <3> HIDE DEF two
    <3>3. GoodGrads(two) /\ DOMAIN two = DOMAIN one \cup {Source(i, 2)}
      BY <1>2, <1>3, <2>1, <3>1, <3>2, ContributeKeeps
    <3>4. QED
      BY <3>3
  <2>2. CASE ~Served(2)
    BY <1>3, <2>2 DEF AfterSource
  <2>3. QED
    BY <2>1, <2>2
<1>5. GradsAfter(i) = two
  BY DEF GradsAfter, one
<1> HIDE DEF two
<1>6. ASSUME NEW s \in Sources(i) \cap needed
      PROVE  s \in DOMAIN two /\ two[s].ok /\ are_same_shape(tensors[s], two[s])
  <2>1. PICK k \in DOMAIN tensors[i].src : s = Source(i, k)
    BY <1>6 DEF Sources
  <2>2. k \in {1, 2} /\ Served(k)
    BY <1>2, <2>1 DEF Serves
  <2>3. s \in DOMAIN two
    BY <1>3, <1>4, <2>1, <2>2
  <2>4. QED
    BY <1>4, <2>3 DEF GoodGrads, Good, are_same_shape
<1>7. SourcesHaveGradients(i, GradsAfter(i))
  BY <1>5, <1>6 DEF SourcesHaveGradients
<1>8. ASSUME Op(i) \in {"soft_max", "cross_entropy_loss"},
             NEW k \in DOMAIN tensors[i].src, k = 2
      PROVE  Source(i, k) \notin needed
  BY <1>8 DEF Refuses, GradientForConstant, NeedsSource
<1>9. ASSUME Op(i) = "cont", Source(i, 1) \in needed, Source(i, 1) \in DOMAIN grads
      PROVE  is_contiguous(grads[Source(i, 1)])
  <2>1. 1 \in DOMAIN tensors[i].src
    BY <1>9, KeptSource DEF GoodGrads, ShapeKept
  <2>2. ~MovedGradient(i)
    BY DEF Refuses
  <2>3. QED
    BY <1>9, <2>1, <2>2, SourcePacked
<1>10. QED
  BY <1>1, <1>7, <1>8, <1>9 DEF NodeAssertions

(* What a node that is supported hands on leaves every gradient within its *)
(* memory.                                                                 *)
AllLie(gs) == \A t \in DOMAIN gs : Lies(gs[t])

(* A source it does not serve keeps the gradient it has.                   *)
LEMMA AfterSourceLies ==
    ASSUME Inv, AcceptedInv, NeededInv, GoodGrads(grads), NEW gs, AllLie(gs),
           NEW i \in Tensors, i \in DOMAIN grads, Op(i) \notin Unsupported, NEW k
    PROVE  /\ AllLie(AfterSource(gs, i, k))
           /\ \A t \in DOMAIN AfterSource(gs, i, k) :
                 \/ t \in Sources(i) \cap needed
                 \/ t \in DOMAIN gs /\ AfterSource(gs, i, k)[t] = gs[t]
<1> DEFINE s == Source(i, k)
           c == Contributions(i, grads[i])[k]
<1>1. CASE k \in DOMAIN tensors[i].src /\ s \in needed
  <2>1. AfterSource(gs, i, k) = Contribute(gs, s, c)
    BY <1>1 DEF AfterSource
  <2>2. Handed(c)
    BY <1>1, NodeServes DEF Serves
  <2>3. s \in Tensors /\ s \in Sources(i)
    BY <1>1, SourceFields DEF Sources
  <2> HIDE DEF s, c
  <2>4. s \in DOMAIN Contribute(gs, s, c) => Lies(Contribute(gs, s, c)[s])
    BY <2>2, <2>3, ContributeLies DEF AllLie
  <2>5. /\ \A t \in DOMAIN gs \ {s} : Contribute(gs, s, c)[t] = gs[t]
        /\ DOMAIN Contribute(gs, s, c) \subseteq DOMAIN gs \cup {s}
    BY ContributeElsewhere
  <2>6. QED
    BY <1>1, <2>1, <2>3, <2>4, <2>5 DEF AllLie
<1>2. CASE ~(k \in DOMAIN tensors[i].src /\ s \in needed)
  BY <1>2 DEF AfterSource
<1>3. QED
  BY <1>1, <1>2

(* A step of the walk keeps the gradients of their shapes.                 *)
LEMMA ComputeBackwardGood ==
    ASSUME Inv, AcceptedInv, NeededInv, GoodGrads(grads),
           NEW i \in Tensors, i \in DOMAIN grads,
           NodeAssertions(i), SourcesHaveGradients(i, GradsAfter(i))
    PROVE  GoodGrads(GradsAfter(i))
<1> DEFINE one == AfterSource(grads, i, 1)
           two == AfterSource(one, i, 2)
<1>1. Op(i) \notin Unsupported
  BY DEF NodeAssertions
<1>2. AllLie(grads)
  BY DEF GoodGrads, Good, AllLie
<1>3. /\ AllLie(one)
      /\ \A t \in DOMAIN one : \/ t \in Sources(i) \cap needed
                               \/ t \in DOMAIN grads /\ one[t] = grads[t]
  BY <1>1, <1>2, AfterSourceLies
<1> HIDE DEF one
<1>4. /\ AllLie(two)
      /\ \A t \in DOMAIN two : \/ t \in Sources(i) \cap needed
                               \/ t \in DOMAIN one /\ two[t] = one[t]
  BY <1>1, <1>3, AfterSourceLies
<1>5. GradsAfter(i) = two
  BY DEF GradsAfter, one
<1> HIDE DEF two
<1>6. ASSUME NEW t \in DOMAIN two
      PROVE  Good(two[t], tensors[t].ne)
  <2>1. CASE t \in Sources(i) \cap needed
    BY <1>4, <1>5, <2>1 DEF SourcesHaveGradients, are_same_shape, AllLie, Good
  <2>2. CASE t \in DOMAIN grads /\ two[t] = grads[t]
    BY <2>2 DEF GoodGrads
  <2>3. QED
    BY <1>3, <1>4, <2>1, <2>2
<1>7. QED
  BY <1>5, <1>6 DEF GoodGrads

(* No leaf but a parameter needs a gradient: what is marked is the least   *)
(* set, and without those leaves it would be marked as well.               *)
LEMMA NeededIsNotGiven ==
    ASSUME Inv, AcceptedInv, NeededInv
    PROVE  \A i \in NeedsGradient : ~Given(i)
<1> DEFINE S == {i \in Tensors : ~Given(i)}
<1>1. Params \cup losses \subseteq S
  BY DEF Params, Given, LeafKinds, NeededInv, Inv, TypeOK
<1>2. ASSUME NEW i \in Tensors, HandsOn(i, S)
      PROVE  i \in S
  <2>1. DOMAIN tensors[i].src # {}
    BY <1>2 DEF HandsOn
  <2>2. Accepted(tensors[i])
    BY DEF AcceptedInv
  <2>3. DOMAIN <<>> = {}
    OBVIOUS
  <2>4. tensors[i].op \notin LeafKinds
    BY <2>1, <2>2, <2>3, ByOperation
  <2>5. QED
    BY <2>4 DEF Given
<1>3. S \in SUBSET Tensors
  OBVIOUS
<1>4. QED
  BY <1>1, <1>2, <1>3 DEF NeedsGradient

(* The inductive invariant.                                                *)
AbortsInv ==
    Inv /\ AcceptedInv /\ NeededInv /\ GoodGrads(grads) /\ AbortsAreForeseen

(* Nothing is made yet.                                                    *)
LEMMA InitAborts == Init => AbortsInv
<1>1. SUFFICES ASSUME Init PROVE AbortsInv
  OBVIOUS
<1>2. Inv /\ AcceptedInv
  BY <1>1, InitInv, InitAccepted
<1>3. NeededInv
  BY <1>1 DEF Init, NeededInv
<1>4. GoodGrads(grads)
  <2>1. DOMAIN <<>> = {}
    OBVIOUS
  <2>2. QED
    BY <1>1, <2>1 DEF Init, GoodGrads
<1>5. AbortsAreForeseen
  BY <1>1 DEF Init, AbortsAreForeseen
<1>6. QED
  BY <1>2, <1>3, <1>4, <1>5 DEF AbortsInv

(* Before the walk there are no gradients.                                 *)
LEMMA ForwardGood ==
    ASSUME Inv, phase = "forward", UNCHANGED grads
    PROVE  GoodGrads(grads)'
<1>1. DOMAIN <<>> = {}
  OBVIOUS
<1>2. grads' = <<>>
  BY DEF Inv, BeforeBackward
<1>3. QED
  BY <1>1, <1>2 DEF GoodGrads

(* To make a tensor that the constructors accept keeps the invariant.      *)
LEMMA AppendsAborts == AbortsInv /\ AppendsAccepted => AbortsInv'
<1>1. SUFFICES ASSUME AbortsInv, AppendsAccepted PROVE AbortsInv'
  OBVIOUS
<1>2. Makes
  BY <1>1 DEF AppendsAccepted, Makes
<1>3. Inv' /\ AcceptedInv'
  BY <1>1, <1>2, MakesInv, AppendsInv DEF AbortsInv
<1>4. NeededInv'
  <2>1. PICK e : tensors' = Append(tensors, e)
    BY <1>2 DEF Makes
  <2>2. PICK S : tensors \in Seq(S)
    BY <1>1 DEF AbortsInv, Inv, IsSequence
  <2>3. \A i \in Tensors : tensors'[i] = tensors[i]
    BY <2>1, <2>2 DEF Tensors
  <2>4. losses' = losses /\ needed' = needed /\ losses \cup needed \subseteq Tensors
    BY <1>1, <1>2 DEF Makes, flags, AbortsInv, Inv, TypeOK
  <2>5. QED
    BY <1>1, <2>3, <2>4 DEF AbortsInv, NeededInv, Given
<1>5. GoodGrads(grads)'
  BY <1>1, ForwardGood DEF AbortsInv, AppendsAccepted
<1>6. AbortsAreForeseen'
  BY <1>1 DEF AppendsAccepted, AbortsAreForeseen
<1>7. QED
  BY <1>3, <1>4, <1>5, <1>6 DEF AbortsInv

(* To flag a loss does: an input is no loss.                               *)
LEMMA SetLossAborts == AbortsInv /\ SetLoss => AbortsInv'
<1>1. SUFFICES ASSUME AbortsInv, SetLoss PROVE AbortsInv'
  OBVIOUS
<1>2. Inv' /\ AcceptedInv'
  BY <1>1, SetLossInv, SameTensorsAccepted DEF AbortsInv, SetLoss
<1>3. NeededInv'
  BY <1>1 DEF AbortsInv, SetLoss, NeededInv, Given
<1>4. GoodGrads(grads)'
  BY <1>1, ForwardGood DEF AbortsInv, SetLoss
<1>5. AbortsAreForeseen'
  BY <1>1 DEF SetLoss, AbortsAreForeseen
<1>6. QED
  BY <1>2, <1>3, <1>4, <1>5 DEF AbortsInv

(* The walk begins with gradients of the right shapes: the accumulators.   *)
LEMMA BackwardExpandAborts == AbortsInv /\ BackwardExpand => AbortsInv'
<1>1. SUFFICES ASSUME AbortsInv, BackwardExpand PROVE AbortsInv'
  OBVIOUS
<1>2. Inv' /\ AcceptedInv'
  BY <1>1, BackwardExpandInv, SameTensorsAccepted DEF AbortsInv, BackwardExpand
<1>3. NeededInv'
  <2>1. \A i \in NeedsGradient : ~Given(i)
    BY <1>1, NeededIsNotGiven DEF AbortsInv
  <2>2. needed' = NeedsGradient /\ losses' = losses /\ tensors' = tensors
    BY <1>1 DEF BackwardExpand
  <2>3. QED
    BY <1>1, <2>1, <2>2 DEF AbortsInv, NeededInv, Given
<1>4. GoodGrads(grads)'
  <2>1. PICK given \in SUBSET (Params \cap InGraph) :
            grads' = [i \in given \cup losses |-> Accumulator(i)]
    BY <1>1 DEF BackwardExpand
  <2>2. given \cup losses \subseteq Tensors
    BY <1>1 DEF AbortsInv, Inv, TypeOK, Params
  <2>3. ASSUME NEW i \in Tensors PROVE Good(Accumulator(i), tensors[i].ne)
    <3>1. tensors[i].ne \in Shape
      BY <1>1 DEF AbortsInv, AcceptedInv, Accepted
    <3>2. AllOk(<<>>) /\ TRUE \in BOOLEAN
      BY DEF AllOk
    <3>3. Fresh(NewTensor("accumulator", <<>>, <<i>>, tensors[i].ne, TRUE), tensors[i].ne)
      BY <3>1, <3>2, NewTensorLies
    <3>4. QED
      BY <3>3 DEF Accumulator, Fresh
  <2>4. tensors' = tensors
    BY <1>1 DEF BackwardExpand
  <2>5. QED
    BY <2>1, <2>2, <2>3, <2>4 DEF GoodGrads
<1>5. AbortsAreForeseen'
  BY <1>1 DEF BackwardExpand, AbortsAreForeseen
<1>6. QED
  BY <1>2, <1>3, <1>4, <1>5 DEF AbortsInv

(* A step of the walk keeps the gradients of their shapes, so the next     *)
(* node finds them so.                                                     *)
LEMMA ComputeBackwardAborts == AbortsInv /\ ComputeBackward => AbortsInv'
<1>1. SUFFICES ASSUME AbortsInv, ComputeBackward PROVE AbortsInv'
  OBVIOUS
<1>2. /\ Inv' /\ AcceptedInv' /\ Inv /\ AcceptedInv /\ NeededInv /\ GoodGrads(grads)
  BY <1>1, ComputeBackwardInv, SameTensorsAccepted DEF AbortsInv, ComputeBackward
<1>3. UNCHANGED <<tensors, losses, needed, phase>> /\ phase = "backward"
  BY <1>1 DEF ComputeBackward, flags
<1>4. NeededInv'
  BY <1>2, <1>3 DEF NeededInv, Given
<1>5. GoodGrads(grads)'
  <2>1. cursor \in Tensors /\ cursor \in DOMAIN grads
    BY <1>1, <1>2, SameTensors DEF Inv, IsSequence, TypeOK, ComputeBackward, Tensors
  <2>2. GoodGrads(GradsAfter(cursor))
    BY <1>1, <1>2, <2>1, ComputeBackwardGood DEF ComputeBackward, Succeeds
  <2>3. grads' = GradsAfter(cursor)
    BY <1>1 DEF ComputeBackward
  <2>4. QED
    BY <1>3, <2>2, <2>3 DEF GoodGrads
<1>6. AbortsAreForeseen'
  BY <1>3 DEF AbortsAreForeseen
<1>7. QED
  BY <1>2, <1>4, <1>5, <1>6 DEF AbortsInv

(* What a node refuses by depends on the graph and the gradients alone.    *)
LEMMA SameRefusal ==
    ASSUME UNCHANGED <<tensors, needed, grads, cursor>>, Refuses(cursor)
    PROVE  Refuses(cursor)'
<1> USE DEF Op, X, Y, Ref, Source, Sources, NeedsSource
<1>1. NoBackwardPass(cursor) => NoBackwardPass(cursor)'
  BY DEF NoBackwardPass
<1>2. GradientForConstant(cursor) => GradientForConstant(cursor)'
  BY DEF GradientForConstant
<1>3. RepeatedOperand(cursor) => RepeatedOperand(cursor)'
  BY DEF RepeatedOperand, are_same_shape, is_vector
<1>4. RowsIntoGradient(cursor) => RowsIntoGradient(cursor)'
  BY DEF RowsIntoGradient, is_vector
<1>5. RowsOfSeveralMatrices(cursor) => RowsOfSeveralMatrices(cursor)'
  BY DEF RowsOfSeveralMatrices, is_matrix
<1>6. BroadcastOverTwo(cursor) => BroadcastOverTwo(cursor)'
  BY DEF BroadcastOverTwo
<1>7. MovedGradient(cursor) => MovedGradient(cursor)'
  BY DEF MovedGradient
<1>8. MovedSource(cursor) => MovedSource(cursor)'
  BY DEF MovedSource, is_transposed, is_padded_1d
<1>9. QED
  BY <1>1, <1>2, <1>3, <1>4, <1>5, <1>6, <1>7, <1>8 DEF Refuses

(* The process ends in the walk only at a node that refuses.               *)
LEMMA AbortAborts == AbortsInv /\ Abort => AbortsInv'
<1>1. SUFFICES ASSUME AbortsInv, Abort PROVE AbortsInv'
  OBVIOUS
<1>2. Inv /\ AcceptedInv /\ NeededInv /\ GoodGrads(grads)
  BY <1>1 DEF AbortsInv
<1>3. UNCHANGED <<tensors, losses, needed, grads, cursor>>
  BY <1>1 DEF Abort, flags
<1>4. Inv' /\ AcceptedInv'
  BY <1>1, <1>2, <1>3, OtherInv, SameTensorsAccepted
<1>5. NeededInv' /\ GoodGrads(grads)'
  BY <1>2, <1>3 DEF NeededInv, Given, GoodGrads
<1>6. cursor \in Tensors /\ cursor \in DOMAIN grads
  BY <1>1, <1>2, SameTensors DEF Inv, IsSequence, TypeOK, Abort, Tensors
<1>7. Refuses(cursor)
  BY <1>1, <1>2, <1>6, NodeSucceeds DEF Abort, Succeeds
<1>8. AbortsAreForeseen'
  BY <1>3, <1>7, SameRefusal DEF AbortsAreForeseen
<1>9. QED
  BY <1>4, <1>5, <1>8 DEF AbortsInv

(* The other steps.                                                        *)
LEMMA OtherAborts ==
    AbortsInv /\ (NothingToTrain \/ PassBy \/ UNCHANGED vars) => AbortsInv'
<1>1. SUFFICES ASSUME AbortsInv, NothingToTrain \/ PassBy \/ UNCHANGED vars
               PROVE  AbortsInv'
  OBVIOUS
<1>2. UNCHANGED <<tensors, losses, needed, grads>>
  BY <1>1 DEF NothingToTrain, PassBy, vars, flags
<1>3. Inv' /\ AcceptedInv'
  BY <1>1, <1>2, OtherInv, SameTensorsAccepted DEF AbortsInv
<1>4. NeededInv' /\ GoodGrads(grads)'
  BY <1>1, <1>2 DEF AbortsInv, NeededInv, Given, GoodGrads
<1>5. AbortsAreForeseen'
  <2>1. CASE NothingToTrain
    BY <1>1, <2>1 DEF NothingToTrain, AbortsInv, Inv, TypeOK, BeforeBackward, AbortsAreForeseen
  <2>2. CASE PassBy
    BY <2>2 DEF PassBy, AbortsAreForeseen
  <2>3. CASE UNCHANGED vars
    BY <1>1, <1>2, <2>3, SameRefusal DEF vars, AbortsInv, AbortsAreForeseen
  <2>4. QED
    BY <1>1, <2>1, <2>2, <2>3
<1>6. QED
  BY <1>3, <1>4, <1>5 DEF AbortsInv

(* The invariant is inductive.                                             *)
LEMMA NextAborts == AbortsInv /\ [Next]_vars => AbortsInv'
<1>1. AbortsInv /\ Next =>
        \/ AppendsAccepted \/ SetLoss \/ BackwardExpand \/ NothingToTrain
        \/ PassBy \/ ComputeBackward \/ Abort
  BY PointwiseAppends, ElementwiseAppends, ReductionAppends, ProductAppends,
     WithBlockAppends, MovedAppends DEF AbortsInv, Next
<1>2. QED
  BY <1>1, AppendsAborts, SetLossAborts, BackwardExpandAborts, ComputeBackwardAborts,
     AbortAborts, OtherAborts

(* The backward pass ends the process only at a node for which the reason  *)
(* can be told from the graph and the gradients so far: every other node   *)
(* of a graph that the constructors accepted gives its sources gradients   *)
(* of their shapes.                                                        *)
THEOREM AbortsForeseen == Spec => []AbortsAreForeseen
<1>1. AbortsInv => AbortsAreForeseen
  BY DEF AbortsInv
<1>2. QED
  BY InitAborts, NextAborts, <1>1, PTL DEF Spec

(* The gradients so far.                                                   *)
GradientsFit == GoodGrads(grads)

(* A gradient has the shape of its tensor, and its offset and number of    *)
(* elements stay within the memory it lies in (what ggml_new_tensor_impl() *)
(* asserts), although it may be a view of another or be added to in place. *)
THEOREM GradientsAreOfShape == Spec => []GradientsFit
<1>1. AbortsInv => GradientsFit
  BY DEF AbortsInv, GradientsFit
<1>2. QED
  BY InitAborts, NextAborts, <1>1, PTL DEF Spec
-----------------------------------------------------------------------------
(* How far the last element of a tensor lies behind its first.             *)
Reach(ne, nb) ==
    (ne[1] - 1) * nb[1] + (ne[2] - 1) * nb[2] + (ne[3] - 1) * nb[3] + (ne[4] - 1) * nb[4]
Strides(nb) == nb[1] \in Nat /\ nb[2] \in Nat /\ nb[3] \in Nat /\ nb[4] \in Nat

(* A tensor whose last element lies in its memory.                         *)
Fits(e) ==
    /\ e.ne \in Shape /\ Strides(e.nb) /\ e.offs \in Nat /\ e.room \in Nat
    /\ e.offs + Reach(e.ne, e.nb) < e.room

(* Products of natural numbers are natural numbers.                        *)
LEMMA ProductsAreNatural ==
    ASSUME NEW a \in Nat, NEW b \in Nat
    PROVE  a * b \in Nat
OBVIOUS

(* A reach is a sum of natural numbers.                                    *)
LEMMA ReachIsNatural ==
    ASSUME NEW ne \in Shape, NEW nb, Strides(nb)
    PROVE  /\ (ne[1] - 1) * nb[1] \in Nat /\ (ne[2] - 1) * nb[2] \in Nat
           /\ (ne[3] - 1) * nb[3] \in Nat /\ (ne[4] - 1) * nb[4] \in Nat
           /\ Reach(ne, nb) \in Nat
<1>1. /\ ne[1] - 1 \in Nat /\ ne[2] - 1 \in Nat /\ ne[3] - 1 \in Nat /\ ne[4] - 1 \in Nat
  BY SizesOf
<1>2. /\ (ne[1] - 1) * nb[1] \in Nat /\ (ne[2] - 1) * nb[2] \in Nat
      /\ (ne[3] - 1) * nb[3] \in Nat /\ (ne[4] - 1) * nb[4] \in Nat
  BY <1>1, ProductsAreNatural DEF Strides
<1>3. QED
  BY <1>2 DEF Reach

(* If its last element does, all of a tensor lies in its memory.           *)
LEMMA FitsWithin ==
    ASSUME NEW e, Fits(e)
    PROVE  Within(e)
<1> SUFFICES ASSUME NEW c \in Indices(e.ne)
             PROVE  e.offs + Address(e.nb, c) \in 0 .. e.room - 1
  BY DEF Within
<1>1. /\ c[1] \in 0 .. e.ne[1] - 1 /\ c[2] \in 0 .. e.ne[2] - 1
      /\ c[3] \in 0 .. e.ne[3] - 1 /\ c[4] \in 0 .. e.ne[4] - 1
  BY DEF Indices
<1>2. /\ e.ne[1] - 1 \in Nat /\ e.ne[2] - 1 \in Nat
      /\ e.ne[3] - 1 \in Nat /\ e.ne[4] - 1 \in Nat
  BY SizesOf DEF Fits
<1>3. /\ e.nb[1] \in Nat /\ e.nb[2] \in Nat /\ e.nb[3] \in Nat /\ e.nb[4] \in Nat
  BY DEF Fits, Strides
<1>4. ASSUME NEW n \in Nat, NEW x \in 0 .. n, NEW s \in Nat
      PROVE  x * s \in Nat /\ n * s \in Nat /\ x * s <= n * s
  BY <1>4, ProductsGrow, ProductsAreNatural
<1>5. /\ c[1] * e.nb[1] \in Nat /\ (e.ne[1] - 1) * e.nb[1] \in Nat
      /\ c[1] * e.nb[1] <= (e.ne[1] - 1) * e.nb[1]
  BY <1>1, <1>2, <1>3, <1>4
<1>6. /\ c[2] * e.nb[2] \in Nat /\ (e.ne[2] - 1) * e.nb[2] \in Nat
      /\ c[2] * e.nb[2] <= (e.ne[2] - 1) * e.nb[2]
  BY <1>1, <1>2, <1>3, <1>4
<1>7. /\ c[3] * e.nb[3] \in Nat /\ (e.ne[3] - 1) * e.nb[3] \in Nat
      /\ c[3] * e.nb[3] <= (e.ne[3] - 1) * e.nb[3]
  BY <1>1, <1>2, <1>3, <1>4
<1>8. /\ c[4] * e.nb[4] \in Nat /\ (e.ne[4] - 1) * e.nb[4] \in Nat
      /\ c[4] * e.nb[4] <= (e.ne[4] - 1) * e.nb[4]
  BY <1>1, <1>2, <1>3, <1>4
<1>9. e.offs \in Nat /\ e.room \in Nat /\ e.offs + Reach(e.ne, e.nb) < e.room
  BY DEF Fits
<1>10. /\ Address(e.nb, c) \in Nat /\ Reach(e.ne, e.nb) \in Nat
       /\ Address(e.nb, c) <= Reach(e.ne, e.nb)
  BY <1>5, <1>6, <1>7, <1>8 DEF Address, Reach
<1>11. QED
  BY <1>9, <1>10

(* Elements without gaps reach as far as there are elements.               *)
LEMMA PackedReach ==
    ASSUME NEW ne \in Shape
    PROVE  Strides(Packed(ne)) /\ Reach(ne, Packed(ne)) = Product(ne) - 1
<1>1. /\ ne[1] \in Nat /\ ne[2] \in Nat /\ ne[3] \in Nat /\ ne[4] \in Nat
  BY SizesOf
<1>2. /\ Packed(ne)[1] = 1 /\ Packed(ne)[2] = ne[1] /\ Packed(ne)[3] = ne[1] * ne[2]
      /\ Packed(ne)[4] = ne[1] * ne[2] * ne[3]
  BY DEF Packed
<1>3. ASSUME NEW a \in Nat, NEW b \in Nat, NEW c \in Nat, NEW d \in Nat
      PROVE  /\ a * b \in Nat /\ a * b * c \in Nat
             /\ (a - 1) * 1 + (b - 1) * a + (c - 1) * (a * b) + (d - 1) * (a * b * c)
                  = a * b * c * d - 1
  <2> DEFINE p == a * b
             q == p * c
             r == q * d
  <2>1. p \in Nat /\ q \in Nat /\ r \in Nat
    BY <1>3, ProductsAreNatural
  <2>2. /\ (a - 1) * 1 = a - 1 /\ (b - 1) * a = p - a
        /\ (c - 1) * p = q - p /\ (d - 1) * q = r - q
    BY <1>3
  <2>3. QED
    BY <1>3, <2>1, <2>2
<1>4. QED
  BY <1>1, <1>2, <1>3 DEF Strides, Reach, Product
-----------------------------------------------------------------------------
(* A set of tensors that has with each also its sources, all of which lie  *)
(* in their memory.                                                        *)
Closed(T) == \A x \in T : Fits(x) /\ \A k \in DOMAIN x.src : x.src[k] \in T
Safe(e) == \E T : e \in T /\ Closed(T)

(* A set that has 0, and with a number the next one, has all up to n: the  *)
(* numbers it has not have no least one.                                   *)
LEMMA Upwards ==
    ASSUME NEW n \in Nat, NEW S, 0 \in S,
           \A k \in 1 .. n : k - 1 \in S => k \in S
    PROVE  \A k \in 0 .. n : k \in S
<1> DEFINE Bad == {k \in 0 .. n : k \notin S}
<1> SUFFICES ASSUME Bad # {} PROVE FALSE
  OBVIOUS
<1>1. Bad \subseteq Nat
  OBVIOUS
<1>2. PICK m \in Bad : \A k \in Bad : <<k, m>> \notin OpToRel(<, Nat)
  BY <1>1, NatLessThanWellFounded, WFMin
<1>3. m \in 1 .. n /\ m - 1 \in 0 .. n /\ m - 1 < m
  OBVIOUS
<1>4. m - 1 \in S
  <2>1. <<m - 1, m>> \in OpToRel(<, Nat)
    BY <1>3 DEF OpToRel
  <2>2. QED
    BY <1>2, <1>3, <2>1
<1>5. QED
  BY <1>3, <1>4

(* Taking a step n times from a set is a function of n.                    *)
TakesSteps(g, n, T, first, step) ==
    /\ g \in [0 .. n -> SUBSET T] /\ g[0] = first
    /\ \A k \in 1 .. n : g[k] = step[g[k - 1]]
(* There is such a function for every number of steps.                     *)
LEMMA StepsExist ==
    ASSUME NEW T, NEW first \in SUBSET T, NEW step \in [SUBSET T -> SUBSET T], NEW n \in Nat
    PROVE  \E g : TakesSteps(g, n, T, first, step)
<1> DEFINE Runs(m, g) == /\ g \in [0 .. m -> SUBSET T] /\ g[0] = first
                         /\ \A k \in 1 .. m : g[k] = step[g[k - 1]]
           S == {m \in 0 .. n : \E g : Runs(m, g)}
<1>1. 0 \in S
  <2>1. Runs(0, [k \in 0 .. 0 |-> first])
    OBVIOUS
  <2> HIDE DEF Runs
  <2>2. QED
    BY <2>1
<1>2. ASSUME NEW m \in 1 .. n, m - 1 \in S PROVE m \in S
  <2>1. PICK g : Runs(m - 1, g)
    <3> HIDE DEF Runs
    <3>1. QED
      BY <1>2
  <2> DEFINE f == [k \in 0 .. m |-> IF k = m THEN step[g[m - 1]] ELSE g[k]]
  <2>2. f \in [0 .. m -> SUBSET T]
    BY <2>1
  <2>3. f[0] = first
    BY <2>1
  <2>4. ASSUME NEW k \in 1 .. m PROVE f[k] = step[f[k - 1]]
    <3>1. CASE k = m
      <4>1. m - 1 # m /\ m - 1 \in 0 .. m /\ m \in 0 .. m
        OBVIOUS
      <4>2. f[m] = step[g[m - 1]] /\ f[m - 1] = g[m - 1]
        BY <4>1
      <4>3. QED
        BY <3>1, <4>2
    <3>2. CASE k # m
      <4>1. k \in 1 .. m - 1 /\ k - 1 # m /\ k - 1 \in 0 .. m /\ k \in 0 .. m
        BY <3>2
      <4>2. f[k] = g[k] /\ f[k - 1] = g[k - 1]
        BY <3>2, <4>1
      <4>3. QED
        BY <2>1, <4>1, <4>2
    <3>3. QED
      BY <3>1, <3>2
  <2>5. Runs(m, f)
    BY <2>2, <2>3, <2>4
  <2> HIDE DEF Runs, f
  <2>6. QED
    BY <2>5
<1> HIDE DEF S
<1>3. n \in S
  BY <1>1, <1>2, Upwards
<1>4. PICK g : Runs(n, g)
  <2> HIDE DEF Runs
  <2>1. QED
    BY <1>3 DEF S
<1>5. TakesSteps(g, n, T, first, step)
  BY <1>4 DEF TakesSteps
<1>6. QED
  BY <1>5

(* A closed set has with a tensor all that this is made from.              *)
LEMMA PartsOfSafe ==
    ASSUME NEW e, Safe(e), NEW h \in Nat
    PROVE  \A x \in Parts(e, h) : Within(x)
<1>1. PICK T : e \in T /\ Closed(T)
  BY DEF Safe
<1> DEFINE Turns(u) == [k \in 0 .. h |->
                          IF k = 0 THEN {e} ELSE UNION {WithSources(x) : x \in u[k - 1]}]
           upto == CHOOSE u : u = Turns(u)
           step == [S \in SUBSET T |-> UNION {WithSources(x) : x \in S}]
<1>2. ASSUME NEW S \in SUBSET T
      PROVE  UNION {WithSources(x) : x \in S} \in SUBSET T
  BY <1>1, <1>2 DEF Closed, WithSources
<1>3. \E u : u = Turns(u)
  <2>1. step \in [SUBSET T -> SUBSET T] /\ {e} \in SUBSET T
    BY <1>1, <1>2
  <2> HIDE DEF step
  <2>2. PICK g : TakesSteps(g, h, T, {e}, step)
    BY <2>1, StepsExist
  <2> USE DEF TakesSteps
  <2>3. ASSUME NEW k \in 0 .. h PROVE g[k] = Turns(g)[k]
    <3>1. CASE k = 0
      BY <2>2, <3>1
    <3>2. CASE k # 0
      <4>1. k \in 1 .. h /\ k - 1 \in 0 .. h
        BY <3>2
      <4>2. g[k - 1] \in SUBSET T
        BY <2>2, <4>1
      <4>3. step[g[k - 1]] = UNION {WithSources(x) : x \in g[k - 1]}
        BY <4>2 DEF step
      <4>4. QED
        BY <2>2, <3>2, <4>1, <4>3
    <3>3. QED
      BY <3>1, <3>2
  <2>4. g = Turns(g)
    BY <2>2, <2>3
  <2> HIDE DEF Turns
  <2>5. QED
    BY <2>4
<1>4. upto = Turns(upto)
  <2> HIDE DEF Turns
  <2>1. QED
    BY <1>3
<1> HIDE DEF upto
<1>5. upto[0] = {e} /\ \A k \in 1 .. h : upto[k] = UNION {WithSources(x) : x \in upto[k - 1]}
  BY <1>4
<1>6. \A k \in 0 .. h : k \in {n \in Nat : upto[n] \in SUBSET T}
  <2> DEFINE S == {n \in Nat : upto[n] \in SUBSET T}
  <2>1. 0 \in S
    BY <1>1, <1>5
  <2>2. \A k \in 1 .. h : k - 1 \in S => k \in S
    BY <1>2, <1>5
  <2> HIDE DEF S
  <2>3. \A k \in 0 .. h : k \in S
    BY <2>1, <2>2, Upwards
  <2>4. QED
    BY <2>3 DEF S
<1>7. Parts(e, h) = upto[h]
  BY DEF Parts, upto
<1>8. QED
  BY <1>1, <1>6, <1>7, FitsWithin DEF Closed
-----------------------------------------------------------------------------
(* A tensor that is safe if none of the assertions failed that it and its  *)
(* sources were made with.                                                 *)
Fields == {"src", "ok", "ne", "nb", "offs", "room"}
Sane(e) == Fields \subseteq DOMAIN e /\ e.ne \in Shape /\ (e.ok => Safe(e))

(* A tensor that lies in its memory and is made of safe ones is safe.      *)
LEMMA MadeOfSafe ==
    ASSUME NEW e, Fits(e), \A k \in DOMAIN e.src : Safe(e.src[k])
    PROVE  Safe(e)
<1> DEFINE Of(k) == CHOOSE T : e.src[k] \in T /\ Closed(T)
           All == {e} \cup UNION {Of(k) : k \in DOMAIN e.src}
<1>1. ASSUME NEW k \in DOMAIN e.src PROVE e.src[k] \in Of(k) /\ Closed(Of(k))
  <2>1. \E T : e.src[k] \in T /\ Closed(T)
    BY DEF Safe
  <2>2. QED
    BY <2>1
<1> HIDE DEF Of
<1>2. ASSUME NEW x \in All
      PROVE  Fits(x) /\ \A k \in DOMAIN x.src : x.src[k] \in All
  <2>1. CASE x = e
    BY <1>1, <2>1
  <2>2. CASE x # e
    <3>1. PICK k \in DOMAIN e.src : x \in Of(k)
      BY <2>2
    <3>2. QED
      BY <1>1, <3>1 DEF Closed
  <2>3. QED
    BY <2>1, <2>2
<1>3. e \in All /\ Closed(All)
  BY <1>2 DEF Closed
<1> HIDE DEF All
<1>4. QED
  BY <1>3 DEF Safe

(* What is made of two sane tensors, or of one, is made of sane ones.      *)
LEMMA AreSane ==
    ASSUME NEW a, NEW b, Sane(a), Sane(b)
    PROVE  /\ \A k \in DOMAIN <<a>> : Sane(<<a>>[k])
           /\ \A k \in DOMAIN <<a, b>> : Sane(<<a, b>>[k])
<1>1. DOMAIN <<a>> = {1} /\ DOMAIN <<a, b>> = {1, 2}
  OBVIOUS
<1>2. <<a>>[1] = a /\ <<a, b>>[1] = a /\ <<a, b>>[2] = b
  OBVIOUS
<1>3. QED
  BY <1>1, <1>2

(* A tensor with memory of its own is sane.                                *)
LEMMA NewTensorSane ==
    ASSUME NEW op, NEW src, NEW arg, NEW ne \in Shape, NEW guard,
           \A k \in DOMAIN src : Sane(src[k])
    PROVE  Sane(NewTensor(op, src, arg, ne, guard))
<1> DEFINE e == NewTensor(op, src, arg, ne, guard)
<1>1. /\ Fields \subseteq DOMAIN e /\ e.src = src /\ e.ne = ne /\ e.nb = Packed(ne)
      /\ e.offs = 0 /\ e.room = Product(ne) /\ (e.ok => AllOk(src))
  BY DEF NewTensor, Fields
<1> HIDE DEF e
<1>2. Fits(e)
  BY <1>1, PackedReach, ProductIsPositive DEF Fits
<1>3. e.ok => \A k \in DOMAIN e.src : Safe(e.src[k])
  BY <1>1 DEF AllOk, Sane
<1>4. Sane(e)
  BY <1>1, <1>2, <1>3, MadeOfSafe DEF Sane
<1>5. QED
  BY <1>4 DEF e

(* What the assertions say of the view they let pass.                      *)
Passed(src, of, ne, offset) ==
    AllOk(src) /\ Product(ne) + of.offs + offset <= of.room

(* A view is sane if it lies in its memory whenever the assertions hold.   *)
LEMMA NewViewSane ==
    ASSUME NEW op, NEW src, NEW arg, NEW of, NEW ne \in Shape, NEW nb, NEW offset, NEW guard,
           \A k \in DOMAIN src : Sane(src[k]),
           guard /\ Passed(src, of, ne, offset) =>
               /\ Strides(nb) /\ of.offs + offset \in Nat /\ of.room \in Nat
               /\ of.offs + offset + Reach(ne, nb) < of.room
    PROVE  Sane(NewView(op, src, arg, of, ne, nb, offset, guard))
<1> DEFINE e == NewView(op, src, arg, of, ne, nb, offset, guard)
<1>1. /\ Fields \subseteq DOMAIN e /\ e.src = src /\ e.ne = ne /\ e.nb = nb
      /\ e.offs = of.offs + offset /\ e.room = of.room
      /\ e.ok => guard /\ Passed(src, of, ne, offset) /\ AllOk(src)
  BY DEF NewView, Fields, Passed
<1> HIDE DEF e
<1>2. e.ok => Fits(e)
  BY <1>1 DEF Fits
<1>3. e.ok => \A k \in DOMAIN e.src : Safe(e.src[k])
  BY <1>1 DEF AllOk, Sane
<1>4. Sane(e)
  BY <1>1, <1>2, <1>3, MadeOfSafe DEF Sane
<1>5. QED
  BY <1>4 DEF e

(* A sane tensor that passed the assertions lies in its memory.            *)
LEMMA SaneFits ==
    ASSUME NEW a, Sane(a), a.ok
    PROVE  Fits(a)
BY DEF Sane, Safe, Closed

(* A test that is added to the assertions does not matter.                 *)
LEMMA AssertingSane ==
    ASSUME NEW a, Sane(a), NEW condition
    PROVE  Sane(Asserting(a, condition))
<1> DEFINE e == Asserting(a, condition)
<1>1. /\ DOMAIN e = DOMAIN a /\ e.src = a.src /\ e.ne = a.ne /\ e.nb = a.nb
      /\ e.offs = a.offs /\ e.room = a.room /\ (e.ok => a.ok)
  BY DEF Asserting, Sane, Fields
<1> HIDE DEF e
<1>2. ASSUME e.ok PROVE Safe(e)
  <2>1. PICK T : a \in T /\ Closed(T)
    BY <1>1, <1>2 DEF Sane, Safe
  <2>2. Fits(e)
    BY <1>1, <2>1 DEF Closed, Fits
  <2>3. \A k \in DOMAIN e.src : Safe(e.src[k])
    BY <1>1, <2>1 DEF Closed, Safe
  <2>4. QED
    BY <2>2, <2>3, MadeOfSafe
<1>3. Sane(e)
  BY <1>1, <1>2 DEF Sane
<1>4. QED
  BY <1>3 DEF e

(* What is made like a sane tensor is sane, in its memory or apart.        *)
LEMMA LikeSane ==
    ASSUME NEW op, NEW a, NEW b, NEW arg, NEW guard, NEW inplace \in BOOLEAN,
           Sane(a), Sane(b)
    PROVE  /\ Sane(Like(op, <<a>>, arg, FALSE, guard))
           /\ Sane(Like(op, <<a, b>>, arg, inplace, guard))
<1>1. a.ne \in Shape
  BY DEF Sane
<1>2. Sane(Like(op, <<a>>, arg, FALSE, guard))
  <2>1. Like(op, <<a>>, arg, FALSE, guard) = NewTensor(op, <<a>>, arg, a.ne, guard)
    BY DEF Like
  <2>2. QED
    BY <1>1, <2>1, AreSane, NewTensorSane
<1>3. CASE inplace = FALSE
  <2>1. Like(op, <<a, b>>, arg, inplace, guard) = NewTensor(op, <<a, b>>, arg, a.ne, guard)
    BY <1>3 DEF Like
  <2>2. QED
    BY <1>1, <1>2, <2>1, AreSane, NewTensorSane
<1>4. CASE inplace = TRUE
  <2>1. Like(op, <<a, b>>, arg, inplace, guard)
          = NewView(op, <<a, b>>, arg, a, a.ne, a.nb, 0, guard)
    BY <1>4 DEF Like
  <2>2. ASSUME Passed(<<a, b>>, a, a.ne, 0)
        PROVE  /\ Strides(a.nb) /\ a.offs + 0 \in Nat /\ a.room \in Nat
               /\ a.offs + 0 + Reach(a.ne, a.nb) < a.room
    <3>1. a.ok
      BY <2>2, SourcesOk DEF Passed
    <3>2. Fits(a)
      BY <3>1, SaneFits
    <3>3. QED
      BY <3>2 DEF Fits
  <2>3. Sane(NewView(op, <<a, b>>, arg, a, a.ne, a.nb, 0, guard))
    BY <1>1, <2>2, AreSane, NewViewSane
  <2>4. QED
    BY <1>2, <2>1, <2>3
<1>5. QED
  BY <1>3, <1>4
-----------------------------------------------------------------------------
(* The constructors make sane tensors of sane ones: element by element, of *)
(* one tensor,                                                             *)
LEMMA OneSourceSane ==
    ASSUME NEW a, Sane(a), NEW op, NEW s, NEW b, NEW n
    PROVE  /\ Sane(plain(op, a)) /\ Sane(unary(op, a)) /\ Sane(diag_mask(op, a, n))
           /\ Sane(scale_impl(a, s, b)) /\ Sane(scale(a, s))
           /\ Sane(soft_max(a)) /\ Sane(cont(a))
<1>1. ASSUME NEW o, NEW arg, NEW guard PROVE Sane(Like(o, <<a>>, arg, FALSE, guard))
  <2>1. FALSE \in BOOLEAN
    OBVIOUS
  <2>2. QED
    BY <2>1, LikeSane
<1>2. Sane(plain(op, a)) /\ Sane(unary(op, a)) /\ Sane(diag_mask(op, a, n))
  BY <1>1 DEF plain, unary, diag_mask
<1>3. Sane(scale_impl(a, s, b)) /\ Sane(scale(a, s))
  BY <1>1 DEF scale_impl, scale
<1>4. Sane(soft_max(a)) /\ Sane(cont(a))
  BY <1>1 DEF soft_max, cont
<1>5. QED
  BY <1>2, <1>3, <1>4

(* of two, in the memory of the first or apart,                            *)
LEMMA TwoSourcesSane ==
    ASSUME NEW a, NEW b, Sane(a), Sane(b), NEW op, NEW at, NEW inplace \in BOOLEAN
    PROVE  /\ Sane(elementwise(op, a, b, inplace))
           /\ Sane(add_impl(a, b, inplace)) /\ Sane(sub_impl(a, b, inplace))
           /\ Sane(add1_impl(a, b, inplace)) /\ Sane(acc_impl(a, b, at, inplace))
<1>1. ASSUME NEW o, NEW arg, NEW guard PROVE Sane(Like(o, <<a, b>>, arg, inplace, guard))
  BY LikeSane
<1>2. \A o : Sane(elementwise(o, a, b, inplace))
  BY <1>1 DEF elementwise
<1>3. Sane(add_impl(a, b, inplace)) /\ Sane(sub_impl(a, b, inplace))
  BY <1>2 DEF add_impl, sub_impl
<1>4. Sane(add1_impl(a, b, inplace)) /\ Sane(acc_impl(a, b, at, inplace))
  BY <1>1 DEF add1_impl, acc_impl
<1>5. QED
  BY <1>2, <1>3, <1>4

(* of two, apart,                                                          *)
LEMMA ApartSane ==
    ASSUME NEW a, NEW b, Sane(a), Sane(b), NEW op, NEW at
    PROVE  /\ Sane(mul(a, b)) /\ Sane(div(a, b)) /\ Sane(set(a, b, at)) /\ Sane(glu(op, a, b))
           /\ Sane(soft_max_ext(a, b, at)) /\ Sane(soft_max_ext_back(a, b, at))
           /\ Sane(silu_back(a, b)) /\ Sane(rms_norm_back(a, b))
<1>1. ASSUME NEW o, NEW arg, NEW guard PROVE Sane(Like(o, <<a, b>>, arg, FALSE, guard))
  <2>1. FALSE \in BOOLEAN
    OBVIOUS
  <2>2. QED
    BY <2>1, LikeSane
<1>2. Sane(mul(a, b)) /\ Sane(div(a, b))
  BY <1>1 DEF mul, div, elementwise
<1>3. Sane(set(a, b, at)) /\ Sane(glu(op, a, b))
  BY <1>1 DEF set, glu
<1>4. Sane(soft_max_ext(a, b, at)) /\ Sane(soft_max_ext_back(a, b, at))
  BY <1>1 DEF soft_max_ext, soft_max_ext_back
<1>5. Sane(silu_back(a, b)) /\ Sane(rms_norm_back(a, b))
  BY <1>1 DEF silu_back, rms_norm_back
<1>6. QED
  BY <1>2, <1>3, <1>4, <1>5

(* of another shape: sums, means and repetition,                           *)
LEMMA SummedSane ==
    ASSUME NEW a, Sane(a), NEW b, b.ne \in Shape
    PROVE  /\ Sane(sum(a)) /\ Sane(sum_rows(a)) /\ Sane(mean(a))
           /\ Sane(repeat(a, b)) /\ Sane(repeat_back(a, b))
<1>1. \A k \in DOMAIN <<a>> : Sane(<<a>>[k])
  BY AreSane
<1>2. <<1, 1, 1, 1>> \in Shape /\ [a.ne EXCEPT ![1] = 1] \in Shape
  BY SizesAreShape, FirstSizeReplaced DEF Sane
<1>3. ASSUME NEW o, NEW ne \in Shape, NEW guard PROVE Sane(NewTensor(o, <<a>>, <<>>, ne, guard))
  BY <1>1, NewTensorSane
<1>4. Sane(sum(a))
  BY <1>2, <1>3 DEF sum
<1>5. Sane(sum_rows(a)) /\ Sane(mean(a))
  BY <1>2, <1>3 DEF sum_rows, mean
<1>6. Sane(repeat(a, b)) /\ Sane(repeat_back(a, b))
  BY <1>3 DEF repeat, repeat_back
<1>7. QED
  BY <1>4, <1>5, <1>6

(* products, the choice of rows and the loss.                              *)
LEMMA ProductsSane ==
    ASSUME NEW a, NEW b, NEW c, Sane(a), Sane(b), Sane(c)
    PROVE  /\ Sane(mul_mat(a, b)) /\ Sane(out_prod(a, b))
           /\ Sane(get_rows(a, b)) /\ Sane(get_rows_back(a, b, c))
           /\ Sane(cross_entropy_loss(a, b)) /\ Sane(cross_entropy_loss_back(a, b, c))
<1>1. \A k \in DOMAIN <<a, b>> : Sane(<<a, b>>[k])
  BY AreSane
<1>2. \A k \in DOMAIN <<a, b, c>> : Sane(<<a, b, c>>[k])
  <2>1. DOMAIN <<a, b, c>> = {1, 2, 3}
    OBVIOUS
  <2>2. <<a, b, c>>[1] = a /\ <<a, b, c>>[2] = b /\ <<a, b, c>>[3] = c
    OBVIOUS
  <2>3. QED
    BY <2>1, <2>2
<1>3. ASSUME NEW o, NEW ne \in Shape, NEW guard
      PROVE  Sane(NewTensor(o, <<a, b>>, <<>>, ne, guard))
  BY <1>1, NewTensorSane
<1>4. /\ a.ne[1] \in Nat \ {0} /\ a.ne[2] \in Nat \ {0}
      /\ b.ne[1] \in Nat \ {0} /\ b.ne[2] \in Nat \ {0}
      /\ b.ne[3] \in Nat \ {0} /\ b.ne[4] \in Nat \ {0}
      /\ c.ne[1] \in Nat \ {0} /\ c.ne[2] \in Nat \ {0}
  BY SizesOf DEF Sane
<1>5. Sane(mul_mat(a, b)) /\ Sane(out_prod(a, b))
  <2>1. /\ <<a.ne[2], b.ne[2], b.ne[3], b.ne[4]>> \in Shape
        /\ <<a.ne[1], b.ne[1], b.ne[3], b.ne[4]>> \in Shape
    BY <1>4, SizesAreShape
  <2>2. QED
    BY <1>3, <2>1 DEF mul_mat, out_prod
<1>6. Sane(get_rows(a, b)) /\ Sane(get_rows_back(a, b, c))
  <2>1. /\ <<a.ne[1], b.ne[1], b.ne[2], b.ne[3]>> \in Shape
        /\ <<c.ne[1], c.ne[2], 1, 1>> \in Shape
    <3>1. 1 \in Nat \ {0}
      OBVIOUS
    <3>2. QED
      BY <1>4, <3>1, SizesAreShape
  <2>2. QED
    BY <1>3, <2>1 DEF get_rows, get_rows_back
<1>7. Sane(cross_entropy_loss(a, b)) /\ Sane(cross_entropy_loss_back(a, b, c))
  <2>1. <<1, 1, 1, 1>> \in Shape /\ b.ne \in Shape
    BY SizesAreShape DEF Sane
  <2>2. Sane(cross_entropy_loss(a, b))
    BY <1>3, <2>1 DEF cross_entropy_loss
  <2>3. Sane(cross_entropy_loss_back(a, b, c))
    BY <1>2, <2>1, NewTensorSane DEF cross_entropy_loss_back
  <2>4. QED
    BY <2>2, <2>3
<1>8. QED
  BY <1>5, <1>6, <1>7

(* A view that keeps the place and the reach lies in the same memory.      *)
LEMMA SameReachSane ==
    ASSUME NEW op, NEW a, Sane(a), NEW arg, NEW ne \in Shape, NEW nb,
           Fits(a) => Strides(nb) /\ Reach(ne, nb) = Reach(a.ne, a.nb)
    PROVE  Sane(NewView(op, <<a>>, arg, a, ne, nb, 0, TRUE))
<1> DEFINE always == TRUE
<1>1. \A k \in DOMAIN <<a>> : Sane(<<a>>[k])
  BY AreSane
<1>2. ASSUME Passed(<<a>>, a, ne, 0)
      PROVE  /\ Strides(nb) /\ a.offs + 0 \in Nat /\ a.room \in Nat
             /\ a.offs + 0 + Reach(ne, nb) < a.room
  <2>1. Fits(a)
    BY <1>2, SourceOk, SaneFits DEF Passed
  <2>2. QED
    BY <2>1 DEF Fits
<1> HIDE DEF always
<1>3. Sane(NewView(op, <<a>>, arg, a, ne, nb, 0, always))
  BY <1>1, <1>2, NewViewSane
<1>4. QED
  BY <1>3 DEF always

(* The views that turn a tensor.                                           *)
LEMMA TransposeSane ==
    ASSUME NEW a, Sane(a)
    PROVE  Sane(transpose(a))
<1> DEFINE ne == <<a.ne[2], a.ne[1], a.ne[3], a.ne[4]>>
           nb == <<a.nb[2], a.nb[1], a.nb[3], a.nb[4]>>
<1>1. ne \in Shape
  BY SizesOf, SizesAreShape DEF Sane
<1>2. Fits(a) => Strides(nb) /\ Reach(ne, nb) = Reach(a.ne, a.nb)
  <2>1. SUFFICES ASSUME Fits(a) PROVE Strides(nb) /\ Reach(ne, nb) = Reach(a.ne, a.nb)
    OBVIOUS
  <2>2. /\ ne[1] = a.ne[2] /\ ne[2] = a.ne[1] /\ ne[3] = a.ne[3] /\ ne[4] = a.ne[4]
        /\ nb[1] = a.nb[2] /\ nb[2] = a.nb[1] /\ nb[3] = a.nb[3] /\ nb[4] = a.nb[4]
    OBVIOUS
  <2> HIDE DEF ne, nb
  <2>3. /\ (a.ne[1] - 1) * a.nb[1] \in Nat /\ (a.ne[2] - 1) * a.nb[2] \in Nat
        /\ (a.ne[3] - 1) * a.nb[3] \in Nat /\ (a.ne[4] - 1) * a.nb[4] \in Nat
    BY <2>1, ReachIsNatural DEF Fits
  <2>4. QED
    BY <2>1, <2>2, <2>3 DEF Fits, Strides, Reach
<1>3. transpose(a) = NewView("transpose", <<a>>, <<>>, a, ne, nb, 0, TRUE)
  BY DEF transpose
<1> HIDE DEF ne, nb
<1>4. QED
  BY <1>1, <1>2, <1>3, SameReachSane

(* Four numbers turned by <<2, 3, 1, 4>>, and turned back.                 *)
LEMMA TurnedBack ==
    ASSUME NEW f
    PROVE  LET axis == [j \in Dims |-> CHOOSE k \in Dims : <<2, 3, 1, 4>>[k] = j]
           IN  [j \in Dims |-> f[CHOOSE i \in Dims : axis[i] = j]]
                 = <<f[2], f[3], f[1], f[4]>>
<1> DEFINE axis == [j \in Dims |-> CHOOSE k \in Dims : <<2, 3, 1, 4>>[k] = j]
           turned == <<f[2], f[3], f[1], f[4]>>
<1>1. axis[1] = 3 /\ axis[2] = 1 /\ axis[3] = 2 /\ axis[4] = 4
  BY DEF Dims
<1> HIDE DEF axis
<1>2. /\ (CHOOSE i \in Dims : axis[i] = 1) = 2
      /\ (CHOOSE i \in Dims : axis[i] = 2) = 3
      /\ (CHOOSE i \in Dims : axis[i] = 3) = 1
      /\ (CHOOSE i \in Dims : axis[i] = 4) = 4
  BY <1>1 DEF Dims
<1>3. DOMAIN turned = Dims
  BY DEF Dims
<1>4. turned = [j \in Dims |-> turned[j]]
  BY <1>3
<1>5. \A j \in Dims : f[CHOOSE i \in Dims : axis[i] = j] = turned[j]
  <2> DEFINE place(j) == CHOOSE i \in Dims : axis[i] = j
  <2>1. turned[1] = f[2] /\ turned[2] = f[3] /\ turned[3] = f[1] /\ turned[4] = f[4]
    OBVIOUS
  <2>2. place(1) = 2 /\ place(2) = 3 /\ place(3) = 1 /\ place(4) = 4
    BY <1>2
  <2> HIDE DEF turned, place
  <2>3. \A j \in Dims : f[place(j)] = turned[j]
    BY <2>1, <2>2 DEF Dims
  <2>4. QED
    BY <2>3 DEF place
<1>6. [j \in Dims |-> f[CHOOSE i \in Dims : axis[i] = j]] = turned
  BY <1>4, <1>5
<1>7. QED
  BY <1>6 DEF axis

(* The two permutations the backward pass makes of a sane tensor, axes (2, *)
(* 3, 1, 4) and back, are sane.                                            *)
LEMMA PermuteSane ==
    ASSUME NEW a, Sane(a)
    PROVE  /\ Sane(permute(a, <<2, 3, 1, 4>>))
           /\ Sane(permute(a, [j \in Dims |-> CHOOSE k \in Dims : <<2, 3, 1, 4>>[k] = j]))
<1>1. ASSUME NEW axis, NEW ne, NEW nb, a.ne \in Shape,
             \/ /\ ne = <<a.ne[3], a.ne[1], a.ne[2], a.ne[4]>>
                /\ nb = <<a.nb[3], a.nb[1], a.nb[2], a.nb[4]>>
             \/ /\ ne = <<a.ne[2], a.ne[3], a.ne[1], a.ne[4]>>
                /\ nb = <<a.nb[2], a.nb[3], a.nb[1], a.nb[4]>>
      PROVE  Sane(NewView("permute", <<a>>, axis, a, ne, nb, 0, TRUE))
  <2>1. ne \in Shape
    BY <1>1, SizesOf, SizesAreShape
  <2>2. \/ /\ ne[1] = a.ne[3] /\ ne[2] = a.ne[1] /\ ne[3] = a.ne[2] /\ ne[4] = a.ne[4]
           /\ nb[1] = a.nb[3] /\ nb[2] = a.nb[1] /\ nb[3] = a.nb[2] /\ nb[4] = a.nb[4]
        \/ /\ ne[1] = a.ne[2] /\ ne[2] = a.ne[3] /\ ne[3] = a.ne[1] /\ ne[4] = a.ne[4]
           /\ nb[1] = a.nb[2] /\ nb[2] = a.nb[3] /\ nb[3] = a.nb[1] /\ nb[4] = a.nb[4]
    BY <1>1
  <2>3. Fits(a) => Strides(nb) /\ Reach(ne, nb) = Reach(a.ne, a.nb)
    <3>1. SUFFICES ASSUME Fits(a) PROVE Strides(nb) /\ Reach(ne, nb) = Reach(a.ne, a.nb)
      OBVIOUS
    <3>2. /\ (a.ne[1] - 1) * a.nb[1] \in Nat /\ (a.ne[2] - 1) * a.nb[2] \in Nat
          /\ (a.ne[3] - 1) * a.nb[3] \in Nat /\ (a.ne[4] - 1) * a.nb[4] \in Nat
      BY <3>1, ReachIsNatural DEF Fits
    <3>3. QED
      BY <3>1, <2>2, <3>2 DEF Fits, Strides, Reach
  <2>4. QED
    BY <2>1, <2>3, SameReachSane
<1>2. a.ne \in Shape
  BY DEF Sane
<1>3. Sane(permute(a, <<2, 3, 1, 4>>))
  <2> DEFINE axis == <<2, 3, 1, 4>>
             from == [j \in Dims |-> CHOOSE k \in Dims : axis[k] = j]
             Turned(f) == [j \in Dims |-> f[from[j]]]
  <2>1. \A j \in Dims : from[j] = CHOOSE k \in Dims : <<2, 3, 1, 4>>[k] = j
    OBVIOUS
  <2>2. permute(a, axis) = NewView("permute", <<a>>, axis, a, Turned(a.ne), Turned(a.nb), 0, TRUE)
    BY DEF permute
  <2> HIDE DEF from
  <2>3. ASSUME NEW f PROVE Turned(f) = <<f[3], f[1], f[2], f[4]>>
    <3>1. Turned(f) = [j \in Dims |-> f[CHOOSE k \in Dims : <<2, 3, 1, 4>>[k] = j]]
      BY <2>1
    <3>2. QED
      BY <3>1, PermutedSizes
  <2>4. /\ Turned(a.ne) = <<a.ne[3], a.ne[1], a.ne[2], a.ne[4]>>
        /\ Turned(a.nb) = <<a.nb[3], a.nb[1], a.nb[2], a.nb[4]>>
    BY <2>3
  <2> HIDE DEF Turned, axis
  <2>5. Sane(permute(a, axis))
    BY <1>1, <1>2, <2>2, <2>4
  <2>6. QED
    BY <2>5 DEF axis
<1>4. Sane(permute(a, [j \in Dims |-> CHOOSE k \in Dims : <<2, 3, 1, 4>>[k] = j]))
  <2> DEFINE axis == [j \in Dims |-> CHOOSE k \in Dims : <<2, 3, 1, 4>>[k] = j]
             from == [j \in Dims |-> CHOOSE i \in Dims : axis[i] = j]
             Turned(f) == [j \in Dims |-> f[from[j]]]
  <2>1. permute(a, axis) = NewView("permute", <<a>>, axis, a, Turned(a.ne), Turned(a.nb), 0, TRUE)
    BY DEF permute
  <2>2. ASSUME NEW f PROVE [j \in Dims |-> f[CHOOSE i \in Dims : axis[i] = j]]
                             = <<f[2], f[3], f[1], f[4]>>
    BY TurnedBack
  <2> HIDE DEF axis
  <2>3. \A j \in Dims : from[j] = CHOOSE i \in Dims : axis[i] = j
    OBVIOUS
  <2> HIDE DEF from
  <2>4. ASSUME NEW f PROVE Turned(f) = <<f[2], f[3], f[1], f[4]>>
    <3>1. Turned(f) = [j \in Dims |-> f[CHOOSE i \in Dims : axis[i] = j]]
      BY <2>3
    <3>2. QED
      BY <2>2, <3>1
  <2>5. /\ Turned(a.ne) = <<a.ne[2], a.ne[3], a.ne[1], a.ne[4]>>
        /\ Turned(a.nb) = <<a.nb[2], a.nb[3], a.nb[1], a.nb[4]>>
    BY <2>4
  <2> HIDE DEF Turned
  <2>6. Sane(permute(a, axis))
    BY <1>1, <1>2, <2>1, <2>5
  <2>7. QED
    BY <2>6 DEF axis
<1>5. QED
  BY <1>3, <1>4

(* A copy lies where its target does; another shape takes as much memory.  *)
LEMMA CopiedSane ==
    ASSUME NEW a, NEW b, Sane(a), Sane(b), NEW ne \in Shape
    PROVE  Sane(cpy(a, b)) /\ Sane(reshape(a, ne))
<1>1. Sane(cpy(a, b))
  <2> DEFINE same == nelements(a) = nelements(b)
  <2>1. ASSUME Passed(<<a, b>>, b, b.ne, 0)
        PROVE  /\ Strides(b.nb) /\ b.offs + 0 \in Nat /\ b.room \in Nat
               /\ b.offs + 0 + Reach(b.ne, b.nb) < b.room
    <3>1. Fits(b)
      BY <2>1, SourcesOk, SaneFits DEF Passed
    <3>2. QED
      BY <3>1 DEF Fits
  <2>2. cpy(a, b) = NewView("cpy", <<a, b>>, <<>>, b, b.ne, b.nb, 0, same)
    BY DEF cpy
  <2> HIDE DEF same
  <2>3. b.ne \in Shape
    BY DEF Sane
  <2>4. QED
    BY <2>1, <2>2, <2>3, AreSane, NewViewSane
<1>2. Sane(reshape(a, ne))
  <2> DEFINE same == is_contiguous(a) /\ nelements(a) = Product(ne)
             nb == Packed(ne)
  <2>1. ASSUME Passed(<<a>>, a, ne, 0)
        PROVE  /\ Strides(nb) /\ a.offs + 0 \in Nat /\ a.room \in Nat
               /\ a.offs + 0 + Reach(ne, nb) < a.room
    <3>1. Fits(a) /\ Product(ne) + a.offs + 0 <= a.room
      BY <2>1, SourceOk, SaneFits DEF Passed
    <3>2. Strides(nb) /\ Reach(ne, nb) = Product(ne) - 1
      BY PackedReach
    <3>3. Product(ne) \in Nat
      BY ProductIsPositive
    <3> HIDE DEF nb
    <3>4. QED
      BY <3>1, <3>2, <3>3 DEF Fits
  <2>2. reshape(a, ne) = NewView("reshape", <<a>>, <<>>, a, ne, nb, 0, same)
    BY DEF reshape
  <2> HIDE DEF same, nb
  <2>3. QED
    BY <2>1, <2>2, AreSane, NewViewSane
<1>3. QED
  BY <1>1, <1>2
-----------------------------------------------------------------------------
(* A block has s rows and t columns behind row r and column c.             *)
IsBlock(block, ne, nb, r, c, s, t) ==
    /\ r \in 0 .. ne[1] - 1 /\ c \in 0 .. ne[2] - 1
    /\ s \in 1 .. ne[1] - r /\ t \in 1 .. ne[2] - c
    /\ block = <<<<s, t, ne[3], ne[4]>>, SubSeq(nb, 2, 4) \o <<r * nb[1] + c * nb[2]>>>>

(* So do all that Blocks has.                                              *)
LEMMA BlocksAre ==
    ASSUME NEW ne, NEW nb, NEW block \in Blocks(ne, nb)
    PROVE  \E r, c, s, t : IsBlock(block, ne, nb, r, c, s, t)
<1> DEFINE starts == (0 .. ne[1] - 1) \X (0 .. ne[2] - 1)
           sizes(at) == (1 .. ne[1] - at[1]) \X (1 .. ne[2] - at[2])
           shape(size) == <<size[1], size[2], ne[3], ne[4]>>
           place(at) == SubSeq(nb, 2, 4) \o <<at[1] * nb[1] + at[2] * nb[2]>>
<1>1. Blocks(ne, nb) = UNION {{<<shape(size), place(at)>> : size \in sizes(at)} : at \in starts}
  BY DEF Blocks
<1> HIDE DEF shape, place
<1>2. PICK at \in starts : \E size \in sizes(at) : block = <<shape(size), place(at)>>
  BY <1>1
<1>3. PICK size \in sizes(at) : block = <<shape(size), place(at)>>
  BY <1>2
<1>4. /\ at[1] \in 0 .. ne[1] - 1 /\ at[2] \in 0 .. ne[2] - 1
      /\ size[1] \in 1 .. ne[1] - at[1] /\ size[2] \in 1 .. ne[2] - at[2]
  BY <1>2, <1>3
<1>5. IsBlock(block, ne, nb, at[1], at[2], size[1], size[2])
  BY <1>3, <1>4 DEF IsBlock, shape, place
<1>6. QED
  BY <1>5

(* Strides, and behind them an offset.                                     *)
LEMMA ThreeThenOne ==
    ASSUME NEW h \in Seq(Nat), Len(h) = 3, NEW n \in Nat
    PROVE  /\ (h \o <<n>>)[1] = h[1] /\ (h \o <<n>>)[2] = h[2]
           /\ (h \o <<n>>)[3] = h[3] /\ (h \o <<n>>)[4] = n
<1> DEFINE last == <<n>>
<1>1. last \in Seq(Nat) /\ Len(last) = 1 /\ last[1] = n
  OBVIOUS
<1> HIDE DEF last
<1>2. \A i \in 1 .. Len(h) + Len(last) :
          (h \o last)[i] = IF i <= Len(h) THEN h[i] ELSE last[i - Len(h)]
  BY <1>1, ConcatProperties
<1> DEFINE all == h \o last
           a == Len(h)
           b == Len(last)
<1>3. a = 3 /\ b = 1
  BY <1>1
<1>4. \A i \in 1 .. a + b : all[i] = IF i <= a THEN h[i] ELSE last[i - a]
  BY <1>2
<1> HIDE DEF all, a, b
<1>5. all[1] = h[1] /\ all[2] = h[2] /\ all[3] = h[3] /\ all[4] = n
  BY <1>1, <1>3, <1>4
<1>6. QED
  BY <1>5 DEF all, last

(* The strides of all but the first dimension with an offset behind them.  *)
LEMMA StridesThenOffset ==
    ASSUME NEW nb, nb[2] \in Nat, nb[3] \in Nat, nb[4] \in Nat, NEW n \in Nat
    PROVE  LET at == SubSeq(nb, 2, 4) \o <<n>>
           IN  at[1] = nb[2] /\ at[2] = nb[3] /\ at[3] = nb[4] /\ at[4] = n
<1> DEFINE head == SubSeq(nb, 2, 4)
<1>1. \A i \in 2 .. 4 : i = 2 \/ i = 3 \/ i = 4
  OBVIOUS
<1>2. \A i \in 2 .. 4 : nb[i] \in Nat
  BY <1>1
<1>3. head \in Seq(Nat) /\ Len(head) = 3 /\ \A i \in 1 .. 3 : head[i] = nb[i + 1]
  BY <1>2, SubSeqProperties
<1>4. head[1] = nb[2] /\ head[2] = nb[3] /\ head[3] = nb[4]
  BY <1>3
<1>5. QED
  BY <1>3, <1>4, ThreeThenOne

(* The strides ggml_view_4d() writes.                                      *)
RowStrides(at) == <<1, at[1], at[2], at[3]>>

(* A part of the way is not longer than the way.                           *)
LEMMA PartOfTheWay ==
    ASSUME NEW n \in Nat, NEW r \in Nat, NEW s \in Nat \ {0}, r + s <= n, NEW step \in Nat
    PROVE  /\ r * step \in Nat /\ (s - 1) * step \in Nat /\ (n - 1) * step \in Nat
           /\ r * step + (s - 1) * step <= (n - 1) * step
<1>1. r + (s - 1) \in Nat /\ n - 1 \in Nat /\ s - 1 \in Nat /\ r + (s - 1) <= n - 1
  OBVIOUS
<1>2. (r + (s - 1)) * step <= (n - 1) * step
  BY <1>1, ProductsGrow
<1>3. (r + (s - 1)) * step = r * step + (s - 1) * step
  OBVIOUS
<1>4. QED
  BY <1>1, <1>2, <1>3, ProductsAreNatural

(* A block of a tensor does not reach further than the tensor.             *)
LEMMA BlocksReach ==
    ASSUME NEW ne \in Shape, NEW nb, Strides(nb), NEW block \in Blocks(ne, nb)
    PROVE  /\ block[1] \in Shape /\ block[2][4] \in Nat
           /\ block[2][1] = nb[2] /\ block[2][2] = nb[3] /\ block[2][3] = nb[4]
           /\ nb[1] = 1 \/ block[1][1] = 1 =>
                block[2][4] + Reach(block[1], RowStrides(block[2])) <= Reach(ne, nb)
<1>1. PICK r, c, s, t : IsBlock(block, ne, nb, r, c, s, t)
  BY BlocksAre
<1>2. /\ ne[1] \in Nat \ {0} /\ ne[2] \in Nat \ {0}
      /\ ne[3] \in Nat \ {0} /\ ne[4] \in Nat \ {0}
  BY SizesOf
<1>3. /\ r \in Nat /\ c \in Nat /\ s \in Nat \ {0} /\ t \in Nat \ {0}
      /\ r + s <= ne[1] /\ c + t <= ne[2]
      /\ block = <<<<s, t, ne[3], ne[4]>>, SubSeq(nb, 2, 4) \o <<r * nb[1] + c * nb[2]>>>>
  BY <1>1, <1>2 DEF IsBlock
<1>4. nb[1] \in Nat /\ nb[2] \in Nat /\ nb[3] \in Nat /\ nb[4] \in Nat
  BY DEF Strides
<1>5. /\ r * nb[1] \in Nat /\ (s - 1) * nb[1] \in Nat /\ (ne[1] - 1) * nb[1] \in Nat
      /\ r * nb[1] + (s - 1) * nb[1] <= (ne[1] - 1) * nb[1]
  BY <1>2, <1>3, <1>4, PartOfTheWay
<1>6. /\ c * nb[2] \in Nat /\ (t - 1) * nb[2] \in Nat /\ (ne[2] - 1) * nb[2] \in Nat
      /\ c * nb[2] + (t - 1) * nb[2] <= (ne[2] - 1) * nb[2]
  BY <1>2, <1>3, <1>4, PartOfTheWay
<1>7. r * nb[1] + c * nb[2] \in Nat
  BY <1>5, <1>6
<1>8. block[1] = <<s, t, ne[3], ne[4]>>
  BY <1>3
<1>9. /\ block[2][1] = nb[2] /\ block[2][2] = nb[3] /\ block[2][3] = nb[4]
      /\ block[2][4] = r * nb[1] + c * nb[2]
  BY <1>3, <1>4, <1>7, StridesThenOffset
<1>10. block[1][1] = s /\ block[1][2] = t /\ block[1][3] = ne[3] /\ block[1][4] = ne[4]
  BY <1>8
<1>11. block[1] \in Shape
  BY <1>2, <1>3, <1>8, SizesAreShape
<1>12. ASSUME nb[1] = 1 \/ block[1][1] = 1
       PROVE  block[2][4] + Reach(block[1], RowStrides(block[2])) <= Reach(ne, nb)
  <2> DEFINE own == RowStrides(block[2])
  <2>1. own[1] = 1 /\ own[2] = nb[2] /\ own[3] = nb[3] /\ own[4] = nb[4]
    BY <1>9 DEF RowStrides
  <2> HIDE DEF own
  <2>2. (s - 1) * own[1] = (s - 1) * nb[1]
    <3>1. CASE nb[1] = 1
      BY <2>1, <3>1
    <3>2. CASE s = 1
      BY <1>4, <2>1, <3>2
    <3>3. QED
      BY <1>10, <1>12, <3>1, <3>2
  <2>3. Reach(block[1], own) = (s - 1) * nb[1] + (t - 1) * nb[2]
                                 + (ne[3] - 1) * nb[3] + (ne[4] - 1) * nb[4]
    BY <1>10, <2>1, <2>2 DEF Reach
  <2>4. (ne[3] - 1) * nb[3] \in Nat /\ (ne[4] - 1) * nb[4] \in Nat
    BY ReachIsNatural
  <2>5. block[2][4] + Reach(block[1], own) <= Reach(ne, nb)
    BY <1>5, <1>6, <1>9, <2>3, <2>4 DEF Reach
  <2>6. QED
    BY <2>5 DEF own
<1>13. QED
  BY <1>7, <1>9, <1>11, <1>12

(* A block of a tensor lies in its memory if the last element does.        *)
LEMMA ViewSane ==
    ASSUME NEW a, Sane(a), NEW ne \in Shape, NEW at,
           Fits(a) => /\ Strides(RowStrides(at)) /\ at[4] \in Nat
                      /\ a.offs + at[4] + Reach(ne, RowStrides(at)) < a.room
    PROVE  Sane(view_4d(a, ne, at))
<1> DEFINE always == TRUE
           nb == RowStrides(at)
<1>1. ASSUME Passed(<<a>>, a, ne, at[4])
      PROVE  /\ Strides(nb) /\ a.offs + at[4] \in Nat /\ a.room \in Nat
             /\ a.offs + at[4] + Reach(ne, nb) < a.room
  <2>1. Fits(a)
    BY <1>1, SourceOk, SaneFits DEF Passed
  <2>2. QED
    BY <2>1 DEF Fits
<1>2. view_4d(a, ne, at) = NewView("view", <<a>>, at, a, ne, nb, at[4], always)
  BY DEF view_4d, RowStrides
<1> HIDE DEF always, nb
<1>3. QED
  BY <1>1, <1>2, AreSane, NewViewSane
-----------------------------------------------------------------------------
(* What need not hold of a tensor that an assertion turns down.            *)
LEMMA AssertedSane ==
    ASSUME NEW a, Fields \subseteq DOMAIN a, a.ne \in Shape,
           NEW condition, condition => Sane(a)
    PROVE  Sane(Asserting(a, condition))
<1>1. CASE condition
  BY <1>1, AssertingSane
<1>2. CASE ~condition
  <2> DEFINE e == Asserting(a, condition)
  <2>1. DOMAIN e = DOMAIN a /\ e.ne = a.ne /\ ~e.ok
    BY <1>2 DEF Asserting, Fields
  <2> HIDE DEF e
  <2>2. Sane(e)
    BY <2>1 DEF Sane
  <2>3. QED
    BY <2>2 DEF e
<1>3. QED
  BY <1>1, <1>2

(* Matrices in groups, side by side: q groups of c matrices of a columns   *)
(* and b rows reach as far as c * q matrices.                              *)
LEMMA GroupsReach ==
    ASSUME NEW a \in Nat \ {0}, NEW b \in Nat \ {0}, NEW c \in Nat \ {0}, NEW q \in Nat \ {0}
    PROVE  /\ a * b \in Nat /\ a * b * q \in Nat
           /\ (a - 1) * 1 + (b - 1) * a + (c - 1) * (a * b * q) + (q - 1) * (a * b)
                < a * b * (c * q)
<1> DEFINE m == a * b
           n == m * q
<1>1. m \in Nat \ {0} /\ n \in Nat
  BY ProductsAreNatural
<1>2. (b - 1) * a = m - a /\ (q - 1) * m = n - m
  BY <1>1
<1>3. (c - 1) * n = c * n - n /\ m * (c * q) = c * n
  BY <1>1
<1>4. c * n \in Nat
  BY <1>1, ProductsAreNatural
<1> HIDE DEF m, n
<1>5. (a - 1) * 1 + (b - 1) * a + (c - 1) * n + (q - 1) * m < m * (c * q)
  BY <1>1, <1>2, <1>3, <1>4
<1>6. QED
  BY <1>1, <1>5 DEF m, n

(* The gradient of the first matrix of a product is sane if it passes the  *)
(* tests of its shape.                                                     *)
LEMMA GroupedSane ==
    ASSUME NEW p, NEW x, Sane(p), x.ne \in Shape, p.nb = Packed(p.ne), p.offs = 0,
           p.room = Product(p.ne), p.ne[3] % x.ne[3] = 0,
           p.ne[1] = x.ne[1], p.ne[2] = x.ne[2]
    PROVE  Sane(Grouped(p, x))
<1> DEFINE nr2 == p.ne[3] \div x.ne[3]
           ne == <<x.ne[1], x.ne[2], x.ne[3], nr2>>
           at == <<p.nb[2], p.nb[3] * nr2, p.nb[3], 0>>
<1>1. /\ p.ne \in Shape
      /\ p.ne[1] \in Nat \ {0} /\ p.ne[2] \in Nat \ {0}
      /\ p.ne[3] \in Nat \ {0} /\ p.ne[4] \in Nat \ {0}
      /\ x.ne[1] \in Nat \ {0} /\ x.ne[2] \in Nat \ {0} /\ x.ne[3] \in Nat \ {0}
  BY SizesOf DEF Sane
<1>2. nr2 \in Nat \ {0} /\ x.ne[3] * nr2 = p.ne[3]
  BY <1>1, Divides
<1>3. Grouped(p, x) = view_4d(p, ne, at)
  BY DEF Grouped
<1> HIDE DEF nr2
<1>4. ne \in Shape
  BY <1>1, <1>2, SizesAreShape
<1>5. ne[1] = p.ne[1] /\ ne[2] = p.ne[2] /\ ne[3] = x.ne[3] /\ ne[4] = nr2
  OBVIOUS
<1> DEFINE own == RowStrides(at)
<1>6. /\ own[1] = 1 /\ own[2] = p.ne[1] /\ own[3] = p.ne[1] * p.ne[2] * nr2
      /\ own[4] = p.ne[1] * p.ne[2] /\ at[4] = 0
  BY DEF RowStrides, Packed
<1> HIDE DEF ne, at, own
<1>7. /\ p.ne[1] * p.ne[2] \in Nat /\ p.ne[1] * p.ne[2] * nr2 \in Nat
      /\ Reach(ne, own) < p.ne[1] * p.ne[2] * p.ne[3]
  <2> DEFINE a == p.ne[1]
             b == p.ne[2]
             c == x.ne[3]
             reach == (a - 1) * 1 + (b - 1) * a + (c - 1) * (a * b * nr2) + (nr2 - 1) * (a * b)
  <2>1. a * b \in Nat /\ a * b * nr2 \in Nat /\ reach < a * b * (c * nr2)
    BY <1>1, <1>2, GroupsReach
  <2>2. Reach(ne, own) = reach
    BY <1>5, <1>6 DEF Reach
  <2>3. a * b * (c * nr2) = a * b * p.ne[3]
    BY <1>2
  <2> HIDE DEF reach
  <2>4. QED
    BY <2>1, <2>2, <2>3
<1>8. Strides(own)
  BY <1>1, <1>6, <1>7 DEF Strides
<1>9. Reach(ne, own) \in Nat
  BY <1>4, <1>8, ReachIsNatural
<1>10. p.ne[1] * p.ne[2] * p.ne[3] <= Product(p.ne)
  <2> DEFINE n == p.ne[1] * p.ne[2] * p.ne[3]
  <2>1. n \in Nat
    BY <1>1, <1>7, ProductsAreNatural
  <2>2. Product(p.ne) = n * p.ne[4]
    BY DEF Product
  <2> HIDE DEF n
  <2>3. n * 1 <= n * p.ne[4]
    BY <1>1, <2>1, ProductsGrow
  <2>4. n <= Product(p.ne)
    BY <2>1, <2>2, <2>3
  <2>5. QED
    BY <2>4 DEF n
<1>11. p.offs + at[4] + Reach(ne, own) < p.room
  <2>1. Product(p.ne) \in Nat /\ p.ne[1] * p.ne[2] * p.ne[3] \in Nat
    BY <1>1, <1>7, ProductIsPositive, ProductsAreNatural
  <2>2. QED
    BY <1>6, <1>7, <1>9, <1>10, <2>1
<1>12. Sane(view_4d(p, ne, at))
  BY <1>4, <1>6, <1>8, <1>11, ViewSane DEF own
<1>13. QED
  BY <1>3, <1>12

(* What ggml_mul_mat() hands to its first source is sane, also if its      *)
(* batches were broadcast and the product is regrouped by a view.          *)
LEMMA MulMatBackSane ==
    ASSUME NEW g, NEW x, NEW y, Sane(g), Sane(x), Sane(y), g.ne[3] % x.ne[3] = 0
    PROVE  Sane(MulMatBack0(g, x, y))
<1> DEFINE p == out_prod(y, g)
           back == repeat_back(Grouped(p, x), x)
           fits == /\ p.ne[1] = x.ne[1] /\ p.ne[2] = x.ne[2]
                   /\ p.ne[4] = 1
<1>1. Sane(p)
  BY ProductsSane
<1>2. /\ p.nb = Packed(p.ne) /\ p.offs = 0 /\ p.room = Product(p.ne)
      /\ p.ne[3] = g.ne[3]
  BY DEF out_prod, NewTensor
<1>3. MulMatBack0(g, x, y) = IF are_same_shape(p, x) THEN p ELSE Asserting(back, fits)
  BY DEF MulMatBack0
<1>4. x.ne \in Shape
  BY DEF Sane
<1>5. Fields \subseteq DOMAIN back /\ back.ne = x.ne
  BY DEF repeat_back, NewTensor, Fields
<1> HIDE DEF p
<1>6. fits => Sane(back)
  BY <1>1, <1>2, <1>4, GroupedSane, SummedSane
<1> HIDE DEF back, fits
<1>7. Sane(Asserting(back, fits))
  BY <1>4, <1>5, <1>6, AssertedSane
<1>8. QED
  BY <1>1, <1>3, <1>7
-----------------------------------------------------------------------------
(* Something sane is handed on, or nothing.                                *)
Passes(c) == \/ c.how = "nothing"
             \/ c.how \in {"add", "sub", "add1", "acc"} /\ Sane(c.e)

(* By the way it is handed on.                                             *)
LEMMA PassesOn ==
    ASSUME NEW e, NEW at
    PROVE  /\ Passes(Nothing)
           /\ Sane(e) => /\ Passes(Add(e)) /\ Passes(Sub(e))
                         /\ Passes(Add1(e)) /\ Passes(Acc(e, at))
BY DEF Passes, Nothing, Add, Sub, Add1, Acc

(* The first and the second of two.                                        *)
LEMMA FirstAndSecond ==
    ASSUME NEW a, NEW b, Passes(a), Passes(b), NEW k \in {1, 2}
    PROVE  Passes(<<a, b>>[k])
<1>1. <<a, b>>[1] = a /\ <<a, b>>[2] = b
  OBVIOUS
<1>2. QED
  BY <1>1

(* Each part of the switch hands on sane tensors: sums, differences,       *)
(* products and quotients,                                                 *)
LEMMA ArithmeticPasses ==
    ASSUME NEW i, NEW g, Sane(g), Sane(Ref(i)), Sane(X(i)), Op(i) = "dup" \/ Sane(Y(i)),
           Op(i) \in {"dup", "add1"} \cup Elementwise, NEW k \in {1, 2}
    PROVE  Passes(ArithmeticBack(i, g)[k])
<1>1. CASE Op(i) = "dup"
  <2>1. ArithmeticBack(i, g) = <<Add(g), Nothing>>
    BY <1>1 DEF ArithmeticBack
  <2>2. QED
    BY <2>1, PassesOn, FirstAndSecond
<1>2. ASSUME NEW e, Sane(e), Sane(Y(i)) PROVE Sane(SummedTo(e, X(i), Y(i)))
  <2>1. Y(i).ne \in Shape
    BY <1>2 DEF Sane
  <2>2. Sane(repeat_back(e, Y(i)))
    BY <1>2, <2>1, SummedSane
  <2>3. QED
    BY <1>2, <2>2 DEF SummedTo
<1>3. CASE Op(i) = "add"
  <2>1. ArithmeticBack(i, g) = <<Add(g), Add(SummedTo(g, X(i), Y(i)))>>
    BY <1>3 DEF ArithmeticBack
  <2>2. Sane(SummedTo(g, X(i), Y(i)))
    BY <1>2, <1>3
  <2>3. QED
    BY <2>1, <2>2, PassesOn, FirstAndSecond
<1>4. CASE Op(i) = "add1"
  <2>1. ArithmeticBack(i, g) = <<Add(g), Add(mean(g))>>
    BY <1>4 DEF ArithmeticBack
  <2>2. Sane(mean(g))
    BY SummedSane DEF Sane
  <2>3. QED
    BY <2>1, <2>2, PassesOn, FirstAndSecond
<1>5. CASE Op(i) = "sub"
  <2>1. ArithmeticBack(i, g) = <<Add(g), Sub(g)>>
    BY <1>5 DEF ArithmeticBack
  <2>2. QED
    BY <2>1, PassesOn, FirstAndSecond
<1>6. CASE Op(i) = "mul"
  <2>1. ArithmeticBack(i, g) = <<Add(mul(g, Y(i))), Add(SummedTo(mul(X(i), g), X(i), Y(i)))>>
    BY <1>6 DEF ArithmeticBack
  <2>2. Sane(mul(g, Y(i))) /\ Sane(mul(X(i), g))
    BY <1>6, ApartSane
  <2>3. Sane(SummedTo(mul(X(i), g), X(i), Y(i)))
    BY <1>2, <1>6, <2>2
  <2>4. QED
    BY <2>1, <2>2, <2>3, PassesOn, FirstAndSecond
<1>7. CASE Op(i) = "div"
  <2>1. ArithmeticBack(i, g) = <<Add(div(g, Y(i))), Sub(mul(g, div(Ref(i), Y(i))))>>
    BY <1>7 DEF ArithmeticBack
  <2>2. Sane(div(g, Y(i))) /\ Sane(div(Ref(i), Y(i)))
    BY <1>7, ApartSane
  <2>3. Sane(mul(g, div(Ref(i), Y(i))))
    BY <2>2, ApartSane
  <2>4. QED
    BY <2>1, <2>2, <2>3, PassesOn, FirstAndSecond
<1>8. QED
  BY <1>1, <1>3, <1>4, <1>5, <1>6, <1>7 DEF Elementwise

(* functions of one tensor,                                                *)
LEMMA FunctionPasses ==
    ASSUME NEW i, NEW g, Sane(g), Sane(Ref(i)), Sane(X(i)), Op(i) \in FunctionOps
    PROVE  Passes(FunctionBack(i, g))
<1>1. /\ Sane(mul(X(i), g)) /\ Sane(div(g, Ref(i))) /\ Sane(div(g, X(i)))
      /\ Sane(rms_norm_back(g, X(i)))
  BY ApartSane
<1>2. Sane(scale(mul(X(i), g), <<2, 1>>)) /\ Sane(scale(div(g, Ref(i)), <<1, 2>>))
  BY <1>1, OneSourceSane
<1>3. Sane(plain("cos", X(i))) /\ Sane(plain("sin", X(i)))
  BY OneSourceSane
<1>4. Sane(mul(g, plain("cos", X(i)))) /\ Sane(mul(g, plain("sin", X(i))))
  BY <1>3, ApartSane
<1>5. Sane(scale(g, <<Arg(i)[1], Arg(i)[2]>>))
  BY OneSourceSane
<1>6. CASE Op(i) \in {"sqr", "sqrt", "log"}
  BY <1>1, <1>2, <1>6, PassesOn DEF FunctionBack
<1>7. CASE Op(i) \in {"sin", "cos"}
  BY <1>4, <1>7, PassesOn DEF FunctionBack
<1>8. CASE Op(i) \in {"rms_norm", "scale"}
  BY <1>1, <1>5, <1>8, PassesOn DEF FunctionBack
<1>9. QED
  BY <1>6, <1>7, <1>8 DEF FunctionOps

(* activations,                                                            *)
LEMMA UnaryPasses ==
    ASSUME NEW i, NEW g, Sane(g), Sane(Ref(i)), Sane(X(i)), Op(i) \in UnaryOps
    PROVE  Passes(UnaryBack(i, g))
<1>1. \A op : Sane(unary(op, X(i)))
  BY OneSourceSane
<1>2. \A op : Sane(mul(unary(op, X(i)), g)) /\ Sane(mul(g, unary(op, X(i))))
  BY <1>1, ApartSane
<1>3. Sane(silu_back(g, X(i))) /\ Sane(mul(Ref(i), g))
  BY ApartSane
<1>4. CASE Op(i) \in {"sgn", "step", "neg"}
  BY <1>4, PassesOn DEF UnaryBack
<1>5. CASE Op(i) \in {"abs", "relu"}
  BY <1>2, <1>5, PassesOn DEF UnaryBack
<1>6. CASE Op(i) \in {"silu", "exp"}
  BY <1>3, <1>6, PassesOn DEF UnaryBack
<1>7. CASE Op(i) \in {"expm1", "softplus"}
  BY <1>2, <1>7, PassesOn DEF UnaryBack
<1>8. QED
  BY <1>4, <1>5, <1>6, <1>7 DEF UnaryOps

(* sums, means and repetition,                                             *)
LEMMA ReductionPasses ==
    ASSUME NEW i, NEW g, Sane(g), Sane(X(i)), Op(i) \in ReductionOps
    PROVE  Passes(ReductionBack(i, g))
<1>1. Sane(repeat(g, X(i))) /\ Sane(repeat_back(g, X(i)))
  BY SummedSane DEF Sane
<1>2. Sane(scale(g, <<1, X(i).ne[1]>>))
  BY OneSourceSane
<1>3. CASE Op(i) \in {"sum", "mean"}
  BY <1>2, <1>3, PassesOn DEF ReductionBack
<1>4. CASE Op(i) \in {"sum_rows", "repeat_back", "repeat"}
  BY <1>1, <1>4, PassesOn DEF ReductionBack
<1>5. QED
  BY <1>3, <1>4 DEF ReductionOps

(* products, the choice of rows and the gated unit; the matrices of a      *)
(* product are grouped only if their number allows it,                     *)
LEMMA ProductPasses ==
    ASSUME NEW i, NEW g, Sane(g), Sane(X(i)), Sane(Y(i)),
           Op(i) \in {"mul_mat", "get_rows", "swiglu"},
           Op(i) = "mul_mat" => g.ne[3] % X(i).ne[3] = 0, NEW k \in {1, 2}
    PROVE  Passes(ProductBack(i, g)[k])
<1>1. CASE Op(i) = "mul_mat"
  <2> DEFINE agree == g.ne[3] = Y(i).ne[3] /\ g.ne[4] = Y(i).ne[4]
             whole == MulMatBack0(g, X(i), Y(i))
  <2>1. ProductBack(i, g) = <<Add(Asserting(whole, agree)), Add(out_prod(X(i), transpose(g)))>>
    BY <1>1 DEF ProductBack
  <2>2. Sane(whole)
    BY <1>1, MulMatBackSane
  <2>3. Sane(transpose(g))
    BY TransposeSane
  <2>4. Sane(out_prod(X(i), transpose(g)))
    BY <2>3, ProductsSane
  <2> HIDE DEF whole, agree
  <2>5. Sane(Asserting(whole, agree))
    BY <2>2, AssertingSane
  <2>6. QED
    BY <2>1, <2>4, <2>5, PassesOn, FirstAndSecond
<1>2. CASE Op(i) = "get_rows"
  <2>1. ProductBack(i, g) = <<Add(get_rows_back(g, Y(i), X(i))), Nothing>>
    BY <1>2 DEF ProductBack
  <2>2. Sane(get_rows_back(g, Y(i), X(i)))
    BY ProductsSane
  <2>3. QED
    BY <2>1, <2>2, PassesOn, FirstAndSecond
<1>3. CASE Op(i) = "swiglu"
  <2>1. ProductBack(i, g) = <<Add(silu_back(mul(g, Y(i)), X(i))),
                              Add(mul(unary("silu", X(i)), g))>>
    BY <1>3 DEF ProductBack
  <2>2. Sane(mul(g, Y(i))) /\ Sane(unary("silu", X(i)))
    BY ApartSane, OneSourceSane
  <2>3. Sane(silu_back(mul(g, Y(i)), X(i))) /\ Sane(mul(unary("silu", X(i)), g))
    BY <2>2, ApartSane
  <2>4. QED
    BY <2>1, <2>3, PassesOn, FirstAndSecond
<1>4. QED
  BY <1>1, <1>2, <1>3

(* A block was written to a place in a tensor without gaps.                *)
Placed(e) ==
    e.op \in {"acc", "set"} =>
        /\ e.arg[4] \in Nat /\ RowStrides(e.arg) = Packed(e.ne)
        /\ e.arg[4] + Reach(e.src[2].ne, RowStrides(e.arg)) < Product(e.ne)

(* what was written into a block,                                          *)
LEMMA BlockPasses ==
    ASSUME NEW i, NEW g, Sane(g), Sane(Y(i)), Good(g, tensors[i].ne),
           Op(i) \in {"acc", "set"}, Placed(tensors[i]), tensors[i].src[2] = Y(i), NEW k \in {1, 2}
    PROVE  Passes(BlockBack(i, g)[k])
<1> DEFINE ne == Y(i).ne
           at == Arg(i)
           block == view_4d(g, ne, at)
           negated == unary("neg", block)
           copied == cont(block)
<1>1. /\ at[4] \in Nat /\ RowStrides(at) = Packed(g.ne)
      /\ at[4] + Reach(ne, RowStrides(at)) < Product(g.ne)
  BY DEF Placed, Op, Arg, Good
<1>2. /\ ne \in Shape /\ g.ne \in Shape
      /\ g.offs \in Nat /\ g.room \in Nat /\ g.offs + Product(g.ne) <= g.room
  BY DEF Sane, Good, Lies
<1>3. BlockBack(i, g) = <<IF Op(i) = "acc" THEN Add(g)
                          ELSE Add(acc_impl(g, negated, at, FALSE)),
                          Add(reshape(copied, ne))>>
  BY DEF BlockBack
<1> HIDE DEF ne, at
<1>4. /\ Strides(RowStrides(at)) /\ at[4] \in Nat
      /\ g.offs + at[4] + Reach(ne, RowStrides(at)) < g.room
  <2>1. Strides(RowStrides(at)) /\ Product(g.ne) \in Nat
    BY <1>1, <1>2, PackedReach, ProductIsPositive
  <2>2. Reach(ne, RowStrides(at)) \in Nat
    BY <1>2, <2>1, ReachIsNatural
  <2>3. QED
    BY <1>1, <1>2, <2>1, <2>2
<1>5. Sane(block)
  BY <1>2, <1>4, ViewSane
<1> HIDE DEF block
<1>6. Sane(negated) /\ Sane(copied)
  BY <1>5, OneSourceSane
<1> HIDE DEF negated, copied
<1>7. Sane(acc_impl(g, negated, at, FALSE))
  <2>1. FALSE \in BOOLEAN
    OBVIOUS
  <2>2. QED
    BY <1>6, <2>1, TwoSourcesSane
<1>8. Sane(reshape(copied, ne))
  BY <1>2, <1>6, CopiedSane
<1>9. /\ Passes(IF Op(i) = "acc" THEN Add(g) ELSE Add(acc_impl(g, negated, at, FALSE)))
      /\ Passes(Add(reshape(copied, ne)))
  BY <1>7, <1>8, PassesOn
<1>10. QED
  BY <1>3, <1>9, FirstAndSecond

(* masks and the loss,                                                     *)
LEMMA LossPasses ==
    ASSUME NEW i, NEW g, Sane(g), Sane(Ref(i)), Sane(X(i)), Op(i) \in LossOps,
           Op(i) = "cross_entropy_loss" => Sane(Y(i))
    PROVE  Passes(LossBack(i, g))
<1>1. CASE Op(i) \in DiagMask
  <2>1. Sane(diag_mask("diag_mask_zero", g, Arg(i)[1]))
    BY OneSourceSane
  <2>2. LossBack(i, g) = Add(diag_mask("diag_mask_zero", g, Arg(i)[1]))
    BY <1>1 DEF LossBack, DiagMask
  <2>3. QED
    BY <2>1, <2>2, PassesOn
<1>2. CASE Op(i) = "soft_max"
  <2>1. Sane(soft_max_ext_back(g, Ref(i), Arg(i)))
    BY ApartSane
  <2>2. QED
    BY <1>2, <2>1, PassesOn DEF LossBack, DiagMask
<1>3. CASE Op(i) = "cross_entropy_loss"
  <2>1. Sane(cross_entropy_loss_back(g, X(i), Y(i)))
    BY <1>3, ProductsSane
  <2>2. QED
    BY <1>3, <2>1, PassesOn DEF LossBack, DiagMask
<1>4. QED
  BY <1>1, <1>2, <1>3 DEF LossOps

(* copies and views.                                                       *)
LEMMA MovedPasses ==
    ASSUME NEW i, NEW g, Sane(g), Sane(X(i)), Op(i) \in MovedOps,
           Op(i) = "permute" => Arg(i) = <<2, 3, 1, 4>>
    PROVE  Passes(MovedBack(i, g))
<1>1. X(i).ne \in Shape
  BY DEF Sane
<1>2. Sane(cont(g))
  BY OneSourceSane
<1>3. Sane(reshape(g, X(i).ne)) /\ Sane(reshape(cont(g), X(i).ne))
  BY <1>1, <1>2, CopiedSane
<1>4. CASE Op(i) \in {"cpy", "transpose"}
  <2>1. Sane(transpose(g))
    BY TransposeSane
  <2>2. QED
    BY <1>3, <1>4, <2>1, PassesOn DEF MovedBack
<1>5. CASE Op(i) = "cont"
  <2> DEFINE e == IF are_same_shape(tensors[i], X(i)) THEN g ELSE reshape(g, X(i).ne)
             packed == is_contiguous(g)
  <2>1. MovedBack(i, g) = Add(Asserting(e, packed))
    BY <1>5 DEF MovedBack
  <2>2. Sane(e)
    BY <1>3
  <2> HIDE DEF e, packed
  <2>3. Sane(Asserting(e, packed))
    BY <2>2, AssertingSane
  <2>4. QED
    BY <2>1, <2>3, PassesOn
<1>6. CASE Op(i) = "reshape"
  <2>1. MovedBack(i, g) = Add(reshape(IF is_contiguous(g) THEN g ELSE cont(g), X(i).ne))
    BY <1>6 DEF MovedBack
  <2>2. QED
    BY <1>3, <2>1, PassesOn
<1>7. CASE Op(i) = "view"
  <2>1. MovedBack(i, g) = Acc(g, SubSeq(tensors[i].nb, 2, 4) \o <<Arg(i)[4]>>)
    BY <1>7 DEF MovedBack
  <2>2. QED
    BY <2>1, PassesOn
<1>8. CASE Op(i) = "permute"
  <2> DEFINE axis == [j \in Dims |-> CHOOSE k \in Dims : <<2, 3, 1, 4>>[k] = j]
             back == [j \in Dims |-> CHOOSE k \in Dims : Arg(i)[k] = j]
  <2>1. MovedBack(i, g) = Add(permute(g, axis))
    <3>1. MovedBack(i, g) = Add(permute(g, back))
      BY <1>8 DEF MovedBack
    <3>2. Arg(i) = <<2, 3, 1, 4>>
      BY <1>8
    <3>3. back = axis
      BY <3>2
    <3> HIDE DEF back, axis
    <3>4. QED
      BY <3>1, <3>3
  <2>2. Sane(permute(g, axis))
    BY PermuteSane
  <2> HIDE DEF axis
  <2>3. QED
    BY <2>1, <2>2, PassesOn
<1>9. QED
  BY <1>4, <1>5, <1>6, <1>7, <1>8 DEF MovedOps
-----------------------------------------------------------------------------
(* The part of the switch a node is handled by.                            *)
LEMMA PartOfSwitch ==
    ASSUME NEW i, NEW g, Op(i) \notin LeafKinds
    PROVE  /\ Op(i) \in {"dup", "add1"} \cup Elementwise => Contributions(i, g) = ArithmeticBack(i, g)
           /\ Op(i) \in {"mul_mat", "get_rows", "swiglu"} => Contributions(i, g) = ProductBack(i, g)
           /\ Op(i) \in {"acc", "set"} => Contributions(i, g) = BlockBack(i, g)
           /\ Op(i) \in FunctionOps => Contributions(i, g) = <<FunctionBack(i, g), Nothing>>
           /\ Op(i) \in UnaryOps => Contributions(i, g) = <<UnaryBack(i, g), Nothing>>
           /\ Op(i) \in ReductionOps => Contributions(i, g) = <<ReductionBack(i, g), Nothing>>
           /\ Op(i) \in LossOps => Contributions(i, g) = <<LossBack(i, g), Nothing>>
           /\ Op(i) \in MovedOps => Contributions(i, g) = <<MovedBack(i, g), Nothing>>
<1> USE DEF Contributions, LeafKinds, Elementwise, FunctionOps, UnaryOps, ReductionOps,
            LossOps, DiagMask, MovedOps
<1>1. CASE Op(i) \in {"dup", "add1"} \cup Elementwise
  BY <1>1
<1>2. CASE Op(i) \in {"mul_mat", "get_rows", "swiglu"}
  BY <1>2
<1>3. CASE Op(i) \in {"acc", "set"}
  BY <1>3
<1>4. CASE Op(i) \in FunctionOps
  BY <1>4
<1>5. CASE Op(i) \in UnaryOps
  BY <1>5
<1>6. CASE Op(i) \in ReductionOps
  BY <1>6
<1>7. CASE Op(i) \in LossOps
  BY <1>7
<1>8. CASE Op(i) \in MovedOps
  BY <1>8
<1>9. QED
  BY <1>1, <1>2, <1>3, <1>4, <1>5, <1>6, <1>7, <1>8

(* Every tensor of the graph lies in its memory.                           *)
ReachInv == \A i \in Tensors : Fits(tensors[i]) /\ Placed(tensors[i])

(* So does a reference to it.                                              *)
LEMMA RefSane ==
    ASSUME ReachInv, NEW i \in Tensors
    PROVE  Sane(Ref(i))
<1> DEFINE e == Ref(i)
<1>1. /\ Fields \subseteq DOMAIN e /\ e.src = <<>> /\ e.ne = tensors[i].ne
      /\ e.nb = tensors[i].nb /\ e.offs = tensors[i].offs /\ e.room = tensors[i].room
  BY DEF Ref, Fields
<1> HIDE DEF e
<1>2. Fits(e)
  BY <1>1 DEF ReachInv, Fits
<1>3. \A k \in DOMAIN e.src : Safe(e.src[k])
  <2>1. DOMAIN <<>> = {}
    OBVIOUS
  <2>2. QED
    BY <1>1, <2>1
<1>4. Sane(e)
  BY <1>1, <1>2, <1>3, MadeOfSafe DEF Sane, Fits
<1>5. QED
  BY <1>4 DEF e

(* A node that is supported hands on sane tensors.                         *)
LEMMA NodePasses ==
    ASSUME Inv, AcceptedInv, ReachInv, NEW i \in Tensors, NEW g, Sane(g),
           Good(g, tensors[i].ne), Op(i) \notin Unsupported,
           NEW k \in DOMAIN tensors[i].src, k \in {1, 2}
    PROVE  Passes(Contributions(i, g)[k])
<1>1. Accepted(tensors[i]) /\ Op(i) = tensors[i].op /\ Sane(Ref(i))
  BY RefSane DEF AcceptedInv, Op
<1>2. Op(i) \notin LeafKinds
  <2>1. DOMAIN <<>> = {}
    OBVIOUS
  <2>2. QED
    BY <1>1, <2>1, ByOperation
<1>3. \/ Op(i) \in {"dup", "add1"} \cup Elementwise
      \/ Op(i) \in {"mul_mat", "get_rows", "swiglu"}
      \/ Op(i) \in {"acc", "set"}
      \/ Op(i) \in FunctionOps
      \/ Op(i) \in UnaryOps
      \/ Op(i) \in ReductionOps
      \/ Op(i) \in LossOps
      \/ Op(i) \in MovedOps
  BY <1>1, <1>2, ByMovingOperation
     DEF LeafKinds, ShapeKept, Plain, Unary, DiagMask, Elementwise, Glu, RowsSummed,
         FunctionOps, UnaryOps, ReductionOps, LossOps, MovedOps, Unsupported
<1>4. ASSUME NEW ops, OneOf(tensors[i], ops)
      PROVE  Sane(X(i))
  <2>1. Source(i, 1) \in Tensors
    BY <1>4, OneSource
  <2>2. QED
    BY <2>1, RefSane DEF X
<1>5. ASSUME NEW ops, TwoOf(tensors[i], ops)
      PROVE  Sane(X(i)) /\ Sane(Y(i)) /\ X(i) = tensors[i].src[1] /\ Y(i) = tensors[i].src[2]
  <2>1. /\ Source(i, 1) \in Tensors /\ Source(i, 2) \in Tensors
        /\ X(i) = tensors[i].src[1] /\ Y(i) = tensors[i].src[2]
    BY <1>5, TwoSources
  <2>2. Sane(X(i)) /\ Sane(Y(i))
    BY <2>1, RefSane DEF X, Y
  <2>3. QED
    BY <2>1, <2>2
<1>6. ASSUME NEW c, Passes(c), Contributions(i, g) = <<c, Nothing>>
      PROVE  Passes(Contributions(i, g)[k])
  BY <1>6, PassesOn, FirstAndSecond
<1>7. CASE Op(i) \in {"dup", "add1"} \cup Elementwise
  <2>1. Sane(X(i)) /\ (Op(i) = "dup" \/ Sane(Y(i)))
    <3>1. CASE Op(i) = "dup"
      <4>1. OneOf(tensors[i], ShapeKept)
        BY <1>1, <3>1, ByOperation DEF ShapeKept, Plain
      <4>2. QED
        BY <1>4, <3>1, <4>1
    <3>2. CASE Op(i) \in {"add1"} \cup Elementwise
      <4>1. TwoOf(tensors[i], {"add1"}) \/ TwoOf(tensors[i], Elementwise)
        BY <1>1, <3>2, ByOperation
      <4>2. QED
        BY <1>5, <4>1
    <3>3. QED
      BY <1>7, <3>1, <3>2
  <2>2. Contributions(i, g) = ArithmeticBack(i, g)
    BY <1>2, <1>7, PartOfSwitch
  <2>3. QED
    BY <1>1, <1>7, <2>1, <2>2, ArithmeticPasses
<1>8. CASE Op(i) \in {"mul_mat", "get_rows", "swiglu"}
  <2>1. \/ TwoOf(tensors[i], {"mul_mat"}) \/ TwoOf(tensors[i], {"get_rows"})
        \/ TwoOf(tensors[i], Glu)
    BY <1>1, <1>8, ByOperation, ByProduct DEF Glu
  <2>2. Sane(X(i)) /\ Sane(Y(i)) /\ X(i) = tensors[i].src[1] /\ Y(i) = tensors[i].src[2]
    BY <1>5, <2>1
  <2>3. ASSUME Op(i) = "mul_mat" PROVE g.ne[3] % X(i).ne[3] = 0
    <3>1. /\ tensors[i].ne = <<X(i).ne[2], Y(i).ne[2], Y(i).ne[3], Y(i).ne[4]>>
          /\ BroadcastOver(X(i), Y(i))
      BY <1>1, <2>2, <2>3, ByProduct
    <3>2. g.ne[3] = Y(i).ne[3]
      BY <3>1 DEF Good
    <3>3. QED
      BY <3>1, <3>2 DEF BroadcastOver
  <2>4. Contributions(i, g) = ProductBack(i, g)
    BY <1>2, <1>8, PartOfSwitch
  <2>5. QED
    BY <1>8, <2>2, <2>3, <2>4, ProductPasses
<1>9. CASE Op(i) \in {"acc", "set"}
  <2>1. TwoOf(tensors[i], {"acc", "set"})
    BY <1>1, <1>9, ByOperation
  <2>2. Sane(Y(i)) /\ tensors[i].src[2] = Y(i) /\ Placed(tensors[i])
    BY <1>5, <2>1 DEF ReachInv
  <2>3. Contributions(i, g) = BlockBack(i, g)
    BY <1>2, <1>9, PartOfSwitch
  <2>4. QED
    BY <1>9, <2>2, <2>3, BlockPasses
<1>10. CASE Op(i) \in FunctionOps \cup UnaryOps
  <2>1. OneOf(tensors[i], ShapeKept)
    BY <1>1, <1>10, ByOperation DEF ShapeKept, Plain, Unary, FunctionOps, UnaryOps
  <2>2. Sane(X(i))
    BY <1>4, <2>1
  <2>3. CASE Op(i) \in FunctionOps
    <3>1. Contributions(i, g) = <<FunctionBack(i, g), Nothing>>
      BY <1>2, <2>3, PartOfSwitch
    <3>2. QED
      BY <1>1, <1>6, <2>2, <2>3, <3>1, FunctionPasses
  <2>4. CASE Op(i) \in UnaryOps
    <3>1. Contributions(i, g) = <<UnaryBack(i, g), Nothing>>
      BY <1>2, <2>4, PartOfSwitch
    <3>2. QED
      BY <1>1, <1>6, <2>2, <2>4, <3>1, UnaryPasses
  <2>5. QED
    BY <1>10, <2>3, <2>4
<1>11. CASE Op(i) \in ReductionOps
  <2>1. \/ OneOf(tensors[i], {"sum"}) \/ OneOf(tensors[i], RowsSummed)
        \/ OneOf(tensors[i], {"repeat"}) \/ OneOf(tensors[i], {"repeat_back"})
    BY <1>1, <1>11, ByReduction DEF ReductionOps, RowsSummed
  <2>2. Sane(X(i))
    BY <1>4, <2>1
  <2>3. Contributions(i, g) = <<ReductionBack(i, g), Nothing>>
    BY <1>2, <1>11, PartOfSwitch
  <2>4. QED
    BY <1>6, <1>11, <2>2, <2>3, ReductionPasses
<1>12. CASE Op(i) \in LossOps
  <2>1. \/ OneOf(tensors[i], ShapeKept) /\ Op(i) # "cross_entropy_loss"
        \/ TwoOf(tensors[i], {"soft_max"}) \/ TwoOf(tensors[i], {"cross_entropy_loss"})
    BY <1>1, <1>12, ByOperation, ByProduct DEF LossOps, DiagMask, ShapeKept
  <2>2. Sane(X(i)) /\ (Op(i) = "cross_entropy_loss" => Sane(Y(i)))
    BY <1>4, <1>5, <2>1
  <2>3. Contributions(i, g) = <<LossBack(i, g), Nothing>>
    BY <1>2, <1>12, PartOfSwitch
  <2>4. QED
    BY <1>1, <1>6, <1>12, <2>2, <2>3, LossPasses
<1>13. CASE Op(i) \in MovedOps
  <2>1. \/ OneOf(tensors[i], ShapeKept) \/ TwoOf(tensors[i], {"cpy"})
        \/ OneOf(tensors[i], {"reshape"}) \/ OneOf(tensors[i], {"view"})
        \/ OneOf(tensors[i], {"permute"}) \/ OneOf(tensors[i], {"transpose"})
    BY <1>1, <1>13, ByOperation, ByMovingOperation DEF MovedOps, ShapeKept
  <2>2. Sane(X(i))
    BY <1>4, <1>5, <2>1
  <2>3. Op(i) = "permute" => Arg(i) = <<2, 3, 1, 4>>
    BY <1>1, ByMovingOperation DEF Arg
  <2>4. Contributions(i, g) = <<MovedBack(i, g), Nothing>>
    BY <1>2, <1>13, PartOfSwitch
  <2>5. QED
    BY <1>6, <1>13, <2>2, <2>3, <2>4, MovedPasses
<1>14. QED
  BY <1>3, <1>7, <1>8, <1>9, <1>10, <1>11, <1>12, <1>13

(* Whatever is added to it, a gradient stays sane.                         *)
LEMMA ContributeSane ==
    ASSUME ReachInv, NEW gs, NEW s \in Tensors, NEW c,
           s \in DOMAIN gs => Sane(gs[s]), Passes(c)
    PROVE  s \in DOMAIN Contribute(gs, s, c) => Sane(Contribute(gs, s, c)[s])
<1>1. Sane(Ref(s)) /\ tensors[s].ne \in Shape
  BY RefSane DEF ReachInv, Fits
<1>2. ASSUME NEW e PROVE WithGradient(gs, s, e)[s] = e
  BY DEF WithGradient
<1> DEFINE inplace == s \in accs
<1>3. inplace \in BOOLEAN
  OBVIOUS
<1>4. CASE c.how = "nothing"
  BY <1>4 DEF Contribute
<1>5. CASE c.how = "add" /\ Sane(c.e)
  <2>1. s \in DOMAIN gs => Sane(add_impl(gs[s], c.e, inplace))
    BY <1>3, <1>5, TwoSourcesSane
  <2>2. Sane(add_or_set(gs, s, c.e))
    BY <1>5, <2>1 DEF add_or_set
  <2>3. Contribute(gs, s, c) = WithGradient(gs, s, add_or_set(gs, s, c.e))
    BY <1>5 DEF Contribute
  <2>4. QED
    BY <1>2, <2>2, <2>3
<1>6. CASE c.how = "sub" /\ Sane(c.e)
  <2>1. s \in DOMAIN gs => Sane(sub_impl(gs[s], c.e, inplace))
    BY <1>3, <1>6, TwoSourcesSane
  <2>2. Sane(unary("neg", c.e))
    BY <1>6, OneSourceSane
  <2>3. Sane(sub_or_set(gs, s, c.e))
    BY <2>1, <2>2 DEF sub_or_set
  <2>4. Contribute(gs, s, c) = WithGradient(gs, s, sub_or_set(gs, s, c.e))
    BY <1>6 DEF Contribute
  <2>5. QED
    BY <1>2, <2>3, <2>4
<1>7. CASE c.how = "add1" /\ Sane(c.e)
  <2>1. s \in DOMAIN gs => Sane(add1_impl(gs[s], c.e, inplace))
    BY <1>3, <1>7, TwoSourcesSane
  <2>2. Sane(repeat(c.e, tensors[s]))
    BY <1>1, <1>7, SummedSane
  <2>3. Sane(add1_or_set(gs, s, c.e))
    BY <2>1, <2>2 DEF add1_or_set
  <2>4. Contribute(gs, s, c) = WithGradient(gs, s, add1_or_set(gs, s, c.e))
    BY <1>7 DEF Contribute
  <2>5. QED
    BY <1>2, <2>3, <2>4
<1>8. CASE c.how = "acc" /\ Sane(c.e)
  <2> DEFINE zero == scale(Ref(s), <<0, 1>>)
  <2>1. s \in DOMAIN gs => Sane(acc_impl(gs[s], c.e, c.at, inplace))
    BY <1>3, <1>8, TwoSourcesSane
  <2>2. Sane(zero)
    BY <1>1, OneSourceSane
  <2>3. acc_or_set(gs, s, c.e, c.at)
          = IF s \in DOMAIN gs THEN acc_impl(gs[s], c.e, c.at, inplace)
            ELSE acc_impl(zero, c.e, c.at, FALSE)
    BY DEF acc_or_set
  <2> HIDE DEF zero, inplace
  <2>4. Sane(acc_impl(zero, c.e, c.at, FALSE))
    <3>1. FALSE \in BOOLEAN
      OBVIOUS
    <3>2. QED
      BY <1>8, <2>2, <3>1, TwoSourcesSane
  <2>5. Sane(acc_or_set(gs, s, c.e, c.at))
    BY <2>1, <2>3, <2>4
  <2>6. Contribute(gs, s, c) = WithGradient(gs, s, acc_or_set(gs, s, c.e, c.at))
    BY <1>8 DEF Contribute
  <2>7. QED
    BY <1>2, <2>5, <2>6
<1>9. QED
  BY <1>4, <1>5, <1>6, <1>7, <1>8 DEF Passes
-----------------------------------------------------------------------------
(* The gradients are sane, and stay so when a node is come to.             *)
AllSane(gs) == \A t \in DOMAIN gs : Sane(gs[t])

(* They stay sane while the node at i hands on to one of its sources.      *)
LEMMA AfterSourceSane ==
    ASSUME Inv, AcceptedInv, NeededInv, GoodGrads(grads), ReachInv, AllSane(grads),
           NEW gs, AllSane(gs),
           NEW i \in Tensors, i \in DOMAIN grads, Op(i) \notin Unsupported, NEW k
    PROVE  AllSane(AfterSource(gs, i, k))
<1> DEFINE s == Source(i, k)
           c == Contributions(i, grads[i])[k]
<1>1. CASE k \in DOMAIN tensors[i].src /\ s \in needed
  <2>1. AfterSource(gs, i, k) = Contribute(gs, s, c)
    BY <1>1 DEF AfterSource
  <2>2. k \in {1, 2}
    BY <1>1, NodeServes DEF Serves
  <2>3. Sane(grads[i]) /\ Good(grads[i], tensors[i].ne)
    BY DEF AllSane, GoodGrads
  <2>4. Passes(c)
    BY <1>1, <2>2, <2>3, NodePasses
  <2>5. s \in Tensors
    BY <1>1, SourceFields
  <2> HIDE DEF s, c
  <2>6. s \in DOMAIN Contribute(gs, s, c) => Sane(Contribute(gs, s, c)[s])
    BY <2>4, <2>5, ContributeSane DEF AllSane
  <2>7. /\ \A t \in DOMAIN gs \ {s} : Contribute(gs, s, c)[t] = gs[t]
        /\ DOMAIN Contribute(gs, s, c) \subseteq DOMAIN gs \cup {s}
    BY ContributeElsewhere
  <2>8. QED
    BY <2>1, <2>6, <2>7 DEF AllSane
<1>2. CASE ~(k \in DOMAIN tensors[i].src /\ s \in needed)
  BY <1>2 DEF AfterSource
<1>3. QED
  BY <1>1, <1>2
-----------------------------------------------------------------------------
(* The program makes a tensor that lies in its memory.                     *)
AppendsFitting == \E e : Fits(e) /\ Placed(e) /\ tensors' = Append(tensors, e)

(* It does so with every constructor that makes a sane tensor, but for     *)
(* those that set a block, whose place has to be known as well.            *)
LEMMA MakeFits ==
    ASSUME NEW e, Make(e), Sane(e), e.op \notin {"acc", "set"}
    PROVE  AppendsFitting
<1>1. e.ok /\ tensors' = Append(tensors, e)
  BY DEF Make
<1>2. Fits(e) /\ Placed(e)
  BY <1>1, SaneFits DEF Placed
<1>3. QED
  BY <1>1, <1>2 DEF AppendsFitting

(* Every action of the program does: element by element,                   *)
LEMMA PointwiseFits == ReachInv /\ (MakePointwise \/ MakeElementwise) => AppendsFitting
<1>1. SUFFICES ASSUME ReachInv, NEW i \in Usable, NEW j \in Usable, NEW op,
                      \/ op \in Plain /\ Make(plain(op, Ref(i)))
                      \/ op \in Unary /\ Make(unary(op, Ref(i)))
                      \/ op \in DiagMask /\ Make(diag_mask(op, Ref(i), 0))
                      \/ Make(scale_impl(Ref(i), <<3, 1>>, 1))
                      \/ Make(soft_max(Ref(i)))
                      \/ op \in Elementwise /\ Make(elementwise(op, Ref(i), Ref(j), FALSE))
                      \/ op \in Glu /\ Make(glu(op, Ref(i), Ref(j)))
                      \/ Make(add1_impl(Ref(i), Ref(j), FALSE))
                      \/ Make(soft_max_ext(Ref(i), Ref(j), <<3, 1>>))
               PROVE  AppendsFitting
  BY DEF MakePointwise, MakeElementwise
<1>2. Sane(Ref(i)) /\ Sane(Ref(j))
  BY <1>1, UsableExist, RefSane
<1>3. FALSE \in BOOLEAN
  OBVIOUS
<1>4. /\ Sane(plain(op, Ref(i))) /\ Sane(unary(op, Ref(i))) /\ Sane(diag_mask(op, Ref(i), 0))
      /\ Sane(scale_impl(Ref(i), <<3, 1>>, 1)) /\ Sane(soft_max(Ref(i)))
  BY <1>2, OneSourceSane
<1>5. /\ Sane(elementwise(op, Ref(i), Ref(j), FALSE))
      /\ Sane(add1_impl(Ref(i), Ref(j), FALSE))
  BY <1>2, <1>3, TwoSourcesSane
<1>6. Sane(glu(op, Ref(i), Ref(j))) /\ Sane(soft_max_ext(Ref(i), Ref(j), <<3, 1>>))
  BY <1>2, ApartSane
<1>7. CASE op \in Plain /\ Make(plain(op, Ref(i)))
  <2>1. plain(op, Ref(i)).op \notin {"acc", "set"}
    BY <1>7 DEF plain, Like, NewTensor, Plain
  <2>2. QED
    BY <1>4, <1>7, <2>1, MakeFits
<1>8. CASE op \in Unary /\ Make(unary(op, Ref(i)))
  <2>1. unary(op, Ref(i)).op \notin {"acc", "set"}
    BY <1>8 DEF unary, Like, NewTensor, Unary
  <2>2. QED
    BY <1>4, <1>8, <2>1, MakeFits
<1>9. CASE op \in DiagMask /\ Make(diag_mask(op, Ref(i), 0))
  <2>1. diag_mask(op, Ref(i), 0).op \notin {"acc", "set"}
    BY <1>9 DEF diag_mask, Like, NewTensor, DiagMask
  <2>2. QED
    BY <1>4, <1>9, <2>1, MakeFits
<1>10. CASE Make(scale_impl(Ref(i), <<3, 1>>, 1))
  <2>1. scale_impl(Ref(i), <<3, 1>>, 1).op \notin {"acc", "set"}
    BY DEF scale_impl, Like, NewTensor
  <2>2. QED
    BY <1>4, <1>10, <2>1, MakeFits
<1>11. CASE Make(soft_max(Ref(i)))
  <2>1. soft_max(Ref(i)).op \notin {"acc", "set"}
    BY DEF soft_max, Like, NewTensor
  <2>2. QED
    BY <1>4, <1>11, <2>1, MakeFits
<1>12. CASE op \in Elementwise /\ Make(elementwise(op, Ref(i), Ref(j), FALSE))
  <2>1. elementwise(op, Ref(i), Ref(j), FALSE).op \notin {"acc", "set"}
    BY <1>12 DEF elementwise, Like, NewTensor, Elementwise
  <2>2. QED
    BY <1>5, <1>12, <2>1, MakeFits
<1>13. CASE op \in Glu /\ Make(glu(op, Ref(i), Ref(j)))
  <2>1. glu(op, Ref(i), Ref(j)).op \notin {"acc", "set"}
    BY <1>13 DEF glu, Like, NewTensor, Glu
  <2>2. QED
    BY <1>6, <1>13, <2>1, MakeFits
<1>14. CASE Make(add1_impl(Ref(i), Ref(j), FALSE))
  <2>1. add1_impl(Ref(i), Ref(j), FALSE).op \notin {"acc", "set"}
    BY DEF add1_impl, Like, NewTensor
  <2>2. QED
    BY <1>5, <1>14, <2>1, MakeFits
<1>15. CASE Make(soft_max_ext(Ref(i), Ref(j), <<3, 1>>))
  <2>1. soft_max_ext(Ref(i), Ref(j), <<3, 1>>).op \notin {"acc", "set"}
    BY DEF soft_max_ext, Like, NewTensor
  <2>2. QED
    BY <1>6, <1>15, <2>1, MakeFits
<1>16. QED
  BY <1>1, <1>7, <1>8, <1>9, <1>10, <1>11, <1>12, <1>13, <1>14, <1>15

(* to another shape,                                                       *)
LEMMA ShapedFits ==
    ReachInv /\ (MakeReduction \/ MakeRepeat \/ MakeProduct \/ MakeGetRows) => AppendsFitting
<1>1. SUFFICES ASSUME ReachInv, NEW i \in Tensors, NEW j \in Tensors,
                      \/ Make(sum(Ref(i))) \/ Make(sum_rows(Ref(i))) \/ Make(mean(Ref(i)))
                      \/ Make(cross_entropy_loss(Ref(i), Ref(j)))
                      \/ Make(repeat(Ref(i), tensors[j])) \/ Make(repeat_back(Ref(i), tensors[j]))
                      \/ Make(mul_mat(Ref(i), Ref(j))) \/ Make(get_rows(Ref(i), Ref(j)))
               PROVE  AppendsFitting
  BY UsableExist DEF MakeReduction, MakeRepeat, MakeProduct, MakeGetRows
<1>2. Sane(Ref(i)) /\ Sane(Ref(j)) /\ tensors[j].ne \in Shape
  BY <1>1, RefSane DEF ReachInv, Fits
<1>3. /\ Sane(sum(Ref(i))) /\ Sane(sum_rows(Ref(i))) /\ Sane(mean(Ref(i)))
      /\ Sane(repeat(Ref(i), tensors[j])) /\ Sane(repeat_back(Ref(i), tensors[j]))
  BY <1>2, SummedSane
<1>4. /\ Sane(cross_entropy_loss(Ref(i), Ref(j)))
      /\ Sane(mul_mat(Ref(i), Ref(j))) /\ Sane(get_rows(Ref(i), Ref(j)))
  BY <1>2, ProductsSane
<1>5. /\ sum(Ref(i)).op = "sum" /\ sum_rows(Ref(i)).op = "sum_rows" /\ mean(Ref(i)).op = "mean"
  BY DEF sum, sum_rows, mean, NewTensor
<1>6. /\ repeat(Ref(i), tensors[j]).op = "repeat"
      /\ repeat_back(Ref(i), tensors[j]).op = "repeat_back"
  BY DEF repeat, repeat_back, NewTensor
<1>7. /\ cross_entropy_loss(Ref(i), Ref(j)).op = "cross_entropy_loss"
      /\ mul_mat(Ref(i), Ref(j)).op = "mul_mat" /\ get_rows(Ref(i), Ref(j)).op = "get_rows"
  BY DEF cross_entropy_loss, mul_mat, get_rows, NewTensor
<1>8. ASSUME NEW e, Make(e), Sane(e),
             e.op \in {"sum", "sum_rows", "mean", "repeat", "repeat_back",
                       "cross_entropy_loss", "mul_mat", "get_rows"}
      PROVE  AppendsFitting
  BY <1>8, MakeFits
<1>9. CASE Make(sum(Ref(i))) \/ Make(sum_rows(Ref(i))) \/ Make(mean(Ref(i)))
  BY <1>3, <1>5, <1>8, <1>9
<1>10. CASE Make(repeat(Ref(i), tensors[j])) \/ Make(repeat_back(Ref(i), tensors[j]))
  BY <1>3, <1>6, <1>8, <1>10
<1>11. CASE \/ Make(cross_entropy_loss(Ref(i), Ref(j)))
            \/ Make(mul_mat(Ref(i), Ref(j))) \/ Make(get_rows(Ref(i), Ref(j)))
  BY <1>4, <1>7, <1>8, <1>11
<1>12. QED
  BY <1>1, <1>9, <1>10, <1>11

(* into a block,                                                           *)
LEMMA WithBlockFits == ReachInv /\ MakeWithBlock => AppendsFitting
<1>1. SUFFICES ASSUME ReachInv, NEW i \in Usable, NEW j \in Usable,
                      NEW block \in Blocks(tensors[i].ne, Packed(tensors[i].ne)),
                      block[1] = tensors[j].ne,
                      \/ Make(acc_impl(Ref(i), Ref(j), block[2], FALSE))
                      \/ Make(set(Ref(i), Ref(j), block[2]))
               PROVE  AppendsFitting
  BY DEF MakeWithBlock
<1> DEFINE ne == tensors[i].ne
           at == block[2]
<1>2. i \in Tensors /\ j \in Tensors
  BY <1>1, UsableExist
<1>3. Sane(Ref(i)) /\ Sane(Ref(j)) /\ ne \in Shape /\ Ref(i).ne = ne /\ Ref(j).ne = block[1]
  BY <1>1, <1>2, RefSane DEF ReachInv, Fits, Ref
<1>4. /\ Strides(Packed(ne)) /\ Reach(ne, Packed(ne)) = Product(ne) - 1
      /\ Product(ne) \in Nat
  BY <1>3, PackedReach, ProductIsPositive
<1>5. /\ Packed(ne)[1] = 1
      /\ Packed(ne) = <<1, Packed(ne)[2], Packed(ne)[3], Packed(ne)[4]>>
  BY DEF Packed
<1>6. /\ block[1] \in Shape /\ at[4] \in Nat /\ RowStrides(at) = Packed(ne)
      /\ at[4] + Reach(block[1], RowStrides(at)) <= Reach(ne, Packed(ne))
  <2>1. /\ block[1] \in Shape /\ at[4] \in Nat
        /\ at[1] = Packed(ne)[2] /\ at[2] = Packed(ne)[3] /\ at[3] = Packed(ne)[4]
        /\ at[4] + Reach(block[1], RowStrides(at)) <= Reach(ne, Packed(ne))
    BY <1>1, <1>3, <1>4, <1>5, BlocksReach
  <2>2. RowStrides(at) = Packed(ne)
    BY <1>5, <2>1 DEF RowStrides
  <2>3. QED
    BY <2>1, <2>2
<1>7. at[4] + Reach(block[1], RowStrides(at)) < Product(ne)
  <2>1. Reach(block[1], RowStrides(at)) \in Nat
    BY <1>4, <1>6, ReachIsNatural
  <2>2. QED
    BY <1>4, <1>6, <2>1
<1> HIDE DEF ne, at
<1>8. ASSUME NEW e, Make(e), Sane(e), e.arg = at, e.ne = ne, e.src = <<Ref(i), Ref(j)>>
      PROVE  AppendsFitting
  <2>1. Placed(e)
    <3>1. e.src[2] = Ref(j)
      BY <1>8
    <3>2. QED
      BY <1>3, <1>6, <1>7, <1>8, <3>1 DEF Placed
  <2>2. e.ok /\ tensors' = Append(tensors, e)
    BY <1>8 DEF Make
  <2>3. QED
    BY <1>8, <2>1, <2>2, SaneFits DEF AppendsFitting
<1>9. CASE Make(acc_impl(Ref(i), Ref(j), block[2], FALSE))
  <2>1. Sane(acc_impl(Ref(i), Ref(j), at, FALSE))
    <3>1. FALSE \in BOOLEAN
      OBVIOUS
    <3>2. QED
      BY <1>3, <3>1, TwoSourcesSane
  <2>2. /\ acc_impl(Ref(i), Ref(j), at, FALSE).arg = at
        /\ acc_impl(Ref(i), Ref(j), at, FALSE).ne = ne
        /\ acc_impl(Ref(i), Ref(j), at, FALSE).src = <<Ref(i), Ref(j)>>
    BY <1>3 DEF acc_impl, Like, NewTensor
  <2>3. QED
    BY <1>8, <1>9, <2>1, <2>2 DEF at
<1>10. CASE Make(set(Ref(i), Ref(j), block[2]))
  <2>1. Sane(set(Ref(i), Ref(j), at))
    BY <1>3, ApartSane
  <2>2. /\ set(Ref(i), Ref(j), at).arg = at /\ set(Ref(i), Ref(j), at).ne = ne
        /\ set(Ref(i), Ref(j), at).src = <<Ref(i), Ref(j)>>
    BY <1>3 DEF set, Like, NewTensor
  <2>3. QED
    BY <1>8, <1>10, <2>1, <2>2 DEF at
<1>11. QED
  BY <1>1, <1>9, <1>10

(* and elsewhere: a view of a block stays as far inside as its tensor.     *)
LEMMA MovedFits == ReachInv /\ MakeMoved => AppendsFitting
<1>1. SUFFICES ASSUME ReachInv, NEW i \in Usable,
                      \/ Make(cont(Ref(i)))
                      \/ Make(transpose(Ref(i)))
                      \/ Make(permute(Ref(i), <<2, 3, 1, 4>>))
                      \/ Make(reshape(Ref(i), <<nelements(tensors[i]), 1, 1, 1>>))
                      \/ \E block \in Blocks(tensors[i].ne, tensors[i].nb) :
                            /\ tensors[i].nb[1] = 1 \/ block[1][1] = 1
                            /\ Make(view_4d(Ref(i), block[1], block[2]))
                      \/ \E j \in Tensors : Make(cpy(Ref(i), Ref(j)))
               PROVE  AppendsFitting
  BY DEF MakeMoved
<1>2. i \in Tensors /\ Sane(Ref(i))
  BY <1>1, UsableExist, RefSane
<1>3. CASE Make(cont(Ref(i)))
  <2>1. Sane(cont(Ref(i))) /\ cont(Ref(i)).op = "cont"
    BY <1>2, OneSourceSane DEF cont, Like, NewTensor
  <2>2. QED
    BY <1>3, <2>1, MakeFits
<1>4. CASE Make(transpose(Ref(i)))
  <2>1. Sane(transpose(Ref(i))) /\ transpose(Ref(i)).op = "transpose"
    BY <1>2, TransposeSane DEF transpose, NewView
  <2>2. QED
    BY <1>4, <2>1, MakeFits
<1>5. CASE Make(permute(Ref(i), <<2, 3, 1, 4>>))
  <2>1. Sane(permute(Ref(i), <<2, 3, 1, 4>>))
    BY <1>2, PermuteSane
  <2>2. permute(Ref(i), <<2, 3, 1, 4>>).op = "permute"
    BY DEF permute, NewView
  <2>3. QED
    BY <1>5, <2>1, <2>2, MakeFits
<1>6. CASE Make(reshape(Ref(i), <<nelements(tensors[i]), 1, 1, 1>>))
  <2> DEFINE ne == <<nelements(tensors[i]), 1, 1, 1>>
  <2>1. ne \in Shape
    BY <1>1, <1>2, ProductIsPositive, SizesAreShape DEF nelements, ReachInv, Fits
  <2> HIDE DEF ne
  <2>2. Sane(reshape(Ref(i), ne))
    BY <1>2, <2>1, CopiedSane
  <2>3. reshape(Ref(i), ne).op = "reshape"
    BY DEF reshape, NewView
  <2>4. Make(reshape(Ref(i), ne))
    BY <1>6 DEF ne
  <2>5. QED
    BY <2>2, <2>3, <2>4, MakeFits
<1>7. ASSUME NEW block \in Blocks(tensors[i].ne, tensors[i].nb),
             tensors[i].nb[1] = 1 \/ block[1][1] = 1,
             Make(view_4d(Ref(i), block[1], block[2]))
      PROVE  AppendsFitting
  <2> DEFINE a == Ref(i)
             ne == block[1]
             at == block[2]
  <2>1. Fits(tensors[i])
    BY <1>1, <1>2 DEF ReachInv
  <2>2. /\ a.ne = tensors[i].ne /\ a.nb = tensors[i].nb
        /\ a.offs = tensors[i].offs /\ a.room = tensors[i].room
    BY DEF Ref
  <2>3. /\ ne \in Shape /\ at[4] \in Nat
        /\ at[1] = a.nb[2] /\ at[2] = a.nb[3] /\ at[3] = a.nb[4]
        /\ at[4] + Reach(ne, RowStrides(at)) <= Reach(a.ne, a.nb)
    BY <1>7, <2>1, <2>2, BlocksReach DEF Fits
  <2> HIDE DEF a, ne, at
  <2>4. /\ a.offs \in Nat /\ a.room \in Nat /\ Strides(a.nb) /\ a.ne \in Shape
        /\ a.offs + Reach(a.ne, a.nb) < a.room
    BY <2>1, <2>2 DEF Fits
  <2>5. Strides(RowStrides(at))
    BY <2>3, <2>4 DEF Strides, RowStrides
  <2>6. Reach(ne, RowStrides(at)) \in Nat /\ Reach(a.ne, a.nb) \in Nat
    BY <2>3, <2>4, <2>5, ReachIsNatural
  <2>7. a.offs + at[4] + Reach(ne, RowStrides(at)) < a.room
    BY <2>3, <2>4, <2>6
  <2>8. Sane(view_4d(a, ne, at))
    BY <1>2, <2>3, <2>5, <2>7, ViewSane DEF a
  <2>9. view_4d(a, ne, at).op = "view"
    BY DEF view_4d, NewView
  <2>10. Make(view_4d(a, ne, at))
    BY <1>7 DEF a, ne, at
  <2>11. QED
    BY <2>8, <2>9, <2>10, MakeFits
<1>8. ASSUME NEW j \in Tensors, Make(cpy(Ref(i), Ref(j)))
      PROVE  AppendsFitting
  <2>1. Sane(Ref(j)) /\ Ref(j).ne \in Shape
    BY <1>1, RefSane DEF Sane
  <2>2. Sane(cpy(Ref(i), Ref(j)))
    BY <1>2, <2>1, CopiedSane
  <2>3. cpy(Ref(i), Ref(j)).op = "cpy"
    BY DEF cpy, NewView
  <2>4. QED
    BY <1>8, <2>2, <2>3, MakeFits
<1>9. QED
  BY <1>1, <1>3, <1>4, <1>5, <1>6, <1>7, <1>8

(* The leaves have memory of their own.                                    *)
LEMMA InitReach == Init => ReachInv
<1>1. SUFFICES ASSUME Init, NEW i \in Tensors
               PROVE  Fits(tensors[i]) /\ Placed(tensors[i])
  BY DEF ReachInv
<1>2. program.leaves \in Seq(LeafKinds \X Shape)
  BY <1>1, ProgramAssumption DEF Init, Shape
<1>3. PICK n \in Nat : DOMAIN program.leaves = 1 .. n
  BY <1>2
<1>4. tensors = [k \in 1 .. n |-> Leaf(program.leaves[k])]
  BY <1>1, <1>3 DEF Init
<1>5. i \in 1 .. n
  BY <1>4 DEF Tensors
<1>6. tensors[i] = Leaf(program.leaves[i]) /\ program.leaves[i] \in LeafKinds \X Shape
  BY <1>2, <1>3, <1>4, <1>5
<1>7. ASSUME NEW leaf \in LeafKinds \X Shape
      PROVE  Fits(Leaf(leaf)) /\ Placed(Leaf(leaf))
  <2>1. /\ leaf[2] \in Shape /\ leaf[1] \in LeafKinds
        /\ Leaf(leaf).op = leaf[1] /\ Leaf(leaf).ne = leaf[2]
        /\ Leaf(leaf).nb = Packed(leaf[2]) /\ Leaf(leaf).offs = 0
        /\ Leaf(leaf).room = Product(leaf[2])
    BY <1>7 DEF Leaf, NewTensor
  <2>2. /\ Strides(Packed(leaf[2])) /\ Reach(leaf[2], Packed(leaf[2])) = Product(leaf[2]) - 1
        /\ Product(leaf[2]) \in Nat
    BY <2>1, PackedReach, ProductIsPositive
  <2>3. QED
    BY <2>1, <2>2 DEF Fits, Placed, LeafKinds
<1>8. QED
  BY <1>6, <1>7

(* Every step keeps the tensors in their memory.                           *)
LEMMA NextReach == Inv /\ ReachInv /\ [Next]_vars => ReachInv'
<1>1. SUFFICES ASSUME Inv, ReachInv, [Next]_vars PROVE ReachInv'
  OBVIOUS
<1>2. CASE AppendsFitting
  <2>1. PICK e : Fits(e) /\ Placed(e) /\ tensors' = Append(tensors, e)
    BY <1>2 DEF AppendsFitting
  <2>2. PICK S : tensors \in Seq(S)
    BY <1>1 DEF Inv, IsSequence
  <2>3. /\ Tensors' = Tensors \cup {Len(tensors) + 1}
        /\ \A i \in Tensors : tensors'[i] = tensors[i]
        /\ tensors'[Len(tensors) + 1] = e
    BY <2>1, <2>2 DEF Tensors
  <2>4. QED
    BY <1>1, <2>1, <2>3 DEF ReachInv
<1>3. CASE UNCHANGED tensors
  BY <1>1, <1>3 DEF ReachInv, Tensors
<1>4. AppendsFitting \/ UNCHANGED tensors
  <2>1. CASE \/ MakePointwise \/ MakeElementwise \/ MakeReduction \/ MakeRepeat
             \/ MakeProduct \/ MakeGetRows \/ MakeWithBlock \/ MakeMoved
    BY <1>1, <2>1, PointwiseFits, ShapedFits, WithBlockFits, MovedFits
  <2>2. CASE \/ SetLoss \/ BackwardExpand \/ NothingToTrain \/ PassBy \/ ComputeBackward
             \/ Abort \/ UNCHANGED vars
    BY <2>2 DEF SetLoss, BackwardExpand, NothingToTrain, PassBy, ComputeBackward, Abort, vars
  <2>3. QED
    BY <1>1, <2>1, <2>2 DEF Next
<1>5. QED
  BY <1>2, <1>3, <1>4
-----------------------------------------------------------------------------
(* The inductive invariant.                                                *)
InsideInv == AbortsInv /\ ReachInv /\ AllSane(grads)

(* It holds before the first tensor is made.                               *)
LEMMA InitInside == Init => InsideInv
<1>1. SUFFICES ASSUME Init PROVE InsideInv
  OBVIOUS
<1>2. DOMAIN <<>> = {}
  OBVIOUS
<1>3. AllSane(grads)
  BY <1>1, <1>2 DEF Init, AllSane
<1>4. QED
  BY <1>1, <1>3, InitAborts, InitReach DEF InsideInv

(* Accumulators have memory of their own; what the walk hands on is sane.  *)
LEMMA NextInside == InsideInv /\ [Next]_vars => InsideInv'
<1>1. SUFFICES ASSUME InsideInv, [Next]_vars PROVE InsideInv'
  OBVIOUS
<1>2. /\ Inv /\ AcceptedInv /\ NeededInv /\ GoodGrads(grads) /\ ReachInv /\ AllSane(grads)
  BY <1>1 DEF InsideInv, AbortsInv
<1>3. AbortsInv' /\ ReachInv'
  BY <1>1, <1>2, NextAborts, NextReach DEF InsideInv
<1>4. AllSane(grads)'
  <2>1. CASE UNCHANGED grads
    BY <1>2, <2>1 DEF AllSane
  <2>2. CASE BackwardExpand
    <3>1. PICK given \in SUBSET (Params \cap InGraph) :
              grads' = [i \in given \cup losses |-> Accumulator(i)]
      BY <2>2 DEF BackwardExpand
    <3>2. given \cup losses \subseteq Tensors
      BY <1>2 DEF Inv, TypeOK, Params
    <3>3. ASSUME NEW i \in Tensors PROVE Sane(Accumulator(i))
      <4>1. tensors[i].ne \in Shape
        BY <1>2 DEF ReachInv, Fits
      <4>2. \A k \in DOMAIN <<>> : Sane(<<>>[k])
        OBVIOUS
      <4>3. QED
        BY <4>1, <4>2, NewTensorSane DEF Accumulator
    <3>4. QED
      BY <3>1, <3>2, <3>3 DEF AllSane
  <2>3. CASE ComputeBackward
    <3> DEFINE i == cursor
               one == AfterSource(grads, i, 1)
               two == AfterSource(one, i, 2)
    <3>1. i \in Tensors /\ i \in DOMAIN grads
      BY <1>2, <2>3, SameTensors DEF Inv, IsSequence, TypeOK, ComputeBackward, Tensors
    <3>2. Op(i) \notin Unsupported /\ grads' = two
      BY <2>3 DEF ComputeBackward, Succeeds, NodeAssertions, GradsAfter
    <3> HIDE DEF i
    <3>3. AllSane(one)
      BY <1>2, <3>1, <3>2, AfterSourceSane
    <3> HIDE DEF one
    <3>4. AllSane(two)
      BY <1>2, <3>1, <3>2, <3>3, AfterSourceSane
    <3>5. QED
      BY <3>2, <3>4 DEF AllSane
  <2>4. UNCHANGED grads \/ BackwardExpand \/ ComputeBackward
    <3>1. CASE \/ MakePointwise \/ MakeElementwise \/ MakeReduction \/ MakeRepeat
               \/ MakeProduct \/ MakeGetRows \/ MakeWithBlock \/ MakeMoved
      BY <3>1 DEF MakePointwise, MakeElementwise, MakeReduction, MakeRepeat, MakeProduct,
                  MakeGetRows, MakeWithBlock, MakeMoved, MayMake
    <3>2. CASE SetLoss \/ NothingToTrain \/ PassBy \/ Abort \/ UNCHANGED vars
      BY <3>2 DEF SetLoss, NothingToTrain, PassBy, Abort, vars
    <3>3. QED
      BY <1>1, <3>1, <3>2 DEF Next
  <2>5. QED
    BY <2>1, <2>2, <2>3, <2>4
<1>5. QED
  BY <1>3, <1>4 DEF InsideInv

(* At every step of the walk, each tensor a gradient is made from, however *)
(* deep, lies in its memory.                                               *)
PartsInside ==
    \A i \in DOMAIN grads, h \in Nat : \A e \in Parts(grads[i], h) : Within(e)

(* Sane gradients are made of tensors that lie in their memory.            *)
LEMMA SanePartsInside == InsideInv => PartsInside
<1>1. SUFFICES ASSUME InsideInv, NEW i \in DOMAIN grads, NEW h \in Nat
               PROVE  \A e \in Parts(grads[i], h) : Within(e)
  BY DEF PartsInside
<1>2. grads[i].ok /\ Sane(grads[i])
  BY <1>1 DEF InsideInv, AbortsInv, GoodGrads, Good, AllSane
<1>3. Safe(grads[i])
  BY <1>2 DEF Sane
<1>4. QED
  BY <1>3, PartsOfSafe

(* No tensor a gradient is made from, at any depth and at any step of the  *)
(* backward walk, reaches out of the memory it lies in: not even for       *)
(* strides that ggml_compute_backward() hands to ggml_view_4d(), which are *)
(* not asserted.                                                           *)
THEOREM PartsStayInside == Spec => []PartsInside
BY InitInside, NextInside, SanePartsInside, PTL DEF Spec

(* Every tensor a finished gradient is made from reads and writes inside   *)
(* the memory it lies in, also where ggml_view_4d() was handed strides     *)
(* that none of its assertions looks at.                                   *)
THEOREM GradientsStayInside == Spec => []GradientsInside
<1>1. InsideInv => GradientsInside
  <2>1. SUFFICES ASSUME InsideInv PROVE GradientsInside
    OBVIOUS
  <2>2. Height \in Nat
    <3>1. Len(tensors) \in Nat
      BY <2>1 DEF InsideInv, AbortsInv, Inv, IsSequence
    <3>2. QED
      BY <3>1 DEF Height
  <2>3. QED
    BY <2>1, <2>2, SanePartsInside DEF PartsInside, GradientsInside
<1>2. QED
  BY InitInside, NextInside, <1>1, PTL DEF Spec
=============================================================================
