---------------------------- MODULE TrainerProofs ---------------------------
(***************************************************************************)
(* What the training loop keeps for every number of batches and every      *)
(* TrainerConfig, with any number of restarts.                             *)
(***************************************************************************)
EXTENDS Trainer, TLAPS

(* A remainder is determined by the equation that defines it.              *)
LEMMA ModUnique ==
  ASSUME NEW G \in Nat \ {0}, NEW q \in Int, NEW r \in 0 .. G-1
  PROVE  (G * q + r) % G = r
<1> DEFINE n == G * q + r
<1> DEFINE p == n \div G
<1> DEFINE s == n % G
<1>0. n \in Int
  OBVIOUS
<1>1. n = G * p + s /\ s \in 0 .. G-1 /\ p \in Int
  BY <1>0, SMTT(20)
<1> HIDE DEF p, s
<1>2. CASE p >= q + 1
  <2>1. G * p >= G * (q + 1)
    BY <1>1, <1>2, SMTT(20)
  <2>2. G * (q + 1) = G * q + G
    BY SMTT(20)
  <2>3. QED BY <1>1, <2>1, <2>2, SMTT(20)
<1>3. CASE p <= q - 1
  <2>1. G * (p + 1) <= G * q
    BY <1>1, <1>3, SMTT(20)
  <2>2. G * (p + 1) = G * p + G
    BY <1>1, SMTT(20)
  <2>3. QED BY <1>1, <2>1, <2>2, SMTT(20)
<1>4. CASE p = q
  BY <1>1, <1>4, SMTT(20) DEF s
<1>5. QED BY <1>1, <1>2, <1>3, <1>4

(* Counting modulo G: one up, and back to 0 from G - 1.                    *)
LEMMA ModStep ==
  ASSUME NEW G \in Nat \ {0}, NEW n \in Nat
  PROVE  (n + 1) % G = IF (n % G) + 1 = G THEN 0 ELSE (n % G) + 1
<1> DEFINE q == n \div G
<1> DEFINE r == n % G
<1>1. n = G * q + r /\ r \in 0 .. G-1 /\ q \in Int
  BY SMTT(20)
<1> HIDE DEF q, r
<1>2. CASE r + 1 = G
  <2>1. n + 1 = G * (q + 1) + 0
    BY <1>1, <1>2, SMTT(20)
  <2>2. (G * (q + 1) + 0) % G = 0
    BY <1>1, ModUnique
  <2>3. QED BY <2>1, <2>2, <1>2 DEF r
<1>3. CASE r + 1 # G
  <2>1. n + 1 = G * q + (r + 1) /\ r + 1 \in 0 .. G-1
    BY <1>1, <1>3, SMTT(20)
  <2>2. (G * q + (r + 1)) % G = r + 1
    BY <1>1, <2>1, ModUnique
  <2>3. QED BY <2>1, <2>2, <1>3 DEF r
<1>4. QED BY <1>2, <1>3
-----------------------------------------------------------------------------
(* Types: an update that was made has a number, weights, moments and files *)
(* have the number of an update that was made, and a torn checkpoint is    *)
(* on the disk.                                                            *)
Checkpoint == [model : 0 .. updates, opt : -1 .. updates]

(* The loops over epochs and batches keep the types.                       *)
LEMMA TypesOfLoop ==
    ASSUME TypeOK, Epoch \/ NextBatch \/ SkipBatch \/ Train \/ StopTraining
    PROVE  TypeOK'
<1>1. UNCHANGED <<empty, gradients, parameters, files, crashes, global_step>>
  BY DEF Epoch, NextBatch, SkipBatch, Train, StopTraining
<1>2. /\ pc' \in {"idle", "epoch", "batch", "step", "save", "save_opt"}
      /\ pc' = "save_opt" => pc = "save_opt"
  BY DEF TypeOK, Epoch, NextBatch, SkipBatch, Train, StopTraining
<1>3. training_' \in BOOLEAN
  BY DEF TypeOK, Epoch, NextBatch, SkipBatch, Train, StopTraining
<1>4. index' \in 1 .. Batches + 1 /\ (pc' = "step" => index' <= Batches)
  <2>1. CASE Epoch \/ Train \/ StopTraining
    BY <2>1, ConfigAssumption DEF TypeOK, Epoch, Train, StopTraining
  <2>2. CASE NextBatch
    BY <2>2 DEF TypeOK, NextBatch
  <2>3. CASE SkipBatch
    BY <2>3, ConfigAssumption DEF TypeOK, SkipBatch
  <2>4. QED
    BY <2>1, <2>2, <2>3
<1>5. late' \in Nat \cup {-1}
  BY DEF TypeOK, Epoch, NextBatch, SkipBatch, Train, StopTraining, Late
<1>6. QED
  BY <1>1, <1>2, <1>3, <1>4, <1>5 DEF TypeOK, gradients, parameters, files

(* So does a step of training.                                             *)
LEMMA TypesOfStep ==
    ASSUME TypeOK, TrainStep
    PROVE  TypeOK'
<1>1. PICK is_large \in BOOLEAN :
         IF global_step % GradAccumSteps = 0
         THEN /\ applied_large' = LargeAfterClipping(is_large)
              /\ updates' = updates + 1
              /\ weights' = updates'
              /\ moments' = updates'
              /\ accum' = 0
              /\ large' = FALSE
              /\ tainted' = tainted
         ELSE /\ accum' = accum + 1
              /\ large' = is_large
              /\ UNCHANGED <<applied_large, parameters>>
  BY DEF TrainStep
<1>2. /\ updates' \in Nat /\ updates <= updates'
      /\ weights' \in 0 .. updates' /\ moments' \in 0 .. updates'
      /\ accum' \in Nat
  BY <1>1 DEF TypeOK, parameters
<1>3. tainted' \in BOOLEAN /\ large' \in BOOLEAN /\ applied_large' \in BOOLEAN
  BY <1>1 DEF TypeOK, parameters, LargeAfterClipping
<1>4. /\ disk' = disk
      /\ Checkpoint \subseteq [model : 0 .. updates', opt : -1 .. updates']
  BY <1>2 DEF TrainStep, files, Checkpoint, TypeOK
<1>5. disk' \in [DOMAIN disk' -> [model : 0 .. updates', opt : -1 .. updates']]
  BY <1>4 DEF TypeOK, Checkpoint
<1>6. /\ global_step' \in Nat
      /\ index' \in 1 .. Batches + 1
      /\ late' \in Nat \cup {-1}
  BY ConfigAssumption DEF TypeOK, TrainStep, Late
<1>7. QED
  BY <1>2, <1>3, <1>5, <1>6 DEF TypeOK, TrainStep, files

(* So does saving a checkpoint.                                            *)
LEMMA TypesOfSave ==
    ASSUME TypeOK, SaveModel \/ SaveOptimizer
    PROVE  TypeOK'
<1>1. disk' \in [DOMAIN disk' -> Checkpoint]
  <2>1. CASE disk' = disk
    BY <2>1 DEF TypeOK, Checkpoint
  <2>2. CASE SaveOptimizer
    <3>1. [disk[global_step] EXCEPT !.opt = moments] \in Checkpoint
      BY <2>2 DEF SaveOptimizer, TypeOK, Checkpoint
    <3>2. QED
      BY <2>2, <3>1 DEF SaveOptimizer, TypeOK, Checkpoint
  <2>3. CASE SaveModel /\ disk' # disk
    <3>1. disk' = [s \in DOMAIN disk \cup {global_step} |->
                     IF s # global_step THEN disk[s]
                     ELSE IF s \in DOMAIN disk
                     THEN [disk[s] EXCEPT !.model = weights]
                     ELSE [model |-> weights, opt |-> -1]]
      BY <2>3 DEF SaveModel
    <3>2. ASSUME NEW s \in DOMAIN disk
          PROVE  /\ disk[s] \in Checkpoint
                 /\ [disk[s] EXCEPT !.model = weights] \in Checkpoint
      BY DEF TypeOK, Checkpoint
    <3>3. [model |-> weights, opt |-> -1] \in Checkpoint
      BY DEF TypeOK, Checkpoint
    <3>4. QED
      BY <3>1, <3>2, <3>3
  <2>4. QED
    BY <2>1, <2>2, <2>3
<1>2. DOMAIN disk' \subseteq Nat /\ DOMAIN disk \subseteq DOMAIN disk'
  BY DEF TypeOK, SaveModel, SaveOptimizer
<1>3. torn' \subseteq DOMAIN disk'
  BY <1>2 DEF TypeOK, SaveModel, SaveOptimizer
<1>4. pc' = "save_opt" => global_step \in DOMAIN disk'
  BY DEF TypeOK, SaveModel, SaveOptimizer
<1>5. QED
  BY <1>1, <1>2, <1>3, <1>4
     DEF TypeOK, SaveModel, SaveOptimizer, gradients, parameters, Checkpoint

(* So does a crash, a restart, and loading a checkpoint.                   *)
LEMMA TypesOfRestart ==
    ASSUME TypeOK, Crash \/ \E s \in DOMAIN disk : LoadCheckpoint(s)
    PROVE  TypeOK'
<1>1. CASE Crash
  <2>1. torn' \subseteq DOMAIN disk' /\ crashes' \in 0 .. MaxCrashes
    BY <1>1, ConfigAssumption DEF TypeOK, Crash
  <2>2. /\ index' \in 1 .. Batches + 1 /\ global_step' \in Nat /\ accum' \in Nat
        /\ weights' \in 0 .. updates /\ moments' \in 0 .. updates
        /\ late' \in Nat \cup {-1}
    BY <1>1, ConfigAssumption DEF TypeOK, Crash
  <2>3. /\ pc' = "idle" /\ training_' \in BOOLEAN /\ tainted' \in BOOLEAN
        /\ large' \in BOOLEAN /\ applied_large' \in BOOLEAN
        /\ UNCHANGED <<empty, updates, disk>>
    BY <1>1 DEF Crash
  <2>4. QED
    BY <2>1, <2>2, <2>3 DEF TypeOK
<1>2. CASE \E s \in DOMAIN disk : LoadCheckpoint(s)
  <2>1. PICK s \in DOMAIN disk : LoadCheckpoint(s)
    BY <1>2
  <2>2. disk[s].model \in 0 .. updates /\ disk[s].opt \in -1 .. updates
    BY DEF TypeOK
  <2>3. moments' \in 0 .. updates /\ weights' \in 0 .. updates
        /\ tainted' \in BOOLEAN
    BY <2>1, <2>2 DEF LoadCheckpoint, TypeOK
  <2>4. QED
    BY <2>1, <2>3 DEF LoadCheckpoint, TypeOK, gradients, files
<1>3. QED
  BY <1>1, <1>2

(* Every variable keeps its shape: the loader's position stays in the      *)
(* epoch, and no file is newer than the last update.                       *)
THEOREM TypeCorrect == Spec => []TypeOK
<1>1. Init => TypeOK
  <2>1. SUFFICES ASSUME Init
                 PROVE  TypeOK
    OBVIOUS
  <2>2. DOMAIN disk = {}
    BY <2>1 DEF Init
  <2>3. disk \in [DOMAIN disk -> [model : 0 .. updates, opt : -1 .. updates]]
    BY <2>1, <2>2 DEF Init
  <2>4. /\ index \in 1 .. Batches + 1 /\ crashes \in 0 .. MaxCrashes
        /\ weights \in 0 .. updates /\ moments \in 0 .. updates
        /\ late \in Nat \cup {-1}
    BY <2>1, ConfigAssumption DEF Init
  <2>5. QED
    BY <2>1, <2>2, <2>3, <2>4 DEF Init, TypeOK
<1>2. TypeOK /\ [Next]_vars => TypeOK'
  <2>1. TypeOK /\ UNCHANGED vars => TypeOK'
    BY DEF TypeOK, vars
  <2>2. QED
    BY <2>1, TypesOfLoop, TypesOfStep, TypesOfSave, TypesOfRestart
       DEF Next, Loop
<1>3. QED
  BY <1>1, <1>2, PTL DEF Spec
-----------------------------------------------------------------------------
(* The steps an epoch has made are bounded by the batches it has taken.    *)
StepsInv ==
    /\ global_step \in Nat
    /\ index \in 1 .. Batches + 1
    /\ pc = "step" => index <= Batches
    /\ IF pc \in {"batch", "step", "save", "save_opt"}
       THEN global_step < MaxSteps + index - 1
       ELSE global_step = 0 \/ global_step < MaxSteps + Batches

(* max_steps is exceeded by less than an epoch (the while loop of          *)
(* Trainer::train() looks at it between epochs only).                      *)
THEOREM StepsStayBounded == Spec => []StepsBounded
<1> USE ConfigAssumption
<1>1. Init => StepsInv
  BY DEF Init, StepsInv
<1>2. StepsInv /\ [Next]_vars => StepsInv'
  <2> SUFFICES ASSUME StepsInv, [Next]_vars PROVE StepsInv'
    OBVIOUS
  <2>1. CASE Train        BY <2>1 DEF Train, StepsInv
  <2>2. CASE Epoch        BY <2>2 DEF Epoch, StepsInv
  <2>3. CASE NextBatch    BY <2>3 DEF NextBatch, StepsInv
  <2>4. CASE SkipBatch    BY <2>4 DEF SkipBatch, StepsInv
  <2>5. CASE TrainStep    BY <2>5 DEF TrainStep, StepsInv
  <2>6. CASE SaveModel    BY <2>6 DEF SaveModel, StepsInv
  <2>7. CASE SaveOptimizer BY <2>7 DEF SaveOptimizer, StepsInv
  <2>8. CASE StopTraining BY <2>8 DEF StopTraining, StepsInv
  <2>9. CASE Crash        BY <2>9 DEF Crash, StepsInv
  <2>10. ASSUME NEW s \in DOMAIN disk, LoadCheckpoint(s) PROVE StepsInv'
    BY <2>10 DEF LoadCheckpoint, StepsInv
  <2>11. CASE UNCHANGED vars
    BY <2>11 DEF vars, StepsInv
  <2>12. QED
    BY <2>1, <2>2, <2>3, <2>4, <2>5, <2>6, <2>7, <2>8, <2>9, <2>10, <2>11 DEF Next, Loop
<1>3. StepsInv => StepsBounded
  BY DEF StepsInv, StepsBounded
<1>4. QED BY <1>1, <1>2, <1>3, PTL DEF Spec
-----------------------------------------------------------------------------
(* A stop is seen before the next batch but one: a late step is counted    *)
(* only after it has left the point where training_ was read.              *)
LateInv ==
    /\ late \in Nat \cup {-1}
    /\ late >= 0 => training_ = FALSE
    /\ pc = "step" => late <= 0
    /\ late <= 1

(* After stop_training() at most one more train_step() is begun            *)
(* (training_ is read by the inner loop's condition, then next_batch()).   *)
THEOREM AtMostOneLateStep == Spec => []OneLateStep
<1>1. Init => LateInv
  BY DEF Init, LateInv
<1>2. LateInv /\ [Next]_vars => LateInv'
  <2> SUFFICES ASSUME LateInv, [Next]_vars PROVE LateInv'
    OBVIOUS
  <2>1. CASE Train        BY <2>1 DEF Train, LateInv
  <2>2. CASE Epoch        BY <2>2 DEF Epoch, LateInv
  <2>3. CASE NextBatch    BY <2>3 DEF NextBatch, LateInv
  <2>4. CASE SkipBatch    BY <2>4 DEF SkipBatch, Late, LateInv
  <2>5. CASE TrainStep    BY <2>5 DEF TrainStep, Late, LateInv
  <2>6. CASE SaveModel    BY <2>6 DEF SaveModel, LateInv
  <2>7. CASE SaveOptimizer BY <2>7 DEF SaveOptimizer, LateInv
  <2>8. CASE StopTraining BY <2>8 DEF StopTraining, LateInv
  <2>9. CASE Crash        BY <2>9 DEF Crash, LateInv
  <2>10. ASSUME NEW s \in DOMAIN disk, LoadCheckpoint(s) PROVE LateInv'
    BY <2>10 DEF LoadCheckpoint, LateInv
  <2>11. CASE UNCHANGED vars
    BY <2>11 DEF vars, LateInv
  <2>12. QED
    BY <2>1, <2>2, <2>3, <2>4, <2>5, <2>6, <2>7, <2>8, <2>9, <2>10, <2>11 DEF Next, Loop
<1>3. LateInv => OneLateStep
  BY DEF LateInv, OneLateStep
<1>4. QED BY <1>1, <1>2, <1>3, PTL DEF Spec
-----------------------------------------------------------------------------
(* A window of GradAccumSteps batches is counted by the steps made, of     *)
(* which the first is an update of its own.                                *)
WindowInv ==
    /\ global_step \in Nat
    /\ accum = IF global_step = 0 THEN 0 ELSE (global_step - 1) % GradAccumSteps

(* Every update but a process's first one is made from the gradients of    *)
(* GradAccumSteps batches (global_step_ % gradient_accumulation_steps in   *)
(* Trainer::train_step()), however train() is stopped and called again.    *)
THEOREM WindowsStayFull == Spec => WindowsFull
<1> USE ConfigAssumption
<1>1. Init => WindowInv
  BY DEF Init, WindowInv
<1>2. ASSUME WindowInv, TrainStep
      PROVE  /\ WindowInv'
             /\ updates' # updates =>
                  accum + 1 = IF global_step = 0 THEN 1 ELSE GradAccumSteps
  <2> DEFINE G == GradAccumSteps
  <2>1. G \in Nat \ {0} /\ global_step \in Nat /\ global_step' = global_step + 1
    BY <1>2 DEF WindowInv, TrainStep
  <2>2. CASE global_step = 0
    <3>1. global_step % G = 0
      BY <2>1, <2>2, ModUnique
    <3>2. accum' = 0 /\ accum = 0
      BY <1>2, <2>2, <3>1 DEF TrainStep, WindowInv
    <3>3. QED BY <2>1, <2>2, <3>1, <3>2 DEF WindowInv
  <2>3. CASE global_step # 0
    <3> DEFINE n == global_step - 1
    <3>1. n \in Nat /\ n + 1 = global_step /\ accum = n % G
      BY <1>2, <2>1, <2>3 DEF WindowInv
    <3>2. (n + 1) % G = IF (n % G) + 1 = G THEN 0 ELSE (n % G) + 1
      BY <2>1, <3>1, ModStep
    <3>3. global_step % G = IF accum + 1 = G THEN 0 ELSE accum + 1
      BY <3>1, <3>2
    <3>4. accum \in Nat
      BY <2>1, <3>1
    <3>5. accum' = global_step % G
      BY <1>2, <3>3, <3>4 DEF TrainStep
    <3>6. updates' # updates => accum + 1 = G
      BY <1>2, <3>3, <3>4 DEF TrainStep, parameters
    <3>7. global_step' # 0 /\ global_step' - 1 = global_step /\ global_step' \in Nat
      BY <2>1
    <3>8. WindowInv'
      BY <3>5, <3>7 DEF WindowInv
    <3>9. QED BY <2>3, <3>6, <3>8
  <2>4. QED BY <2>2, <2>3
<1>3. WindowInv /\ [Next]_vars
      => /\ WindowInv'
         /\ updates' # updates =>
              accum + 1 = IF global_step = 0 THEN 1 ELSE GradAccumSteps
  <2> SUFFICES ASSUME WindowInv, [Next]_vars, ~TrainStep
               PROVE  WindowInv' /\ updates' = updates
    BY <1>2
  <2>1. CASE Train        BY <2>1 DEF Train, WindowInv, gradients, parameters
  <2>2. CASE Epoch        BY <2>2 DEF Epoch, WindowInv, gradients, parameters
  <2>3. CASE NextBatch    BY <2>3 DEF NextBatch, WindowInv, gradients, parameters
  <2>4. CASE SkipBatch    BY <2>4 DEF SkipBatch, WindowInv, gradients, parameters
  <2>5. CASE SaveModel    BY <2>5 DEF SaveModel, WindowInv, gradients, parameters
  <2>6. CASE SaveOptimizer BY <2>6 DEF SaveOptimizer, WindowInv, gradients, parameters
  <2>7. CASE StopTraining BY <2>7 DEF StopTraining, WindowInv, gradients, parameters
  <2>8. CASE Crash        BY <2>8 DEF Crash, WindowInv
  <2>9. ASSUME NEW s \in DOMAIN disk, LoadCheckpoint(s)
        PROVE  WindowInv' /\ updates' = updates
    BY <2>9 DEF LoadCheckpoint, WindowInv, gradients
  <2>10. CASE UNCHANGED vars
    BY <2>10 DEF vars, WindowInv
  <2>11. QED
    BY <2>1, <2>2, <2>3, <2>4, <2>5, <2>6, <2>7, <2>8, <2>9, <2>10 DEF Next, Loop
<1>4. WindowInv /\ [Next]_vars
      => [updates' # updates =>
            accum + 1 = IF global_step = 0 THEN 1 ELSE GradAccumSteps]_vars
  BY <1>3
<1>5. QED BY <1>1, <1>3, <1>4, PTL DEF Spec, WindowsFull
-----------------------------------------------------------------------------
(* The optimizer lags behind the model only after a torn checkpoint was    *)
(* loaded; what save_checkpoint() has written of the model is current      *)
(* until it writes the optimizer.                                          *)
WholeInv ==
    /\ updates \in Nat /\ weights \in Nat /\ moments \in Nat
    /\ tainted \/ weights = moments
    /\ disk \in [DOMAIN disk -> [model : Nat, opt : Nat \cup {-1}]]
    /\ pc = "save_opt" =>
          /\ global_step \in DOMAIN disk
          /\ disk[global_step].model = weights
    /\ CheckpointsWhole

(* save_checkpoint() writes two files one after the other: only a process  *)
(* death between them, or a process that went on from what such a death    *)
(* left, can put a model on disk beside another update's optimizer.        *)
THEOREM CheckpointsStayWhole == Spec => []CheckpointsWhole
<1>1. Init => WholeInv
  BY DEF Init, WholeInv, CheckpointsWhole
<1>2. WholeInv /\ [Next]_vars => WholeInv'
  <2> SUFFICES ASSUME WholeInv, [Next]_vars PROVE WholeInv'
    OBVIOUS
  <2>1. CASE Train
    BY <2>1 DEF Train, WholeInv, CheckpointsWhole, parameters, files
  <2>2. CASE Epoch
    BY <2>2 DEF Epoch, WholeInv, CheckpointsWhole, parameters, files
  <2>3. CASE NextBatch
    BY <2>3 DEF NextBatch, WholeInv, CheckpointsWhole, parameters, files
  <2>4. CASE SkipBatch
    BY <2>4 DEF SkipBatch, WholeInv, CheckpointsWhole, parameters, files
  <2>5. CASE TrainStep
    BY <2>5 DEF TrainStep, WholeInv, CheckpointsWhole, parameters, files
  <2>6. CASE SaveModel
    <3>1. CASE pc' = "batch"
      BY <2>6, <3>1 DEF SaveModel, WholeInv, CheckpointsWhole, parameters
    <3>2. CASE pc' = "save_opt"
      <4> DEFINE D == DOMAIN disk \cup {global_step}
      <4> DEFINE Rec == [model : Nat, opt : Nat \cup {-1}]
      <4> DEFINE file(s) == IF s # global_step THEN disk[s]
                            ELSE IF s \in DOMAIN disk
                                 THEN [disk[s] EXCEPT !.model = weights]
                                 ELSE [model |-> weights, opt |-> -1]
      <4>1. disk' = [s \in D |-> file(s)]
        BY <2>6, <3>2 DEF SaveModel
      <4>2. ASSUME NEW s \in D PROVE file(s) \in Rec
        <5>1. CASE s \in DOMAIN disk
          <6>1. disk[s] \in Rec
            BY <5>1 DEF WholeInv
          <6>2. [disk[s] EXCEPT !.model = weights] \in Rec
            BY <6>1 DEF WholeInv
          <6>3. QED BY <5>1, <6>1, <6>2
        <5>2. CASE s \notin DOMAIN disk
          <6>1. [model |-> weights, opt |-> -1] \in Rec
            BY DEF WholeInv
          <6>2. QED BY <4>2, <5>2, <6>1
        <5>3. QED BY <5>1, <5>2
      <4>3. file(global_step).model = weights
        <5>1. ASSUME global_step \in DOMAIN disk
              PROVE  [disk[global_step] EXCEPT !.model = weights].model = weights
          <6>1. disk[global_step] \in Rec
            BY <5>1 DEF WholeInv
          <6>2. QED BY <6>1
        <5>2. QED BY <5>1
      <4>4. \A s \in D : s # global_step => file(s) = disk[s] /\ s \in DOMAIN disk
        OBVIOUS
      <4> HIDE DEF file
      <4>5. /\ disk' \in [DOMAIN disk' -> Rec]
            /\ global_step' \in DOMAIN disk'
            /\ disk'[global_step'].model = weights'
        BY <2>6, <4>1, <4>2, <4>3 DEF SaveModel, parameters
      <4>6. CheckpointsWhole'
        <5> SUFFICES ASSUME NEW s \in D, s # global_step
                     PROVE  disk[s].model = disk[s].opt \/ s \in torn
          BY <2>6, <3>2, <4>1, <4>4 DEF SaveModel, CheckpointsWhole
        <5>1. QED BY <2>6, <4>4 DEF SaveModel, WholeInv, CheckpointsWhole
      <4>7. QED BY <2>6, <4>5, <4>6 DEF SaveModel, WholeInv, parameters
    <3>3. QED BY <2>6, <3>1, <3>2 DEF SaveModel
  <2>7. CASE SaveOptimizer
    <3> DEFINE Rec == [model : Nat, opt : Nat \cup {-1}]
    <3> DEFINE file == [disk[global_step] EXCEPT !.opt = moments]
    <3>1. /\ global_step \in DOMAIN disk /\ disk[global_step] \in Rec
          /\ disk[global_step].model = weights
      BY <2>7 DEF SaveOptimizer, WholeInv
    <3>2. file \in Rec /\ file.model = weights /\ file.opt = moments
      BY <3>1 DEF WholeInv
    <3>3. disk' = [disk EXCEPT ![global_step] = file]
      BY <2>7 DEF SaveOptimizer
    <3> HIDE DEF file
    <3>4. DOMAIN disk' = DOMAIN disk /\ disk' \in [DOMAIN disk' -> Rec]
      BY <3>1, <3>2, <3>3 DEF WholeInv
    <3>5. CheckpointsWhole'
      <4> SUFFICES ASSUME NEW s \in DOMAIN disk
                   PROVE  disk'[s].model = disk'[s].opt \/ s \in torn'
        BY <3>4 DEF CheckpointsWhole
      <4>1. CASE s = global_step
        BY <2>7, <3>1, <3>2, <3>3, <4>1 DEF SaveOptimizer, WholeInv
      <4>2. CASE s # global_step
        BY <2>7, <3>3, <4>2 DEF SaveOptimizer, WholeInv, CheckpointsWhole
      <4>3. QED BY <4>1, <4>2
    <3>6. QED BY <2>7, <3>4, <3>5 DEF SaveOptimizer, WholeInv, parameters
  <2>8. CASE StopTraining
    BY <2>8 DEF StopTraining, WholeInv, CheckpointsWhole, parameters, files
  <2>9. CASE Crash
    BY <2>9 DEF Crash, WholeInv, CheckpointsWhole
  <2>10. ASSUME NEW s \in DOMAIN disk, LoadCheckpoint(s) PROVE WholeInv'
    <3>1. disk[s].model \in Nat /\ disk[s].opt \in Nat \cup {-1}
      BY DEF WholeInv
    <3>2. s \in torn \/ disk[s].model = disk[s].opt
      BY <2>10 DEF LoadCheckpoint, WholeInv, CheckpointsWhole
    <3>3. /\ weights' = disk[s].model
          /\ moments' = IF disk[s].opt = -1 THEN moments ELSE disk[s].opt
          /\ UNCHANGED <<pc, global_step, updates, disk, torn>>
      BY <2>10 DEF LoadCheckpoint, files
    <3>4. tainted' <=> s \in torn
      BY <2>10, Zenon DEF LoadCheckpoint
    <3>5. s \in torn \/ weights' = moments'
      BY <3>1, <3>2, <3>3
    <3>6. tainted' \/ weights' = moments'
      BY <3>4, <3>5
    <3>7. weights' \in Nat /\ moments' \in Nat
      BY <3>1, <3>3 DEF WholeInv
    <3>8. pc' # "save_opt"
      BY <2>10 DEF LoadCheckpoint
    <3>9. QED
      BY <3>3, <3>6, <3>7, <3>8 DEF WholeInv, CheckpointsWhole
  <2>11. CASE UNCHANGED vars
    BY <2>11 DEF vars, WholeInv, CheckpointsWhole
  <2>12. QED
    BY <2>1, <2>2, <2>3, <2>4, <2>5, <2>6, <2>7, <2>8, <2>9, <2>10, <2>11 DEF Next, Loop
<1>3. WholeInv => CheckpointsWhole
  BY DEF WholeInv
<1>4. QED BY <1>1, <1>2, <1>3, PTL DEF Spec
=============================================================================
