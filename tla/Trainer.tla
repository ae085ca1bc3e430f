------------------------------- MODULE Trainer ------------------------------
(***************************************************************************)
(* The training loop of training/nova_trainer.cpp (src/main/remaining/     *)
(* train.ii): epochs over the batches of a data loader, gradients          *)
(* accumulated over several batches, checkpoints of two files.  Another    *)
(* thread may call stop_training() between any two steps of the loop, and  *)
(* the process may die and be started again from a checkpoint.             *)
(*                                                                         *)
(* Model, optimizer and data loader are classes without a definition in    *)
(* the repository; they are modelled from how the trainer calls them.      *)
(* early_stop_ is false for ever (its setter has no definition), eval()    *)
(* and the logging only report; the three are left out, and so is epoch,   *)
(* which nothing reads.  A gradient's norm is told apart from              *)
(* max_grad_norm only.                                                     *)
(***************************************************************************)
EXTENDS Integers

CONSTANTS Batches,     (* the batches of an epoch                           *)
          MaxSteps, GradAccumSteps, SaveSteps,            (* TrainerConfig  *)
          MaxCrashes   (* bound: how often the process dies                 *)

ASSUME ConfigAssumption ==
    /\ Batches \in Nat
    /\ MaxSteps \in Nat
    /\ GradAccumSteps \in Nat \ {0} /\ SaveSteps \in Nat \ {0}
    /\ MaxCrashes \in Nat

VARIABLES
    pc,            (* where train() is; "idle" when it is not running       *)
    training_,
    global_step,
    empty,         (* the batches of the epoch that hold no data            *)
    index,         (* the data loader's next batch                          *)
    accum,         (* batches whose gradients were added since zero_grad()  *)
    large,         (* the norm of those gradients exceeds max_grad_norm     *)
    applied_large, (* so did the gradients optimizer_->step() last applied  *)
    weights,       (* the update that gave the model its weights            *)
    moments,       (* the update that gave the optimizer its state          *)
    updates,       (* ghost: updates ever made                              *)
    disk,          (* step -> the checkpoint of that name                   *)
    tainted,       (* ghost: the process went on from a torn checkpoint     *)
    torn,          (* ghost: checkpoints whose save a crash interrupted, and*)
                   (* what processes that went on from one have saved since *)
    late,          (* ghost: steps begun after stop_training(), or -1       *)
    crashes

vars == <<pc, training_, global_step, empty, index, accum, large, applied_large,
          weights, moments, updates, disk, tainted, torn, late, crashes>>
gradients == <<accum, large, applied_large>>
parameters == <<weights, moments, updates, tainted>>
files == <<disk, torn>>
-----------------------------------------------------------------------------
Init ==
    /\ pc = "idle"
    /\ training_ = FALSE
    /\ global_step = 0
    /\ empty \in SUBSET (1 .. Batches)
    /\ index = 1
    /\ accum = 0
    /\ large = FALSE
    /\ applied_large = FALSE
    /\ weights = 0
    /\ moments = 0
    /\ updates = 0
    /\ disk = [s \in {} |-> <<>>]
    /\ tainted = FALSE
    /\ torn = {}
    /\ late = -1
    /\ crashes = 0

(* train() is called; a stop that came before is forgotten.                *)
Train ==
    /\ pc = "idle"
    /\ training_' = TRUE
    /\ late' = -1
    /\ pc' = "epoch"
    /\ UNCHANGED <<global_step, empty, index, gradients, parameters, files, crashes>>

(* stop_training() of another thread.                                      *)
StopTraining ==
    /\ training_' = FALSE
    /\ late' = IF pc = "idle" \/ late >= 0 THEN late ELSE 0
    /\ UNCHANGED <<pc, global_step, empty, index, gradients, parameters, files, crashes>>

(* Mutated form: max_steps is met once more.                               *)
EpochOneMore ==
    /\ pc = "epoch"
    /\ IF training_ /\ global_step <= MaxSteps
       THEN pc' = "batch" /\ index' = 1
       ELSE pc' = "idle" /\ index' = index
    /\ UNCHANGED <<training_, global_step, empty, gradients, parameters, files, late, crashes>>

(* Mutated form: the flag is looked at between batches only.               *)
EpochIgnoresStop ==
    /\ pc = "epoch"
    /\ IF global_step < MaxSteps
       THEN pc' = "batch" /\ index' = 1
       ELSE pc' = "idle" /\ index' = index
    /\ UNCHANGED <<training_, global_step, empty, gradients, parameters, files, late, crashes>>

(* The outer loop: max_steps is looked at between epochs only.             *)
Epoch ==
    /\ pc = "epoch"
    /\ IF training_ /\ global_step < MaxSteps
       THEN pc' = "batch" /\ index' = 1
       ELSE pc' = "idle" /\ index' = index
    /\ UNCHANGED <<training_, global_step, empty, gradients, parameters, files, late, crashes>>

(* Mutated form: the flag is looked at between epochs only.                *)
NextBatchIgnoresStop ==
    /\ pc = "batch"
    /\ pc' = IF index <= Batches THEN "step" ELSE "epoch"
    /\ UNCHANGED <<training_, global_step, empty, index, gradients, parameters, files,
                   late, crashes>>

(* The inner loop's condition; a stop between it and the step is late.     *)
NextBatch ==
    /\ pc = "batch"
    /\ pc' = IF index <= Batches /\ training_ THEN "step" ELSE "epoch"
    /\ UNCHANGED <<training_, global_step, empty, index, gradients, parameters, files,
                   late, crashes>>

Late == IF late >= 0 THEN late + 1 ELSE late

(* Mutated form: an empty batch counts as a step.                          *)
SkipBatchCounts ==
    /\ pc = "step"
    /\ index \in empty
    /\ index' = index + 1
    /\ late' = Late
    /\ pc' = "save"
    /\ global_step' = global_step + 1
    /\ UNCHANGED <<training_, empty, gradients, parameters, files, crashes>>

(* train_step() with an empty batch: an early return, no step is counted.  *)
SkipBatch ==
    /\ pc = "step"
    /\ index \in empty
    /\ index' = index + 1
    /\ late' = Late
    /\ pc' = "save"
    /\ UNCHANGED <<training_, global_step, empty, gradients, parameters, files, crashes>>

(* apply_grad_clipping(): get_gradients() is copied, the copy is scaled.   *)
LargeAfterClipping(is_large) == is_large

(* train_step(): the gradients are added up, every GradAccumSteps-th step, *)
(* the first one included, clips, updates and clears them.                 *)
TrainStep ==
    /\ pc = "step"
    /\ index \notin empty
    /\ index' = index + 1
    /\ \E is_large \in BOOLEAN :
         IF global_step % GradAccumSteps = 0
         THEN /\ applied_large' = LargeAfterClipping(is_large)
              /\ updates' = updates + 1
              /\ weights' = updates'
              /\ moments' = updates'
              /\ accum' = 0
              /\ large' = FALSE
              /\ tainted' = tainted
         ELSE /\ accum' = accum + 1
              /\ large' = is_large
              /\ UNCHANGED <<applied_large, parameters>>
    /\ global_step' = global_step + 1
    /\ late' = Late
    /\ pc' = "save"
    /\ UNCHANGED <<training_, empty, files, crashes>>

(* save_checkpoint(): the model's file first, under the name of the step;  *)
(* a checkpoint of that name is overwritten.                               *)
SaveModel ==
    /\ pc = "save"
    /\ IF global_step % SaveSteps = 0 /\ global_step > 0
       THEN /\ disk' = [s \in DOMAIN disk \cup {global_step} |->
                          IF s # global_step THEN disk[s]
                          ELSE IF s \in DOMAIN disk THEN [disk[s] EXCEPT !.model = weights]
                          ELSE [model |-> weights, opt |-> -1]]
            /\ pc' = "save_opt"
       ELSE UNCHANGED disk /\ pc' = "batch"
    /\ UNCHANGED <<training_, global_step, empty, index, gradients, parameters, torn, late, crashes>>

(* Mutated form: the optimizer is saved only when the file is new.         *)
SaveOptimizerOnce ==
    /\ pc = "save_opt"
    /\ disk' = IF disk[global_step].opt = -1
               THEN [disk EXCEPT ![global_step].opt = moments] ELSE disk
    /\ torn' = IF tainted THEN torn \cup {global_step} ELSE torn \ {global_step}
    /\ pc' = "batch"
    /\ UNCHANGED <<training_, global_step, empty, index, gradients, parameters, late, crashes>>

(* save_checkpoint(): then the optimizer's.                                *)
SaveOptimizer ==
    /\ pc = "save_opt"
    /\ disk' = [disk EXCEPT ![global_step].opt = moments]
    /\ torn' = IF tainted THEN torn \cup {global_step} ELSE torn \ {global_step}
    /\ pc' = "batch"
    /\ UNCHANGED <<training_, global_step, empty, index, gradients, parameters, late, crashes>>

(* load_checkpoint(), while train() is not running; a missing optimizer    *)
(* file leaves the optimizer as it is.                                     *)
LoadCheckpoint(s) ==
    /\ pc = "idle"
    /\ weights' = disk[s].model
    /\ moments' = IF disk[s].opt = -1 THEN moments ELSE disk[s].opt
    /\ tainted' = (s \in torn)
    /\ UNCHANGED <<pc, training_, global_step, empty, index, gradients, updates, files, late, crashes>>

(* The process dies; what starts again has no step count and no state.     *)
Crash ==
    /\ crashes < MaxCrashes
    /\ crashes' = crashes + 1
    /\ pc' = "idle"
    /\ training_' = FALSE
    /\ global_step' = 0
    /\ index' = 1
    /\ accum' = 0
    /\ large' = FALSE
    /\ applied_large' = FALSE
    /\ weights' = 0
    /\ moments' = 0
    /\ tainted' = FALSE
    /\ torn' = IF pc = "save_opt" THEN torn \cup {global_step} ELSE torn
    /\ late' = -1
    /\ UNCHANGED <<empty, updates, disk>>

Loop == Epoch \/ NextBatch \/ SkipBatch \/ TrainStep \/ SaveModel \/ SaveOptimizer

Next ==
    \/ Train \/ Loop \/ StopTraining \/ Crash
    \/ \E s \in DOMAIN disk : LoadCheckpoint(s)

Spec == Init /\ [][Next]_vars

(* The thread inside train() keeps running.                                *)
FairSpec == Spec /\ WF_vars(Loop)
-----------------------------------------------------------------------------
(* Every variable keeps its shape.                                         *)
TypeOK ==
    /\ pc \in {"idle", "epoch", "batch", "step", "save", "save_opt"}
    /\ training_ \in BOOLEAN
    /\ global_step \in Nat
    /\ empty \subseteq 1 .. Batches
    /\ index \in 1 .. Batches + 1
    /\ pc = "step" => index <= Batches
    /\ accum \in Nat
    /\ large \in BOOLEAN /\ applied_large \in BOOLEAN
    /\ updates \in Nat /\ weights \in 0 .. updates /\ moments \in 0 .. updates
    /\ disk \in [DOMAIN disk -> [model : 0 .. updates, opt : -1 .. updates]]
    /\ DOMAIN disk \subseteq Nat
    /\ tainted \in BOOLEAN
    /\ torn \subseteq DOMAIN disk
    /\ pc = "save_opt" => global_step \in DOMAIN disk
    /\ late \in Nat \cup {-1}
    /\ crashes \in 0 .. MaxCrashes

(* Every update is made from the gradients of GradAccumSteps batches, only *)
(* the first of a process from one batch: also when batches are empty,     *)
(* train() is stopped in the middle of a window and called again.          *)
WindowsFull ==
    [][updates' # updates => accum + 1 = IF global_step = 0 THEN 1 ELSE GradAccumSteps]_vars

(* max_steps is exceeded by less than an epoch.                            *)
StepsBounded == global_step = 0 \/ global_step < MaxSteps + Batches

(* After stop_training() one more step is made at most.                    *)
OneLateStep == late <= 1

(* A checkpoint holds the model and the optimizer of the same update,      *)
(* unless it is being written, a crash interrupted the writing, or it was  *)
(* saved by a process that had loaded such a checkpoint.                   *)
CheckpointsWhole ==
    \A s \in DOMAIN disk : \/ disk[s].model = disk[s].opt
                           \/ pc = "save_opt" /\ s = global_step
                           \/ s \in torn

(* train() returns, unless an epoch has no batch with data: it then goes   *)
(* round for ever, until stop_training(), which ends it in every case.     *)
TrainReturns ==
    /\ pc # "idle" ~> pc = "idle" \/ empty = 1 .. Batches
    /\ late = 0 ~> pc = "idle"

(* train_step()'s "Clip gradients": what optimizer_->step() applies does   *)
(* not exceed max_grad_norm.                                               *)
UpdatesClipped == ~applied_large
=============================================================================
