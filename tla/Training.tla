------------------------------ MODULE Training ------------------------------
(***************************************************************************)
(* What src/src/main.c does with the pairs: split makes the train, test    *)
(* and validation sets (merge_set mixes similar and different pairs by     *)
(* unique random numbers), train_model goes through the epochs in mini     *)
(* batches, keeps a copy of the model per epoch and stops early.           *)
(*                                                                         *)
(* A pair is its relation and its index, a model the number of times       *)
(* lr_train has worked on it, a loss any number.                           *)
(***************************************************************************)
EXTENDS UniqueRand, FiniteSets, Sequences

CONSTANTS Sizes,            \* similar_sz and different_sz
          Rands,            \* what rand_r(123456) may be
          Losses,           \* what calc_med_loss may return
          epochs, batch_size,
          Unset, Garbage, NoUR, NoModel

Pairs == {0, 1} \X Nat

\* The URand objects for the numbers from 0 to n at most.
URands(n) ==
    [min : {0}, max : 0..n, length : 0..(n + 1),
     values : UNION {[0..m -> 0..m] : m \in 0..n}]

ASSUME TrainingAssumption ==
    /\ Sizes \subseteq Nat \X Nat /\ Rands \subseteq Nat /\ Losses \subseteq Int
    /\ epochs \in Nat \ {0} /\ batch_size \in Nat \ {0}
    /\ \A p \in Sizes : NoUR \notin URands(p[1] + p[2])
    /\ Unset \notin Pairs \cup {Garbage} /\ NoModel \notin Nat

VARIABLES similar_sz, different_sz, rand,
          pc,
          which, set,       \* the set being merged, of the three
          i,                \* the loop index of merge_set, prepare_set
          ur,               \* the URand object in use
          drawn,            \* history: its numbers since it was new or reset
          e, j,             \* the loop indices of train_model
          med_losses,
          trained,          \* the model that is trained
          models, kept,     \* the copies; what *model is after the loop
          freed             \* history: the epochs whose copies were freed

data  == <<similar_sz, different_sz, rand>>
merge == <<which, set>>
model == <<med_losses, trained, models, kept, freed>>
vars  == <<data, merge, model, pc, i, ur, drawn, e, j>>

-----------------------------------------------------------------------------
(* split *)

SetNames == {"train", "test", "val"}

\* Half of the pairs, and even.
TrainSize(n) == IF (n \div 2) % 2 = 1 THEN n \div 2 - 1 ELSE n \div 2

\* The second half of the rest is as large as the first.
Share(n, s) == IF s = "train" THEN TrainSize(n) ELSE (n - TrainSize(n)) \div 2

SetSize(s) == Share(similar_sz, s) + Share(different_sz, s)

split ==
    /\ \E p \in Sizes : similar_sz = p[1] /\ different_sz = p[2]
    /\ rand \in Rands
    /\ pc = "merge" /\ which = "train"
    /\ set = [s \in SetNames |-> [x \in 0..(SetSize(s) - 1) |-> Unset]]
    /\ i = 0 /\ ur = NoUR /\ drawn = <<>>
    /\ e = 0 /\ j = 0
    /\ med_losses = <<>> /\ trained = 0
    /\ models = [x \in 0..(epochs - 1) |-> NoModel] /\ kept = NoModel
    /\ freed = {}

\* ur_create, with its assertion.
Create(max) ==
    IF max > 0 THEN ur' = ur_create(0, max) /\ drawn' = <<>> /\ UNCHANGED pc
               ELSE pc' = "aborted" /\ UNCHANGED <<ur, drawn>>

Get ==
    LET g == ur_get(ur, rand)
    IN  ur' = g.ur /\ drawn' = Append(drawn, g.number)

MergeBegin ==
    /\ pc = "merge" /\ ur = NoUR
    /\ Create(SetSize(which) - 1)
    /\ UNCHANGED <<data, merge, model, i, e, j>>

\* mutant: the index is not moved back by the number of similar pairs
PairReadOnward(n) ==
    IF n < Share(similar_sz, which) THEN <<1, n>>
    ELSE IF n < TrainSize(different_sz) THEN <<0, n>> ELSE Garbage

\* similar_pairs_train[n] or different_pairs_train[n - similar_set_sz], for all
\* of the three sets; behind the end of these arrays lies anything.
PairRead(n) ==
    LET sim == Share(similar_sz, which)
    IN  IF n < sim THEN IF n < TrainSize(similar_sz) THEN <<1, n>> ELSE Garbage
        ELSE IF n - sim < TrainSize(different_sz) THEN <<0, n - sim>> ELSE Garbage

MergePut ==
    /\ pc = "merge" /\ ur # NoUR /\ i < SetSize(which)
    /\ Get
    /\ set' = [set EXCEPT ![which][ur_get(ur, rand).number] = PairRead(i)]
    /\ i' = i + 1
    /\ UNCHANGED <<data, which, model, pc, e, j>>

After == [train |-> "test", test |-> "val"]

MergeEnd ==
    /\ pc = "merge" /\ ur # NoUR /\ i = SetSize(which)
    /\ ur' = NoUR /\ drawn' = <<>> /\ i' = 0
    /\ IF which = "val" THEN pc' = "train" /\ UNCHANGED which
                        ELSE which' = After[which] /\ UNCHANGED pc
    /\ UNCHANGED <<data, set, model, e, j>>

-----------------------------------------------------------------------------
(* train_model *)

TrainBegin ==
    /\ pc = "train" /\ ur = NoUR
    /\ Create(SetSize("train") - 1)
    /\ UNCHANGED <<data, merge, model, i, e, j>>

\* mutant: one batch too many
BatchesRounded == (SetSize("train") + batch_size - 1) \div batch_size

Batches == SetSize("train") \div batch_size

\* prepare_set fills one row of the mini batch.
DrawRow ==
    /\ pc = "train" /\ ur # NoUR /\ j < Batches /\ i < batch_size
    /\ Get
    /\ i' = i + 1
    /\ UNCHANGED <<data, merge, model, pc, e, j>>

lr_train ==
    /\ pc = "train" /\ ur # NoUR /\ j < Batches /\ i = batch_size
    /\ trained' = trained + 1
    /\ j' = j + 1 /\ i' = 0
    /\ UNCHANGED <<data, merge, med_losses, models, kept, freed, pc, ur, drawn, e>>

\* mutant: the window is too short
check_local_maximum_Short(losses, rises) ==
    e > 3 /\ \A q \in (e - 3)..e : ~(losses[q + 1] < losses[q])

\* losses[q + 1] is med_losses[q].  The fourth epoch compares med_losses[0] with
\* what lies before the array; rises says how that goes.
check_local_maximum(losses, rises) ==
    /\ e > 3
    /\ \A q \in (e - 4)..e : IF q = 0 THEN rises ELSE ~(losses[q + 1] < losses[q])

\* The rest of an epoch, after its batches.
EpochEnd ==
    /\ pc = "train" /\ ur # NoUR /\ j = Batches
    /\ \E loss \in Losses, rises \in IF e <= 4 THEN BOOLEAN ELSE {FALSE} :
          /\ med_losses' = Append(med_losses, loss)
          /\ models' = [models EXCEPT ![e] = trained]
          /\ IF check_local_maximum(med_losses', rises)
             THEN /\ kept' = e - 4
                  /\ pc' = "free" /\ UNCHANGED <<ur, drawn, e>>
             ELSE /\ ur' = ur_reset(ur) /\ drawn' = <<>>
                  /\ e' = e + 1
                  /\ pc' = IF e + 1 = epochs THEN "free" ELSE "train"
                  /\ UNCHANGED kept
    /\ j' = 0
    /\ UNCHANGED <<data, merge, trained, freed, i>>

\* mutant: all copies are freed
CopiesAll == {x \in DOMAIN models : models[x] # NoModel}

Copies == {x \in DOMAIN models : models[x] # NoModel /\ x # kept}

FreeModels ==
    /\ pc = "free"
    /\ freed' = Copies
    /\ ur' = NoUR /\ drawn' = <<>>
    /\ pc' = "done"
    /\ UNCHANGED <<data, merge, med_losses, trained, models, kept, i, e, j>>

Next ==
    \/ MergeBegin \/ MergePut \/ MergeEnd
    \/ TrainBegin \/ DrawRow \/ lr_train \/ EpochEnd \/ FreeModels

Spec == split /\ [][Next]_vars

-----------------------------------------------------------------------------
(* The types of the state. *)
TypeOK ==
    /\ <<similar_sz, different_sz>> \in Sizes /\ rand \in Rands
    /\ pc \in {"merge", "train", "free", "done", "aborted"}
    /\ which \in SetNames
    /\ \A s \in SetNames : \A x \in DOMAIN set[s] :
          set[s][x] \in {Unset, Garbage} \cup Pairs
    /\ i \in Nat /\ e \in 0..epochs /\ j \in 0..Batches
    /\ ur # NoUR => ur.length \in 0..Cardinality(DOMAIN ur.values)
    /\ Len(med_losses) \in 0..epochs /\ trained \in Nat
    /\ kept \in {NoModel} \cup 0..(epochs - 1) /\ freed \subseteq 0..(epochs - 1)

(* ur_get gives out no number twice before a reset and none outside its    *)
(* range: each place of a merged set is written once, and no pair is in    *)
(* two rows of the mini batches of an epoch (unique_rand.c:45-56).         *)
DrawsUnique ==
    /\ \A x, y \in 1..Len(drawn) : x # y => drawn[x] # drawn[y]
    /\ \A x \in 1..Len(drawn) : drawn[x] \in ur.min..ur.max

(* The sets that training works on are full; the train set holds its half  *)
(* of the similar and of the different pairs, each once, and the shares of *)
(* the three sets leave out one pair of a kind at most (main.c:367-402).   *)
Merged(s) == {set[s][x] : x \in DOMAIN set[s]}

SetsHoldTheirShare ==
    pc \in {"train", "free", "done"} =>
        /\ \A s \in SetNames : Unset \notin Merged(s)
        /\ Merged("train") = {<<1, n>> : n \in 0..(Share(similar_sz, "train") - 1)}
                        \cup {<<0, n>> : n \in 0..(Share(different_sz, "train") - 1)}
        /\ \A n \in {similar_sz, different_sz} :
              n - (Share(n, "train") + Share(n, "test") + Share(n, "val")) \in 0..1

(* Training stops early exactly when the loss has not fallen in the last   *)
(* five epochs (four in epoch 4, whose fifth value is from outside the     *)
(* array), for the first time.  It then keeps the copy of the first epoch  *)
(* of these five, and frees every other copy but not that one              *)
(* (main.c:508-523, 580-600).                                              *)
(*                                                                         *)
(* README:280 has another rule: stop after a continuous increase of the    *)
(* loss in five epochs, with the model of five epochs before.  A loss that *)
(* has increased in each of five epochs does stop the training here, but   *)
(* equal losses do as well; and the copy is of one epoch later than that,  *)
(* in which the loss has increased already.                                *)
NoFall(n) == \A q \in (n - 4)..n : q > 0 => med_losses[q + 1] >= med_losses[q]

KeepsWindowCopy ==
    pc = "done" =>
        /\ \A n \in 5..(Len(med_losses) - 2) : ~NoFall(n)
        /\ IF kept = NoModel
           THEN Len(med_losses) = epochs /\ freed = 0..(epochs - 1)
           ELSE LET n == Len(med_losses) - 1
                IN  /\ n >= 4 /\ NoFall(n)
                    /\ kept = n - 4 /\ models[kept] = (n - 3) * Batches
                    /\ freed = (0..n) \ {kept}
=============================================================================
