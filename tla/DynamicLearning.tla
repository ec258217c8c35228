--------------------------- MODULE DynamicLearning ---------------------------
(***************************************************************************)
(* The dynamic learning of src/src/main.c (748-866): the labelled pairs    *)
(* are written to dynamic_train_set.csv; in each repetition the model is   *)
(* trained on the rows of that file, and each pair of specs about which    *)
(* it is sure becomes a row.                                               *)
(*                                                                         *)
(* The names of the pairs known so far are in a set of arrays of           *)
(* name_size bytes, all of which count.  snprintf writes such an array up  *)
(* to the end of the name; behind it stays what was there before.          *)
(*                                                                         *)
(* A spec is its name, a sequence of characters; a prediction and the      *)
(* threshold are in percent.  What the model predicts is any number.       *)
(***************************************************************************)
EXTENDS Integers, Sequences, FiniteSets

CONSTANTS dataset,          \* the specs, in the order of json_dict
          LabelledSets,     \* what train, test and validation set may be together
          Predictions,      \* what lr_predict_one may return
          name_size,        \* 54
          STEP_VALUE,       \* 15
          MaxNewPairs,      \* 500000
          Nul, Junk         \* bytes: the end of a string, anything else

Rows == [spec1 : Seq(STRING), spec2 : Seq(STRING), relation : {0, 1}]

ASSUME LearningAssumption ==
    /\ dataset \in Seq(Seq(STRING)) /\ Predictions \subseteq 0..100
    /\ LabelledSets \subseteq Seq(Rows)
    /\ name_size \in Nat \ {0} /\ STEP_VALUE \in Nat \ {0}
    /\ MaxNewPairs \in Nat \ {0} /\ Nul # Junk

VARIABLES stage,            \* "write", "train", "pairs", "over"
          similar_len,      \* of the spec entries
          rest,             \* the labelled rows that are not yet written
          fp,               \* dynamic_train_set.csv, the rows
          labelled,         \* history: how many of them are labelled
          dynamic_train_hset,
          name, entry_buf_1, entry_buf_2,
          dynamic_train_sz,
          dynamic_train_set,
          threshold,
          left_at, right_at,   \* where the two loops over json_dict are
          new_pairs_counter,
          met               \* history: the pairs that this repetition has met

file     == <<rest, fp, labelled>>
bufs     == <<entry_buf_1, entry_buf_2>>
training == <<similar_len, dynamic_train_set, threshold>>
position == <<left_at, right_at>>
learning_vars == <<stage, file, dynamic_train_hset, name, bufs, dynamic_train_sz,
                   training, position, new_pairs_counter, met>>

-----------------------------------------------------------------------------
\* snprintf(buf, 54, "%s_%s", x, y)
snprintf(buf, x, y) ==
    LET s == x \o <<"_">> \o y \o <<Nul>>
    IN  [k \in 1..name_size |-> CASE k > Len(s)    -> buf[k]
                                  [] k = name_size -> Nul
                                  [] OTHER         -> s[k]]

\* What a new array may hold: zeroed memory or not.
NewArrays == {[k \in 1..name_size |-> byte] : byte \in {Nul, Junk}}

InitLearning ==
    /\ stage = "write" /\ similar_len \in [1..Len(dataset) -> {1, 2}]
    /\ rest \in LabelledSets /\ fp = <<>> /\ labelled = Len(rest)
    /\ dynamic_train_sz = Len(rest) /\ dynamic_train_set = <<>>
    /\ dynamic_train_hset = {}
    /\ name \in NewArrays /\ entry_buf_1 \in NewArrays /\ entry_buf_2 \in NewArrays
    /\ threshold = 0
    /\ left_at = 1 /\ right_at = 1 /\ new_pairs_counter = 0 /\ met = {}

WriteRow ==
    /\ stage = "write" /\ rest # <<>>
    /\ LET row == Head(rest)
           one == snprintf(name, row.spec1, row.spec2)
           two == snprintf(one, row.spec2, row.spec1)
       IN  /\ fp' = Append(fp, row)
           /\ dynamic_train_hset' = dynamic_train_hset \cup {one, two}
           /\ name' = two
    /\ rest' = Tail(rest)
    /\ UNCHANGED <<stage, labelled, bufs, dynamic_train_sz, training, position,
                   new_pairs_counter, met>>

WriteEnd ==
    /\ stage = "write" /\ rest = <<>>
    /\ stage' = "train"
    /\ UNCHANGED <<file, dynamic_train_hset, name, bufs, dynamic_train_sz, training,
                   position, new_pairs_counter, met>>

\* The file is read into an array of dynamic_train_sz pairs, and train_model
\* works on as many.  The two buffers are new variables, maybe in the same place.
Repetition ==
    /\ stage = "train" /\ threshold < 50
    /\ dynamic_train_set' = fp
    /\ entry_buf_1' \in NewArrays \cup {entry_buf_1}
    /\ entry_buf_2' \in NewArrays \cup {entry_buf_2}
    /\ left_at' = 1 /\ right_at' = 1 /\ new_pairs_counter' = 0 /\ met' = {}
    /\ stage' = "pairs"
    /\ UNCHANGED <<file, dynamic_train_hset, name, dynamic_train_sz, similar_len, threshold>>

-----------------------------------------------------------------------------
Left  == dataset[left_at]
Right == dataset[right_at]

InLoops == stage = "pairs" /\ left_at <= Len(dataset)
InRow   == InLoops /\ similar_len[left_at] = 1 /\ right_at <= Len(dataset)

\* A spec that is root of a clique is skipped, on the left
SkipLeft ==
    /\ InLoops /\ similar_len[left_at] > 1
    /\ left_at' = left_at + 1
    /\ UNCHANGED <<stage, file, dynamic_train_hset, name, bufs, dynamic_train_sz, training,
                   right_at, new_pairs_counter, met>>

\* and on the right.
SkipRight ==
    /\ InRow /\ similar_len[right_at] > 1
    /\ right_at' = right_at + 1
    /\ UNCHANGED <<stage, file, dynamic_train_hset, name, bufs, dynamic_train_sz, training,
                   left_at, new_pairs_counter, met>>

\* Both names are written to the buffers, whatever then becomes of the pair.
Format ==
    /\ InRow /\ similar_len[right_at] = 1
    /\ entry_buf_1' = snprintf(entry_buf_1, Left, Right)
    /\ entry_buf_2' = snprintf(entry_buf_2, Right, Left)
    /\ met' = met \cup {<<Left, Right>>}

Known ==
    /\ Format
    /\ Left = Right \/ entry_buf_1' \in dynamic_train_hset
    /\ right_at' = right_at + 1
    /\ UNCHANGED <<stage, file, dynamic_train_hset, name, dynamic_train_sz, training,
                   left_at, new_pairs_counter>>

\* mutant: only one of the names is put into the set
PutsOneName == dynamic_train_hset' = dynamic_train_hset \cup {entry_buf_1'}

PutNames == dynamic_train_hset' = dynamic_train_hset \cup {entry_buf_1', entry_buf_2'}

Sure(y) == y < threshold \/ y > 100 - threshold

\* mutant: the number of rows is not counted up
CountNothing == UNCHANGED dynamic_train_sz

CountRow == dynamic_train_sz' = dynamic_train_sz + 1

NewRow(y) ==
    /\ fp' = Append(fp, [spec1 |-> Left, spec2 |-> Right,
                         relation |-> IF y < threshold THEN 0 ELSE 1])
    /\ PutNames /\ CountRow
    /\ new_pairs_counter' = new_pairs_counter + 1
    /\ IF new_pairs_counter' = MaxNewPairs
       THEN left_at' = Len(dataset) + 1 /\ UNCHANGED right_at
       ELSE right_at' = right_at + 1 /\ UNCHANGED left_at

NoNewRow ==
    /\ right_at' = right_at + 1
    /\ UNCHANGED <<fp, dynamic_train_hset, dynamic_train_sz, new_pairs_counter, left_at>>

Predict(y) ==
    /\ Format
    /\ Left # Right /\ entry_buf_1' \notin dynamic_train_hset
    /\ IF Sure(y) THEN NewRow(y) ELSE NoNewRow
    /\ UNCHANGED <<stage, rest, labelled, name, training>>

\* mutant: start_right is not set back
NextLeftOnly ==
    /\ InLoops /\ similar_len[left_at] = 1 /\ right_at > Len(dataset)
    /\ left_at' = left_at + 1
    /\ UNCHANGED <<stage, file, dynamic_train_hset, name, bufs, dynamic_train_sz, training,
                   right_at, new_pairs_counter, met>>

NextLeft ==
    /\ InLoops /\ similar_len[left_at] = 1 /\ right_at > Len(dataset)
    /\ left_at' = left_at + 1 /\ right_at' = 1
    /\ UNCHANGED <<stage, file, dynamic_train_hset, name, bufs, dynamic_train_sz, training,
                   new_pairs_counter, met>>

RepetitionEnd ==
    /\ stage = "pairs" /\ left_at > Len(dataset)
    /\ threshold' = threshold + STEP_VALUE
    /\ stage' = IF threshold' < 50 THEN "train" ELSE "over"
    /\ UNCHANGED <<file, dynamic_train_hset, name, bufs, dynamic_train_sz, similar_len,
                   dynamic_train_set, position, new_pairs_counter, met>>

LearningNext ==
    \/ WriteRow \/ WriteEnd \/ Repetition
    \/ SkipLeft \/ SkipRight \/ Known \/ (\E y \in Predictions : Predict(y))
    \/ NextLeft \/ RepetitionEnd

LearningSpec == InitLearning /\ [][LearningNext]_learning_vars

-----------------------------------------------------------------------------
(* dynamic_train_sz, by which the array is allocated and the model trained, *)
(* is the number of rows that the next repetition reads from the file, and  *)
(* a repetition adds as many rows as it counts, never more than the bound.  *)
RowsFit ==
    /\ Len(fp) + Len(rest) = dynamic_train_sz
    /\ stage = "pairs" => /\ Len(fp) = Len(dynamic_train_set) + new_pairs_counter
                          /\ new_pairs_counter <= MaxNewPairs

(* A repetition that does not reach the bound has met each ordered pair of  *)
(* the specs that it does not skip.                                         *)
SeesAllPairs ==
    stage = "pairs" /\ left_at > Len(dataset) /\ new_pairs_counter < MaxNewPairs =>
        LET open == {dataset[k] : k \in {x \in 1..Len(dataset) : similar_len[x] = 1}}
        IN  met = open \X open

PairOf(row) == {row.spec1, row.spec2}

\* Behind the end of every name there are zeros only.
NamesClean ==
    \A buf \in dynamic_train_hset : \A k, l \in 1..name_size :
        k < l /\ buf[k] = Nul => buf[l] = Nul

(* As long as no old bytes have come into the set behind a name, no pair is *)
(* added to the file that is there already, nor the other way round         *)
(* (README.md:295 says so of any pair).                                     *)
NoPairTwice ==
    NamesClean => \A l \in (labelled + 1)..Len(fp) : \A k \in 1..(l - 1) :
                     PairOf(fp[k]) # PairOf(fp[l])
==============================================================================
