--------------------------- MODULE LearningProofs ---------------------------
(***************************************************************************)
(* For any specs, labelled pairs, predictions and sizes: the rows of       *)
(* dynamic_train_set.csv are as many as dynamic_train_sz says, each        *)
(* repetition meets all the pairs it should, and no pair is added twice    *)
(* while the names in the set are clean.                                   *)
(***************************************************************************)
EXTENDS DynamicLearning, TLAPS

Indices == 1..Len(dataset)

LearningTypes ==
    /\ stage \in {"write", "train", "pairs", "over"}
    /\ similar_len \in [Indices -> {1, 2}]
    /\ left_at \in 1..(Len(dataset) + 1) /\ right_at \in 1..(Len(dataset) + 1)
    /\ fp \in Seq(Rows) /\ rest \in Seq(Rows) /\ dynamic_train_set \in Seq(Rows)
    /\ new_pairs_counter \in Nat

\* The loops go on only while there is room for a row.
Unbroken ==
    stage = "pairs" /\ left_at <= Len(dataset) => new_pairs_counter < MaxNewPairs

RowsInv == LearningTypes /\ RowsFit /\ Unbroken

-----------------------------------------------------------------------------
LEMMA Sizes ==
    /\ Len(dataset) \in Nat
    /\ \A k \in Indices : dataset[k] \in Seq(STRING)
BY LearningAssumption DEF Indices

\* At the beginning nothing is written and all rows are to come.
LEMMA RowsInit == InitLearning => RowsInv
<1> SUFFICES ASSUME InitLearning PROVE RowsInv
    OBVIOUS
<1>1. rest \in Seq(Rows) /\ fp = <<>> /\ dynamic_train_set = <<>>
    BY LearningAssumption DEF InitLearning
<1>2. Len(fp) = 0 /\ fp \in Seq(Rows) /\ dynamic_train_set \in Seq(Rows)
    BY <1>1
<1>3. Len(fp) + Len(rest) = dynamic_train_sz
    BY <1>1, <1>2 DEF InitLearning
<1> QED
    BY <1>1, <1>2, <1>3, Sizes, LearningAssumption
       DEF InitLearning, RowsInv, LearningTypes, RowsFit, Unbroken, Indices

LEMMA RowsNext == RowsInv /\ [LearningNext]_learning_vars => RowsInv'
<1> SUFFICES ASSUME RowsInv, [LearningNext]_learning_vars PROVE RowsInv'
    OBVIOUS
<1> USE Sizes DEF RowsInv, LearningTypes, RowsFit, Unbroken, Indices
<1>1. CASE WriteRow
    <2>1. fp' = Append(fp, Head(rest)) /\ rest' = Tail(rest) /\ rest # <<>>
        BY <1>1 DEF WriteRow
    <2>2. /\ fp' \in Seq(Rows) /\ Len(fp') = Len(fp) + 1
          /\ rest' \in Seq(Rows) /\ Len(rest') = Len(rest) - 1
        BY <2>1
    <2>3. UNCHANGED <<stage, similar_len, left_at, right_at, dynamic_train_set,
                      dynamic_train_sz, new_pairs_counter>>
        BY <1>1 DEF WriteRow, training, position
    <2> QED
        BY <2>2, <2>3, <1>1 DEF WriteRow
<1>2. CASE WriteEnd
    BY <1>2 DEF WriteEnd, file, training, position
<1>3. CASE Repetition
    BY <1>3, LearningAssumption DEF Repetition, file
<1>4. CASE SkipLeft
    BY <1>4 DEF SkipLeft, InLoops, file, training
<1>5. CASE SkipRight
    BY <1>5 DEF SkipRight, InRow, InLoops, file, training
<1>6. CASE Known
    BY <1>6 DEF Known, Format, InRow, InLoops, file, training
<1>7. ASSUME NEW y \in Predictions, Predict(y) PROVE RowsInv'
    <2>1. UNCHANGED <<stage, rest, similar_len, dynamic_train_set>>
        BY <1>7 DEF Predict, training
    <2>2. stage = "pairs" /\ left_at <= Len(dataset) /\ right_at <= Len(dataset)
        BY <1>7 DEF Predict, Format, InRow, InLoops
    <2>3. CASE NewRow(y)
        <3>1. fp' \in Seq(Rows) /\ Len(fp') = Len(fp) + 1
            <4> DEFINE row == [spec1 |-> Left, spec2 |-> Right,
                               relation |-> IF y < threshold THEN 0 ELSE 1]
            <4>1. row \in Rows
                BY <2>2 DEF Rows, Left, Right
            <4>2. fp' = Append(fp, row)
                BY <2>3 DEF NewRow
            <4> QED
                BY <4>1, <4>2
        <3>2. dynamic_train_sz' = dynamic_train_sz + 1
            BY <2>3 DEF NewRow, CountRow
        <3>3. /\ new_pairs_counter' = new_pairs_counter + 1
              /\ \/ new_pairs_counter' = MaxNewPairs /\ left_at' = Len(dataset) + 1 /\ right_at' = right_at
                 \/ new_pairs_counter' # MaxNewPairs /\ left_at' = left_at /\ right_at' = right_at + 1
            BY <2>3 DEF NewRow
        <3>4. MaxNewPairs \in Nat
            BY LearningAssumption
        <3> QED
            BY <2>1, <2>2, <3>1, <3>2, <3>3, <3>4
    <2>4. CASE NoNewRow
        BY <2>1, <2>2, <2>4 DEF NoNewRow
    <2> QED
        BY <1>7, <2>3, <2>4 DEF Predict
<1>8. CASE NextLeft
    BY <1>8 DEF NextLeft, InLoops, file, training
<1>9. CASE RepetitionEnd
    BY <1>9 DEF RepetitionEnd, file, position
<1>10. CASE UNCHANGED learning_vars
    BY <1>10 DEF learning_vars, file, training, position
<1> QED
    BY <1>1, <1>2, <1>3, <1>4, <1>5, <1>6, <1>7, <1>8, <1>9, <1>10 DEF LearningNext

(* dynamic_train_sz, with which main.c allocates dynamic_train_set, reads the *)
(* file into it and trains, is the number of rows that the repetitions have   *)
(* written, however the model predicts and whenever the bound cuts them off.  *)
THEOREM RowsAlwaysFit == LearningSpec => []RowsFit
<1>1. RowsInv => RowsFit
    BY DEF RowsInv
<1> QED
    BY RowsInit, RowsNext, <1>1, PTL DEF LearningSpec

-----------------------------------------------------------------------------
\* The places of the specs that a repetition does not skip; the names of the
\* pairs that the loops have behind them, in the rows done and in this row.
Open == {k \in Indices : similar_len[k] = 1}

Until(n) == {k \in Open : k < n}

RowsDone == {<<dataset[k], dataset[l]>> : k \in Until(left_at), l \in Open}

ThisRow == {<<dataset[left_at], dataset[l]>> : l \in Until(right_at)}

\* Before a spec that is skipped on the left the right loop has not begun.
RightBegins ==
    stage = "pairs" /\ new_pairs_counter < MaxNewPairs /\ left_at \notin Open
        => right_at = 1

MetBehind ==
    stage = "pairs" /\ new_pairs_counter < MaxNewPairs => met = RowsDone \cup ThisRow

LoopInv == RowsInv /\ RightBegins /\ MetBehind

\* One more spec is behind, if it is not skipped.
LEMMA OneMore ==
    ASSUME NEW n \in Nat
    PROVE  /\ Until(n + 1) = IF n \in Open THEN Until(n) \cup {n} ELSE Until(n)
           /\ Until(1) = {} /\ Until(Len(dataset) + 1) = Open
<1>1. \A k \in Open : k \in Nat /\ k >= 1 /\ k < Len(dataset) + 1
    BY Sizes DEF Open, Indices
<1>2. \A k \in Open : k < n + 1 <=> k < n \/ k = n
    BY <1>1
<1> QED
    BY <1>1, <1>2 DEF Until

LEMMA LoopInit == InitLearning => LoopInv
BY RowsInit DEF InitLearning, LoopInv, RightBegins, MetBehind

\* The step of the right loop at a pair of specs that are not skipped.
LEMMA PairMet ==
    ASSUME LoopInv, RowsInv', Format, stage = "pairs",
           UNCHANGED <<stage, similar_len, left_at>>, right_at' = right_at + 1,
           new_pairs_counter < MaxNewPairs
    PROVE  RightBegins' /\ MetBehind'
<1>1. left_at \in Open /\ right_at \in Open /\ right_at \in Nat /\ Open' = Open
    BY Sizes DEF Format, InRow, InLoops, Open, Indices, LoopInv, RowsInv, LearningTypes
<1>2. met = RowsDone \cup ThisRow /\ met' = met \cup {<<dataset[left_at], dataset[right_at]>>}
    BY DEF Format, LoopInv, MetBehind, Left, Right
<1>3. Until(right_at + 1) = Until(right_at) \cup {right_at}
    BY <1>1, OneMore
<1>4. RowsDone' = RowsDone /\ Until(right_at)' = Until(right_at + 1)
    BY <1>1 DEF RowsDone, Until
<1>5. ThisRow' = ThisRow \cup {<<dataset[left_at], dataset[right_at]>>}
    BY <1>3, <1>4 DEF ThisRow
<1>6. MetBehind'
    BY <1>2, <1>4, <1>5 DEF MetBehind
<1>7. RightBegins'
    BY <1>1 DEF RightBegins
<1> QED
    BY <1>6, <1>7

LEMMA LoopNext == LoopInv /\ [LearningNext]_learning_vars => LoopInv'
<1> SUFFICES ASSUME LoopInv, [LearningNext]_learning_vars
             PROVE  RightBegins' /\ MetBehind'
    BY RowsNext DEF LoopInv
<1>1. RowsInv'
    BY RowsNext DEF LoopInv
<1> DEFINE Loop == <<stage, similar_len, left_at, right_at, new_pairs_counter, met>>
<1>2. ASSUME UNCHANGED Loop PROVE RightBegins' /\ MetBehind'
    <2>1. Open' = Open /\ RowsDone' = RowsDone /\ ThisRow' = ThisRow
        BY <1>2 DEF Open, RowsDone, ThisRow, Until
    <2> QED
        BY <1>2, <2>1 DEF LoopInv, RightBegins, MetBehind
<1>3. CASE WriteRow
    BY <1>3, <1>2 DEF WriteRow, training, position
<1>4. CASE WriteEnd
    BY <1>4 DEF WriteEnd, RightBegins, MetBehind
<1>5. CASE Repetition
    <2>1. left_at' = 1 /\ right_at' = 1 /\ met' = {}
        BY <1>5 DEF Repetition
    <2>2. Until(1)' = {}
        BY Sizes DEF Until, Open, Indices
    <2>3. RowsDone' = {} /\ ThisRow' = {}
        BY <2>1, <2>2 DEF RowsDone, ThisRow, Until
    <2> QED
        BY <2>1, <2>3 DEF RightBegins, MetBehind
<1>6. CASE SkipLeft
    <2>1. /\ stage = "pairs" /\ left_at \in Nat /\ left_at \notin Open
          /\ left_at' = left_at + 1
          /\ UNCHANGED <<stage, similar_len, right_at, new_pairs_counter, met>>
        BY <1>6, Sizes
        DEF SkipLeft, InLoops, training, LoopInv, RowsInv, LearningTypes, Open, Indices
    <2>2. new_pairs_counter < MaxNewPairs => right_at = 1
        BY <2>1 DEF LoopInv, RightBegins
    <2>3. Open' = Open /\ Until(left_at)' = Until(left_at + 1)
        BY <2>1 DEF Open, Until
    <2>4. RowsDone' = RowsDone
        <3>1. Until(left_at + 1) = Until(left_at)
            BY <2>1, OneMore
        <3> QED
            BY <2>3, <3>1 DEF RowsDone
    <2>5. right_at = 1 => ThisRow = {} /\ ThisRow' = {}
        BY <2>1, <2>3, OneMore DEF ThisRow, Until
    <2> QED
        BY <2>1, <2>2, <2>4, <2>5 DEF LoopInv, RightBegins, MetBehind
<1>7. CASE SkipRight
    <2>1. /\ stage = "pairs" /\ left_at \in Open /\ right_at \in Nat /\ right_at \notin Open
          /\ right_at' = right_at + 1
          /\ UNCHANGED <<stage, similar_len, left_at, new_pairs_counter, met>>
        BY <1>7, Sizes
        DEF SkipRight, InRow, InLoops, training, LoopInv, RowsInv, LearningTypes, Open, Indices
    <2>2. Open' = Open /\ Until(right_at)' = Until(right_at + 1)
        BY <2>1 DEF Open, Until
    <2>3. RowsDone' = RowsDone /\ ThisRow' = ThisRow
        BY <2>1, <2>2, OneMore DEF RowsDone, ThisRow, Until
    <2> QED
        BY <2>1, <2>2, <2>3 DEF LoopInv, RightBegins, MetBehind
<1>8. CASE Known
    <2>1. /\ Format /\ stage = "pairs" /\ UNCHANGED <<stage, similar_len, left_at>>
          /\ right_at' = right_at + 1
        BY <1>8 DEF Known, Format, InRow, InLoops, training
    <2>2. new_pairs_counter < MaxNewPairs
        BY <2>1 DEF Format, InRow, InLoops, LoopInv, RowsInv, Unbroken
    <2> QED
        BY <1>1, <2>1, <2>2, PairMet
<1>9. ASSUME NEW y \in Predictions, Predict(y) PROVE RightBegins' /\ MetBehind'
    <2>1. Format /\ stage = "pairs" /\ UNCHANGED <<stage, similar_len>>
        BY <1>9 DEF Predict, Format, InRow, InLoops, training
    <2>2. new_pairs_counter < MaxNewPairs
        BY <2>1 DEF Format, InRow, InLoops, LoopInv, RowsInv, Unbroken
    <2>3. CASE right_at' = right_at + 1 /\ UNCHANGED left_at
        BY <1>1, <2>1, <2>2, <2>3, PairMet
    <2>4. CASE new_pairs_counter' = MaxNewPairs /\ left_at' = Len(dataset) + 1
        BY <2>4, LearningAssumption DEF RightBegins, MetBehind
    <2> QED
        BY <1>9, <2>3, <2>4 DEF Predict, NewRow, NoNewRow
<1>10. CASE NextLeft
    <2>1. /\ stage = "pairs" /\ left_at \in Open /\ left_at \in Nat
          /\ right_at = Len(dataset) + 1 /\ left_at' = left_at + 1 /\ right_at' = 1
          /\ UNCHANGED <<stage, similar_len, new_pairs_counter, met>>
        <3>1. left_at \in Indices /\ right_at = Len(dataset) + 1 /\ left_at \in Nat
            <4>1. left_at \in 1..(Len(dataset) + 1) /\ right_at \in 1..(Len(dataset) + 1)
                BY DEF LoopInv, RowsInv, LearningTypes
            <4>2. left_at <= Len(dataset) /\ right_at > Len(dataset)
                BY <1>10 DEF NextLeft, InLoops
            <4>3. Len(dataset) \in Nat
                BY Sizes
            <4> QED
                BY <4>1, <4>2, <4>3 DEF Indices
        <3>2. similar_len[left_at] = 1
            BY <1>10 DEF NextLeft
        <3> QED
            BY <1>10, <3>1, <3>2 DEF NextLeft, InLoops, training, Open
    <2>2. Open' = Open /\ Until(left_at)' = Until(left_at + 1) /\ Until(right_at)' = Until(1)
        BY <2>1 DEF Open, Until
    <2>3. Until(left_at + 1) = Until(left_at) \cup {left_at} /\ Until(right_at) = Open
        BY <2>1, OneMore
    <2>4. RowsDone' = RowsDone \cup ThisRow
        BY <2>2, <2>3 DEF RowsDone, ThisRow
    <2>5. ThisRow' = {}
        <3>1. Until(1) = {}
            BY <2>1, OneMore
        <3> QED
            BY <2>2, <3>1 DEF ThisRow
    <2> QED
        BY <2>1, <2>4, <2>5 DEF LoopInv, RightBegins, MetBehind
<1>11. CASE RepetitionEnd
    BY <1>11 DEF RepetitionEnd, RightBegins, MetBehind
<1>12. CASE UNCHANGED learning_vars
    BY <1>12, <1>2 DEF learning_vars, training, position
<1> QED
    BY <1>3, <1>4, <1>5, <1>6, <1>7, <1>8, <1>9, <1>10, <1>11, <1>12 DEF LearningNext

(* A repetition that ends below the bound has met each ordered pair of the   *)
(* specs that it does not skip, for any dataset: left_at and right_at come   *)
(* by all of them, whichever specs are skipped.                              *)
THEOREM AllPairsSeen == LearningSpec => []SeesAllPairs
<1>1. LoopInv => SeesAllPairs
    <2> SUFFICES ASSUME LoopInv, stage = "pairs", left_at > Len(dataset),
                        new_pairs_counter < MaxNewPairs
                 PROVE  met = {dataset[k] : k \in Open} \X {dataset[k] : k \in Open}
        BY DEF SeesAllPairs, Open, Indices
    <2>1. left_at = Len(dataset) + 1 /\ left_at \notin Open
        BY Sizes DEF Open, Indices, LoopInv, RowsInv, LearningTypes
    <2>2. right_at = 1
        BY <2>1 DEF LoopInv, RightBegins
    <2>3. Until(left_at) = Open /\ Until(right_at) = {}
        BY <2>1, <2>2, OneMore
    <2>4. met = {<<dataset[k], dataset[l]>> : k \in Open, l \in Open}
        BY <2>3 DEF LoopInv, MetBehind, RowsDone, ThisRow
    <2> QED
        BY <2>4
<1> QED
    BY LoopInit, LoopNext, <1>1, PTL DEF LearningSpec

-----------------------------------------------------------------------------
\* A name of x and y is in h, whatever stood in the buffer before.
Named(h, x, y) == \E buf : snprintf(buf, x, y) \in h

BothNamed(h, row) == Named(h, row.spec1, row.spec2) /\ Named(h, row.spec2, row.spec1)

\* Both names of every row of the file are known.
RowsNamed == \A k \in 1..Len(fp) : BothNamed(dynamic_train_hset, fp[k])

\* No row after the labelled ones is about the pair of an earlier one.
NewPairsOnce == \A l \in (labelled + 1)..Len(fp) : \A k \in 1..(l - 1) :
                    PairOf(fp[k]) # PairOf(fp[l])

LabelledFirst ==
    /\ labelled \in Nat
    /\ stage = "write" => labelled = Len(fp) + Len(rest)

OnceInv == RowsInv /\ LabelledFirst /\ RowsNamed /\ (NamesClean => NewPairsOnce)

\* A clean name says nothing about the buffer that it was written to.
CleanName(n) == \A k, l \in 1..name_size : k < l /\ n[k] = Nul => n[l] = Nul

\* What a name is made of.
Chars == STRING \cup {Nul} \cup {"_"}

Strung(x, c, y, n) == x \o <<c>> \o y \o <<n>>

\* The last of the elements strung together.
LEMMA LastOne ==
    ASSUME NEW x \in Seq(Chars), NEW y \in Seq(Chars), NEW c \in Chars, NEW n \in Chars
    PROVE  /\ Len(Strung(x, c, y, n)) \in Nat \ {0}
           /\ Strung(x, c, y, n)[Len(Strung(x, c, y, n))] = n
<1> DEFINE r == x \o <<c>> \o y
<1>1. x \o <<c>> \in Seq(Chars)
    OBVIOUS
<1>2. r \in Seq(Chars)
    BY <1>1
<1> HIDE DEF r
<1>3. /\ Len(r \o <<n>>) \in Nat \ {0}
      /\ (r \o <<n>>)[Len(r \o <<n>>)] = n
    BY <1>2
<1> QED
    BY <1>3 DEF r, Strung

\* A sequence of strings is one of strings and others.
LEMMA MoreElements ==
    ASSUME NEW S, NEW T, S \subseteq T, NEW x \in Seq(S)
    PROVE  x \in Seq(T)
<1>1. x \in [1..Len(x) -> S] /\ Len(x) \in Nat
    OBVIOUS
<1>2. x \in [1..Len(x) -> T]
    BY <1>1
<1> QED
    BY <1>1, <1>2

\* A name ends in Nul, before it is cut off.
LEMMA NameEnds ==
    ASSUME NEW x \in Seq(STRING), NEW y \in Seq(STRING)
    PROVE  /\ Len(Strung(x, "_", y, Nul)) \in Nat \ {0}
           /\ Strung(x, "_", y, Nul)[Len(Strung(x, "_", y, Nul))] = Nul
<1>1. STRING \subseteq Chars
    BY DEF Chars
<1>2. x \in Seq(Chars)
    BY <1>1, MoreElements
<1>3. y \in Seq(Chars)
    BY <1>1, MoreElements
<1> DEFINE c == "_"
<1>4. c \in Chars
    BY DEF Chars
<1>5. Nul \in Chars
    BY DEF Chars
<1> HIDE DEF c
<1>6. /\ Len(Strung(x, c, y, Nul)) \in Nat \ {0}
      /\ Strung(x, c, y, Nul)[Len(Strung(x, c, y, Nul))] = Nul
    BY <1>2, <1>3, <1>4, <1>5, LastOne
<1> QED
    BY <1>6 DEF c

(* A clean name is the same in every buffer: behind its end there are zeros. *)
LEMMA CleanNamesAgree ==
    ASSUME NEW x \in Seq(STRING), NEW y \in Seq(STRING), NEW a, NEW b,
           CleanName(snprintf(a, x, y)), CleanName(snprintf(b, x, y))
    PROVE  snprintf(a, x, y) = snprintf(b, x, y)
<1> DEFINE s == x \o <<"_">> \o y \o <<Nul>>
           f == snprintf(a, x, y)
           g == snprintf(b, x, y)
<1>1. Len(s) \in Nat \ {0} /\ s[Len(s)] = Nul
    <2>1. s = Strung(x, "_", y, Nul)
        BY DEF Strung
    <2> HIDE DEF s
    <2> QED
        BY <2>1, NameEnds
<1>2. /\ f = [k \in 1..name_size |-> CASE k > Len(s) -> a[k] [] k = name_size -> Nul [] OTHER -> s[k]]
      /\ g = [k \in 1..name_size |-> CASE k > Len(s) -> b[k] [] k = name_size -> Nul [] OTHER -> s[k]]
    BY Zenon DEF snprintf
<1> HIDE DEF s, f, g
<1>3. name_size \in Nat
    BY LearningAssumption
<1>4. ASSUME NEW k \in 1..name_size
      PROVE  f[k] = g[k]
    <2>1. CASE k <= Len(s)
        BY <1>1, <1>2, <1>3, <2>1
    <2>2. CASE k > Len(s)
        <3>1. Len(s) \in 1..name_size /\ Len(s) < k /\ Len(s) # name_size /\ ~(Len(s) > Len(s))
            BY <1>1, <1>3, <2>2
        <3>2. f[Len(s)] = Nul /\ g[Len(s)] = Nul
            BY <1>1, <1>2, <3>1
        <3>3. CleanName(f) /\ CleanName(g)
            BY DEF f, g
        <3> QED
            BY <3>1, <3>2, <3>3 DEF CleanName
    <2> QED
        BY <1>1, <1>3, <2>1, <2>2
<1>5. f = g
    BY <1>2, <1>4
<1> QED
    BY <1>5 DEF f, g

(* A pair that is not known is not in the file, if the names are clean. *)
LEMMA NewPairIsNew ==
    ASSUME OnceInv, NEW x \in Seq(STRING), NEW y \in Seq(STRING), NEW b,
           snprintf(b, x, y) \notin dynamic_train_hset,
           NamesClean, CleanName(snprintf(b, x, y)), NEW k \in 1..Len(fp)
    PROVE  PairOf(fp[k]) # {x, y}
<1> SUFFICES ASSUME PairOf(fp[k]) = {x, y}
             PROVE  FALSE
    OBVIOUS
<1> DEFINE r == fp[k]
<1>1. BothNamed(dynamic_train_hset, r)
    BY DEF OnceInv, RowsNamed
<1>2. \/ r.spec1 = x /\ r.spec2 = y
      \/ r.spec1 = y /\ r.spec2 = x
    BY DEF PairOf
<1>3. Named(dynamic_train_hset, x, y)
    BY <1>1, <1>2 DEF BothNamed
<1>4. PICK a : snprintf(a, x, y) \in dynamic_train_hset
    BY <1>3 DEF Named
<1>5. CleanName(snprintf(a, x, y))
    BY <1>4 DEF NamesClean, CleanName
<1>6. snprintf(a, x, y) = snprintf(b, x, y)
    BY <1>5, CleanNamesAgree
<1> QED
    BY <1>4, <1>6

\* More names: those known stay known, and were clean if all are.
LEMMA MoreNames ==
    ASSUME dynamic_train_hset \subseteq dynamic_train_hset'
    PROVE  /\ \A row : BothNamed(dynamic_train_hset, row) => BothNamed(dynamic_train_hset', row)
           /\ NamesClean' => NamesClean
BY DEF Named, BothNamed, NamesClean

\* A row that is appended with its names known is named like those before.
LEMMA RowNamed ==
    ASSUME OnceInv, NEW row \in Rows, fp' = Append(fp, row),
           dynamic_train_hset \subseteq dynamic_train_hset',
           BothNamed(dynamic_train_hset', row)
    PROVE  /\ RowsNamed'
           /\ Len(fp') = Len(fp) + 1 /\ fp'[Len(fp) + 1] = row /\ Len(fp) \in Nat
           /\ \A k \in 1..Len(fp) : fp'[k] = fp[k]
<1>1. fp \in Seq(Rows)
    BY DEF OnceInv, RowsInv, LearningTypes
<1>2. /\ Len(fp') = Len(fp) + 1 /\ fp'[Len(fp) + 1] = row /\ Len(fp) \in Nat
      /\ \A k \in 1..Len(fp) : fp'[k] = fp[k]
    BY <1>1
<1>3. ASSUME NEW k \in 1..Len(fp')
      PROVE  BothNamed(dynamic_train_hset', fp'[k])
    <2>1. CASE k = Len(fp) + 1
        BY <1>2, <2>1
    <2>2. CASE k \in 1..Len(fp)
        <3>1. BothNamed(dynamic_train_hset, fp[k])
            BY <2>2 DEF OnceInv, RowsNamed
        <3>2. BothNamed(dynamic_train_hset', fp[k])
            BY <3>1, MoreNames
        <3> QED
            BY <3>2, <1>2, <2>2
    <2> QED
        BY <1>2, <2>1, <2>2
<1>4. RowsNamed'
    BY <1>3 DEF RowsNamed
<1> QED
    BY <1>2, <1>4

\* Where no row is written, nothing about the rows changes.
LEMMA OnceKept ==
    ASSUME OnceInv, UNCHANGED <<fp, labelled, dynamic_train_hset>>
    PROVE  RowsNamed' /\ (NamesClean' => NewPairsOnce')
BY DEF OnceInv, RowsNamed, NamesClean, NewPairsOnce

\* No step writes about a pair again.
LEMMA OnceNext == OnceInv /\ [LearningNext]_learning_vars => OnceInv'
<1> SUFFICES ASSUME OnceInv, [LearningNext]_learning_vars
             PROVE  LabelledFirst' /\ RowsNamed' /\ (NamesClean' => NewPairsOnce')
    BY RowsNext DEF OnceInv
<1>1. RowsInv /\ RowsInv' /\ LabelledFirst
    BY RowsNext DEF OnceInv
<1>2. CASE WriteRow
    <2> DEFINE row == Head(rest)
               one == snprintf(name, row.spec1, row.spec2)
               two == snprintf(one, row.spec2, row.spec1)
    <2>1. /\ stage = "write" /\ rest # <<>> /\ fp' = Append(fp, row) /\ rest' = Tail(rest)
          /\ dynamic_train_hset' = dynamic_train_hset \cup {one, two}
          /\ stage' = stage /\ labelled' = labelled
        BY <1>2 DEF WriteRow
    <2>2. row \in Rows /\ rest \in Seq(Rows)
        BY <2>1, <1>1 DEF RowsInv, LearningTypes
    <2> HIDE DEF row
    <2>3. BothNamed(dynamic_train_hset', row)
        <3>1. one \in dynamic_train_hset' /\ two \in dynamic_train_hset'
            BY <2>1
        <3> QED
            BY <3>1 DEF BothNamed, Named
    <2> HIDE DEF one, two
    <2>4. /\ RowsNamed' /\ Len(fp') = Len(fp) + 1 /\ Len(fp) \in Nat
        BY <2>1, <2>2, <2>3, RowNamed
    <2>5. Len(rest') = Len(rest) - 1 /\ Len(rest) \in Nat \ {0}
        BY <2>1, <2>2
    <2>6. LabelledFirst' /\ Len(fp') <= labelled'
        BY <2>1, <2>4, <2>5, <1>1 DEF LabelledFirst
    <2>7. NewPairsOnce'
        <3>1. labelled' \in Nat /\ Len(fp') \in Nat
            BY <2>4, <2>6 DEF LabelledFirst
        <3>2. (labelled' + 1)..Len(fp') = {}
            BY <2>6, <3>1
        <3> QED
            BY <3>2 DEF NewPairsOnce
    <2> QED
        BY <2>4, <2>6, <2>7
<1>3. CASE WriteEnd \/ Repetition
    <2>1. stage' # "write" /\ UNCHANGED <<fp, labelled, dynamic_train_hset>>
        BY <1>3 DEF WriteEnd, Repetition, file
    <2> QED
        BY <2>1, <1>1, OnceKept DEF LabelledFirst
<1>4. CASE SkipLeft \/ SkipRight \/ Known \/ NextLeft \/ RepetitionEnd
    <2>1. stage' # "write" /\ UNCHANGED <<fp, labelled, dynamic_train_hset>>
        BY <1>4 DEF SkipLeft, SkipRight, Known, NextLeft, RepetitionEnd, Format, InRow, InLoops, file
    <2> QED
        BY <2>1, <1>1, OnceKept DEF LabelledFirst
<1>5. ASSUME NEW y \in Predictions, Predict(y)
      PROVE  LabelledFirst' /\ RowsNamed' /\ (NamesClean' => NewPairsOnce')
    <2>1. stage = "pairs" /\ stage' = stage /\ labelled' = labelled
        BY <1>5 DEF Predict, Format, InRow, InLoops
    <2>2. LabelledFirst'
        BY <2>1, <1>1 DEF LabelledFirst
    <2>3. CASE NoNewRow
        BY <2>1, <2>2, <2>3, OnceKept DEF NoNewRow
    <2>4. CASE NewRow(y)
        <3> DEFINE row == [spec1 |-> Left, spec2 |-> Right,
                           relation |-> IF y < threshold THEN 0 ELSE 1]
        <3>1. Left \in Seq(STRING) /\ Right \in Seq(STRING)
            <4>1. left_at \in Indices /\ right_at \in Indices
                BY <1>5, <1>1, Sizes DEF Predict, Format, InRow, InLoops, RowsInv, LearningTypes, Indices
            <4> QED
                BY <4>1, Sizes DEF Left, Right
        <3>2. row \in Rows /\ row.spec1 = Left /\ row.spec2 = Right /\ PairOf(row) = {Left, Right}
            BY <3>1 DEF Rows, PairOf
        <3>3. /\ fp' = Append(fp, row)
              /\ dynamic_train_hset' = dynamic_train_hset \cup {entry_buf_1', entry_buf_2'}
            BY <2>4 DEF NewRow, PutNames
        <3>4. /\ entry_buf_1' = snprintf(entry_buf_1, Left, Right)
              /\ entry_buf_2' = snprintf(entry_buf_2, Right, Left)
              /\ entry_buf_1' \notin dynamic_train_hset
            BY <1>5 DEF Predict, Format
        <3>5. BothNamed(dynamic_train_hset', row)
            BY <3>2, <3>3, <3>4 DEF BothNamed, Named
        <3> HIDE DEF row
        <3>6. /\ RowsNamed' /\ Len(fp') = Len(fp) + 1 /\ fp'[Len(fp) + 1] = row /\ Len(fp) \in Nat
              /\ \A k \in 1..Len(fp) : fp'[k] = fp[k]
            BY <3>2, <3>3, <3>5, RowNamed
        <3>7. ASSUME NamesClean'
              PROVE  NewPairsOnce'
            <4>1. NamesClean /\ NewPairsOnce
                BY <3>3, <3>7, MoreNames DEF OnceInv
            <4>2. CleanName(entry_buf_1')
                BY <3>3, <3>7 DEF NamesClean, CleanName
            <4>3. \A k \in 1..Len(fp) : PairOf(fp[k]) # {Left, Right}
                <5>1. /\ CleanName(snprintf(entry_buf_1, Left, Right))
                      /\ snprintf(entry_buf_1, Left, Right) \notin dynamic_train_hset
                    BY <3>4, <4>2
                <5> QED
                    BY <3>1, <4>1, <5>1, NewPairIsNew
            <4>4. ASSUME NEW l \in (labelled + 1)..(Len(fp) + 1), NEW k \in 1..(l - 1)
                  PROVE  PairOf(fp'[k]) # PairOf(fp'[l])
                <5>1. labelled \in Nat
                    BY <1>1 DEF LabelledFirst
                <5>2. k \in 1..Len(fp) /\ fp'[k] = fp[k]
                    BY <5>1, <3>6
                <5>3. CASE l = Len(fp) + 1
                    BY <5>2, <5>3, <3>2, <3>6, <4>3
                <5>4. CASE l \in (labelled + 1)..Len(fp)
                    <6>1. fp'[l] = fp[l]
                        BY <5>1, <5>4, <3>6
                    <6> QED
                        BY <5>2, <5>4, <6>1, <4>1 DEF NewPairsOnce
                <5> QED
                    BY <5>1, <5>3, <5>4, <3>6
            <4>5. labelled' = labelled /\ Len(fp') = Len(fp) + 1
                BY <3>6, <2>1
            <4>6. \A l \in (labelled' + 1)..Len(fp') : \A k \in 1..(l - 1) :
                     PairOf(fp'[k]) # PairOf(fp'[l])
                BY <4>4, <4>5
            <4> QED
                BY <4>6 DEF NewPairsOnce
        <3> QED
            BY <2>2, <3>6, <3>7
    <2> QED
        BY <1>5, <2>3, <2>4 DEF Predict
<1>6. CASE UNCHANGED learning_vars
    <2>1. UNCHANGED <<stage, fp, rest, labelled, dynamic_train_hset>>
        BY <1>6 DEF learning_vars, file
    <2> QED
        BY <2>1, <1>1, OnceKept DEF LabelledFirst
<1> QED
    BY <1>2, <1>3, <1>4, <1>5, <1>6 DEF LearningNext

(* As long as no old bytes have come into the set behind a name, no pair is  *)
(* added to dynamic_train_set.csv that is there already, nor the other way   *)
(* round: for any names, cut off or ambiguous ones too, any buffers and any  *)
(* predictions (main.c:770-829).                                             *)
THEOREM NewPairsAreNew == LearningSpec => []NoPairTwice
<1>1. InitLearning => OnceInv
    <2> SUFFICES ASSUME InitLearning
                 PROVE  OnceInv
        OBVIOUS
    <2>1. RowsInv
        BY RowsInit
    <2>2. fp = <<>> /\ labelled = Len(rest) /\ rest \in Seq(Rows)
        BY <2>1 DEF InitLearning, RowsInv, LearningTypes
    <2>3. Len(fp) = 0 /\ Len(rest) \in Nat
        BY <2>2
    <2> QED
        BY <2>1, <2>2, <2>3 DEF OnceInv, LabelledFirst, RowsNamed, NewPairsOnce
<1>2. OnceInv => NoPairTwice
    BY DEF OnceInv, NewPairsOnce, NoPairTwice
<1> QED
    BY <1>1, <1>2, OnceNext, PTL DEF LearningSpec
=============================================================================
