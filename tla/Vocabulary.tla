----------------------------- MODULE Vocabulary -----------------------------
(***************************************************************************)
(* The words of the JSON files: src/src/ml.c, the functions of             *)
(* src/src/main.c that call it, and what src/src/user.c makes of the files *)
(* that main exports.                                                      *)
(*                                                                         *)
(* A file is what the tokenizer makes of its strings: all, the words in    *)
(* their order, and kept, those that are no stop words.  The logarithm of  *)
(* ml_idf_remove grows with its argument, which stands for it.             *)
(***************************************************************************)
EXTENDS Integers, Sequences, FiniteSets

CONSTANTS Specs, Words,
          IdfLimit          \* exp(8.692)

ASSUME VocabularyAssumption ==
    IsFiniteSet(Specs) /\ IsFiniteSet(Words) /\ IdfLimit \in Nat

VARIABLES json_dict,        \* the files read so far, by spec
          train,            \* train_json_files_set
          tfidf,            \* options.vec_mode
          phase,
          todo,             \* the files of train still to come
          json_bow_set,
          vocabulary,       \* vocabulary_bow_dict
          i, c, ahead,      \* a loop over words: its index, the words it has
                            \* deleted, the words it has not met yet
          vectors,          \* vectors_dict
          csv,              \* vocabulary.csv, the lines
          weights_len,      \* of model.csv
          user_bow, user_vocabulary, user_vectors

loop == <<i, c, ahead>>
exported == <<csv, weights_len>>
user == <<user_bow, user_vocabulary, user_vectors>>
vars == <<json_dict, train, tfidf, phase, todo, json_bow_set, vocabulary, loop,
          vectors, exported, user>>

-----------------------------------------------------------------------------
bow_sz == Cardinality(DOMAIN vocabulary)

\* ml_create gets the load of json_dict.
json_ht_load == Cardinality(DOMAIN json_dict)

Files == [all : Seq(Words), kept : SUBSET Words]

Init ==
    /\ json_dict = <<>> /\ train = {} /\ tfidf \in BOOLEAN
    /\ phase = "read" /\ todo = {}
    /\ json_bow_set = {} /\ vocabulary = <<>>
    /\ i = 0 /\ c = 0 /\ ahead = {}
    /\ vectors = <<>> /\ csv = {} /\ weights_len = 0
    /\ user_bow = FALSE /\ user_vocabulary = <<>> /\ user_vectors = <<>>

-----------------------------------------------------------------------------
(* init_json_dict and init_json_train_set *)

\* dict_put, of a key that is not there.
With(dict, key, value) ==
    [x \in DOMAIN dict \cup {key} |-> IF x = key THEN value ELSE dict[x]]

PutFile(s, file) ==
    /\ phase = "read" /\ s \notin DOMAIN json_dict
    /\ json_dict' = With(json_dict, s, file)
    /\ UNCHANGED <<train, tfidf, phase, todo, json_bow_set, vocabulary, loop,
                   vectors, exported, user>>

\* What the file holds is any words; see Corpus.
ReadFile(s) ==
    /\ s \in DOMAIN json_dict' /\ json_dict'[s] \in Files
    /\ PutFile(s, json_dict'[s])

\* The train set has any pairs of specs.
init_json_train_set ==
    /\ phase = "read" /\ DOMAIN json_dict = Specs
    /\ \E train_set \in SUBSET {p \in Specs \X Specs : p[1] # p[2]} :
          train' = UNION {{p[1], p[2]} : p \in train_set}
    /\ todo' = train'
    /\ phase' = "collect"
    /\ UNCHANGED <<json_dict, tfidf, json_bow_set, vocabulary, loop, vectors,
                   exported, user>>

-----------------------------------------------------------------------------
(* tokenize_json_train_set *)

\* The words of one file are put into the set.
Collect(s) ==
    /\ phase = "collect" /\ s \in todo
    /\ todo' = todo \ {s}
    /\ json_bow_set' = json_bow_set \cup json_dict[s].kept
    /\ phase' = "count" /\ i' = 0
    /\ UNCHANGED <<json_dict, train, tfidf, vocabulary, c, ahead, vectors, exported, user>>

\* mutant: the word is left in the set
CountKeeps(w) ==
    /\ phase = "count" /\ w \in json_bow_set /\ i < Cardinality(json_bow_set)
    /\ vocabulary' =
          With(vocabulary, w,
               IF w \in DOMAIN vocabulary THEN [vocabulary[w] EXCEPT !.count = @ + 1]
               ELSE [position |-> bow_sz, count |-> 1, idf |-> 0])
    /\ i' = i + 1
    /\ UNCHANGED <<json_dict, train, tfidf, phase, todo, json_bow_set, c, ahead,
                   vectors, exported, user>>

\* One turn of ml_init_vocabulary_from_json_bow_set.  The bound of the loop is
\* the load of the set, which loses the word.
Count(w) ==
    /\ phase = "count" /\ w \in json_bow_set /\ i < Cardinality(json_bow_set)
    /\ vocabulary' =
          With(vocabulary, w,
               IF w \in DOMAIN vocabulary THEN [vocabulary[w] EXCEPT !.count = @ + 1]
               ELSE [position |-> bow_sz, count |-> 1, idf |-> 0])
    /\ json_bow_set' = json_bow_set \ {w}
    /\ i' = i + 1
    /\ UNCHANGED <<json_dict, train, tfidf, phase, todo, c, ahead, vectors, exported, user>>

CountEnd ==
    /\ phase = "count" /\ i >= Cardinality(json_bow_set)
    /\ phase' = "collect"
    /\ UNCHANGED <<json_dict, train, tfidf, todo, json_bow_set, vocabulary, loop,
                   vectors, exported, user>>

CollectEnd ==
    /\ phase = "collect" /\ todo = {}
    /\ phase' = IF tfidf THEN "remove" ELSE "vectors"
    /\ json_bow_set' = {}
    /\ i' = 0 /\ c' = 0 /\ ahead' = DOMAIN vocabulary
    /\ UNCHANGED <<json_dict, train, tfidf, todo, vocabulary, vectors, exported, user>>

-----------------------------------------------------------------------------
(* ml_idf_remove *)

Idf(w) == json_ht_load \div vocabulary[w].count

Without(w) == [x \in DOMAIN vocabulary \ {w} |-> vocabulary[x]]

\* mutant: the deleted words are counted as well
RemoveHoles(w) ==
    /\ phase = "remove" /\ w \in ahead
    /\ ahead' = ahead \ {w} /\ i' = i + 1
    /\ IF Idf(w) > IdfLimit
       THEN vocabulary' = Without(w) /\ c' = c + 1
       ELSE /\ vocabulary' = [vocabulary EXCEPT ![w] = [@ EXCEPT !.idf = Idf(w), !.position = i]]
            /\ UNCHANGED c
    /\ UNCHANGED <<json_dict, train, tfidf, phase, todo, json_bow_set, vectors, exported, user>>

\* The bound is the size at the start, so that the loop meets every word.
RemoveWord(w) ==
    /\ phase = "remove" /\ w \in ahead
    /\ ahead' = ahead \ {w} /\ i' = i + 1
    /\ IF Idf(w) > IdfLimit
       THEN vocabulary' = Without(w) /\ c' = c + 1
       ELSE /\ vocabulary' = [vocabulary EXCEPT ![w] = [@ EXCEPT !.idf = Idf(w), !.position = i - c]]
            /\ UNCHANGED c
    /\ UNCHANGED <<json_dict, train, tfidf, phase, todo, json_bow_set, vectors, exported, user>>

RemoveEnd ==
    /\ phase = "remove" /\ ahead = {}
    /\ phase' = "vectors"
    /\ UNCHANGED <<json_dict, train, tfidf, todo, json_bow_set, vocabulary, loop,
                   vectors, exported, user>>

-----------------------------------------------------------------------------
(* Vectors *)

\* How often the words of positions come.
Hits(dict, file, positions) ==
    Cardinality({k \in DOMAIN file.all :
                    file.all[k] \in DOMAIN dict /\ dict[file.all[k]].position \in positions})

\* mutant: the positions begin with 1
VectorFromOne(dict, file, weigh) ==
    LET size == Cardinality(DOMAIN dict)
        wc   == Hits(dict, file, 0..(size - 1))
    IN  [p \in 0..(size - 1) |->
            [n   |-> Hits(dict, file, {p + 1}),
             wc  |-> IF weigh /\ wc # 0 THEN wc ELSE 1,
             idf |-> IF weigh THEN {dict[w].idf : w \in {x \in DOMAIN dict : dict[x].position = p}}
                     ELSE {}]]

\* ml_bow_json_vector and, to weigh, ml_tfidf: entry p of the vector is n / wc
\* times the factors of idf.
Vector(dict, file, weigh) ==
    LET size == Cardinality(DOMAIN dict)
        wc   == Hits(dict, file, 0..(size - 1))
    IN  [p \in 0..(size - 1) |->
            [n   |-> Hits(dict, file, {p}),
             wc  |-> IF weigh /\ wc # 0 THEN wc ELSE 1,
             idf |-> IF weigh THEN {dict[w].idf : w \in {x \in DOMAIN dict : dict[x].position = p}}
                     ELSE {}]]

init_vectors_dict ==
    /\ phase = "vectors"
    /\ vectors' = [s \in Specs |-> Vector(vocabulary, json_dict[s], tfidf)]
    /\ phase' = "export"
    /\ UNCHANGED <<json_dict, train, tfidf, todo, json_bow_set, vocabulary, loop,
                   exported, user>>

\* ml_export_vocabulary, and the model that lr_new made for its size.  The six
\* decimals of a logarithm tell the quotients up to a million apart.
Export ==
    /\ phase = "export"
    /\ csv' = {[key |-> w, word |-> vocabulary[w]] : w \in DOMAIN vocabulary}
    /\ weights_len' = bow_sz
    /\ phase' = "user"
    /\ UNCHANGED <<json_dict, train, tfidf, todo, json_bow_set, vocabulary, loop,
                   vectors, user>>

-----------------------------------------------------------------------------
(* user.c, on the same JSON files *)

\* mutant: the words are numbered anew
ImportRenumbered ==
    LET keys == {row.key : row \in csv}
        order == CHOOSE f \in [keys -> 0..(Cardinality(keys) - 1)] :
                    \A x, y \in keys : f[x] = f[y] => x = y
    IN  [w \in keys |-> [position |-> order[w], count |-> 0, idf |-> 0]]

ml_init_vocabulary ==
    [w \in {row.key : row \in csv} |-> (CHOOSE row \in csv : row.key = w).word]

\* lr_new_from_file compares the first line, with its line end, with "bow", so
\* that bow is set whatever the line says.
Predict ==
    /\ phase = "user"
    /\ user_vocabulary' = ml_init_vocabulary
    /\ user_bow' = TRUE
    /\ user_vectors' = [s \in Specs |-> Vector(ml_init_vocabulary, json_dict[s], ~user_bow')]
    /\ phase' = "done"
    /\ UNCHANGED <<json_dict, train, tfidf, todo, json_bow_set, vocabulary, loop,
                   vectors, exported>>

Next ==
    \/ \E s \in Specs : ReadFile(s) \/ Collect(s)
    \/ init_json_train_set
    \/ \E w \in Words : Count(w) \/ RemoveWord(w)
    \/ CountEnd \/ CollectEnd \/ RemoveEnd
    \/ init_vectors_dict \/ Export \/ Predict

Spec == Init /\ [][Next]_vars

-----------------------------------------------------------------------------
Taken == train \ todo

\* The train files gone through whose strings hold the word.
FilesWith(w) == {s \in Taken : w \in json_dict[s].kept}

(* The count of a word is never more than the number of files it is in, so *)
(* that the quotient of ml_idf_remove is not zero; and no word of a file    *)
(* is lost but those that the loop of ml.c:175 leaves in the set when the   *)
(* last file has been taken.                                                *)
CountsAreFiles ==
    /\ \A w \in DOMAIN vocabulary : vocabulary[w].count \in 1..Cardinality(FilesWith(w))
    /\ phase \in {"collect", "count"} =>
          DOMAIN vocabulary \cup json_bow_set = UNION {json_dict[s].kept : s \in Taken}

(* The positions of the words are 0 to bow_sz - 1, each once, whenever     *)
(* vectors are made or exported, also after ml_idf_remove has deleted words *)
(* and numbered the others in the order of the table.                       *)
PositionsFit ==
    phase # "remove" =>
        /\ \A v, w \in DOMAIN vocabulary :
              vocabulary[v].position = vocabulary[w].position => v = w
        /\ \A w \in DOMAIN vocabulary : vocabulary[w].position \in 0..(bow_sz - 1)

(* The prediction program gives each file the counts that main trained     *)
(* with, each at the same index, in vectors as long as the weights; its     *)
(* vectors are the same when main made them without tf-idf.                 *)
UserSeesSameVector ==
    phase = "done" =>
        /\ user_vocabulary = vocabulary
        /\ \A s \in Specs :
              /\ DOMAIN user_vectors[s] = 0..(weights_len - 1)
              /\ \A p \in DOMAIN vectors[s] : user_vectors[s][p].n = vectors[s][p].n
              /\ ~tfidf => user_vectors[s] = vectors[s]
==============================================================================
