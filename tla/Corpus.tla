------------------------------- MODULE Corpus -------------------------------
(***************************************************************************)
(* From the JSON files to the vectors: src/src/main.c has each file parsed *)
(* (JsonParser) and goes through the strings of its object with the two    *)
(* tokenizers of words (Tokenizer); what it does with the words is         *)
(* Vocabulary.                                                             *)
(***************************************************************************)
EXTENDS JsonParser, Vocabulary

CONSTANT stopwords

VARIABLE files              \* the files to be read: spec and text

corpus_vars == <<parser_vars, vars, files>>

-----------------------------------------------------------------------------
\* The string of each key of an object, in the order in which its list of keys
\* is met; a value that is no string has no words.
Sentences(obj) ==
    LET keys == KeyNames(obj)
        Value(k) == json_get(obj, keys[k])
    IN  [k \in DOMAIN keys |-> IF Is("str", Value(k)) THEN Value(k).str ELSE <<>>]

\* mutant: the empty word is taken for a word
WordsKeepEmpty(obj) ==
    LET texts == Sentences(obj)
    IN  [all  |-> FlattenSeq([k \in DOMAIN texts |-> Tokens(texts[k])]),
         kept |-> UNION {ToSet(TokensNoStopWords(stopwords, texts[k])) : k \in DOMAIN texts}]

\* What ml_bow_json_vector and tokenize_json_train_set meet; the latter leaves
\* the empty word out.
WordsOf(obj) ==
    LET texts == Sentences(obj)
    IN  [all  |-> FlattenSeq([k \in DOMAIN texts |-> Tokens(texts[k])]),
         kept |-> UNION {ToSet(TokensNoStopWords(stopwords, texts[k])) : k \in DOMAIN texts}
                  \ {<<>>}]

InitCorpus(corpora) ==
    /\ Init /\ InitParser /\ written = NoEntity
    /\ files \in corpora /\ text = files[1].text

ParseFile == Parse /\ UNCHANGED <<vars, files>>

\* The number of the file that is being parsed.
Current == Len(held) + 1

\* The file just parsed is put into json_dict, and the next one opened.
init_json_dict ==
    /\ phase = "read" /\ files # <<>> /\ place = "done"
    /\ PutFile(files[Current].spec, WordsOf(ret))
    /\ IF Current < Len(files)
       THEN ParseAgain(files[Current + 1].text) /\ UNCHANGED written
       ELSE UNCHANGED parser_vars
    /\ UNCHANGED files

\* Vocabulary's steps after the last file.
UseFiles ==
    /\ \/ \E s \in Specs : Collect(s)
       \/ init_json_train_set
       \/ \E w \in Words : Count(w) \/ RemoveWord(w)
       \/ CountEnd \/ CollectEnd \/ RemoveEnd
       \/ init_vectors_dict \/ Export \/ Predict
    /\ UNCHANGED <<parser_vars, files>>

\* dict_free of json_dict, with free_json_ht_ent.
FreeFiles == phase = "done" /\ FreeEntities /\ UNCHANGED <<vars, files>>

CorpusNext == ParseFile \/ init_json_dict \/ UseFiles \/ FreeFiles

CorpusSpec(corpora) == InitCorpus(corpora) /\ [][CorpusNext]_corpus_vars

\* Words and Specs hold all that the files say: what is put into json_dict is a
\* file of Vocabulary.
Known == place = "done" /\ phase = "read" =>
             files[Current].spec \in Specs /\ WordsOf(ret) \in Files

-----------------------------------------------------------------------------
\* The words of a string written down without a tokenizer: the letters from
\* the first to the last, none before or behind them.
Letters(x) == x \notin Separators

Runs(s) ==
    {r \in {<<a, b>> : a, b \in DOMAIN s} :
        /\ r[1] <= r[2] /\ \A k \in r[1]..r[2] : Letters(s[k])
        /\ r[1] > 1 => ~Letters(s[r[1] - 1])
        /\ r[2] < Len(s) => ~Letters(s[r[2] + 1])}

Spelled(s, r) == [k \in 1..(r[2] - r[1] + 1) |-> tolower(s[r[1] + k - 1])]

\* Where a word is written in a string, and in one of some strings.
WrittenAt(s, w)  == {r \in Runs(s) : Spelled(s, r) = w}
Occurrences(texts, w) == UNION {{k} \X WrittenAt(texts[k], w) : k \in DOMAIN texts}

\* The strings of an object, in the order of its members.
StringsOf(obj) ==
    [k \in DOMAIN obj.kvs |-> IF Is("str", obj.kvs[k].value) THEN obj.kvs[k].value.str ELSE <<>>]

KeysDiffer(obj) == IsInjective([k \in DOMAIN obj.kvs |-> obj.kvs[k].key])

\* The object of the k-th file.
Object(k) == Append(held, ret)[k]

(* The vector of a file holds at the position of each word of the           *)
(* vocabulary how often the strings of the file say it, in capitals too and *)
(* whatever stands around it, unless the file gives one key twice.          *)
VectorsCountWords ==
    phase \in {"export", "user"} =>
        \A k \in DOMAIN files : \A w \in DOMAIN vocabulary :
            KeysDiffer(Object(k)) =>
                vectors[files[k].spec][vocabulary[w].position].n
                    = Cardinality(Occurrences(StringsOf(Object(k)), w))
==============================================================================
