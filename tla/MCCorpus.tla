------------------------------ MODULE MCCorpus ------------------------------
(* Single JSON texts, well-formed and not, and small corpora of files. *)
EXTENDS Corpus, JsonText

-----------------------------------------------------------------------------
(* Numbers are counted in thousandths *)

Written(x) ==
    CASE x = 7000  -> <<"7">>
      [] x = -500  -> <<"-", "0", ".", "5">>
      [] x = 20000 -> <<"2", "E", "+", "1">>
      [] x = 300   -> <<"3", "e", "-", "1">>

Lf(x) ==
    CASE x = 7000  -> <<"7", ".", "0", "0", "0", "0", "0", "0">>
      [] x = -500  -> <<"-", "0", ".", "5", "0", "0", "0", "0", "0">>
      [] x = 20000 -> <<"2", "0", ".", "0", "0", "0", "0", "0", "0">>
      [] x = 300   -> <<"0", ".", "3", "0", "0", "0", "0", "0">>

Numbers == {7000, -500, 20000, 300}
MCprintf_lf == [x \in Numbers |-> Lf(x)]
MCatof ==
    [t \in {Written(x) : x \in Numbers} \cup {Lf(x) : x \in Numbers} |->
        CHOOSE x \in Numbers : t \in {Written(x), Lf(x)}]

-----------------------------------------------------------------------------
(* Values and the texts that are written for them *)

Quoted(s) == <<Quote>> \o s \o <<Quote>>

Strings ==
    {Quoted(<<>>), Quoted(<<"a", ",", "}">>),
     Quoted(<<Backslash, Quote, Backslash, Backslash>>),
     Quoted(<<Backslash, "u", "0", "0", "4", "1", "]">>)}

Scalars ==
    {[num |-> x] : x \in Numbers} \cup {[bool |-> TRUE], [bool |-> FALSE], [null |-> 0]}
    \cup {[str |-> s] : s \in Strings}

Keys == {Quoted(<<"a">>), Quoted(<<"b", ":">>)}

ArraysOf(S) == {[arr |-> s] : s \in {<<x>> : x \in S} \cup (S \X S)}

Member(k, v) == [key |-> k, value |-> v]
ObjectsOf(S) ==
    {[kvs |-> s] : s \in {<<Member(k, v)>> : k \in Keys, v \in S}
                         \cup {<<Member(p[1], p[2]), Member(p[3], p[4])>> :
                                  p \in Keys \X S \X Keys \X S}}

One == [num |-> 7000]
Empty == [kvs |-> <<>>]

\* Objects of several keys, long and short and the same.
Wide ==
    LET k == <<Quoted(<<"a">>), Quoted(<<"b">>), Quoted(<<"a", "b">>), Quoted(<<>>)>>
    IN  {[kvs |-> [n \in 1..len |-> Member(k[order[n]], One)]] :
            len \in 3..4, order \in [1..4 -> 1..4]}

Inner ==
    {One, Empty, [arr |-> <<One>>], [arr |-> <<Empty>>],
     [kvs |-> <<Member(Quoted(<<"a">>), [null |-> 0])>>]}

\* No array is empty: the parser takes the bracket that closes it for a value.
Values ==
    Scalars \cup {Empty} \cup ArraysOf(Scalars) \cup ObjectsOf({One, [null |-> 0]}) \cup Wide
    \cup ArraysOf(Inner) \cup ObjectsOf(Inner)
    \cup ArraysOf({[arr |-> <<[arr |-> <<One>>]>>], [kvs |-> <<Member(Quoted(<<>>), Empty)>>]})

RECURSIVE Render(_, _)
Render(v, sp) ==
    LET Comma(k) == IF k = 1 THEN <<>> ELSE sp \o <<",">>
        Item(k) == Comma(k) \o Render(v.arr[k], sp)
        Line(k) == Comma(k) \o sp \o v.kvs[k].key \o sp \o <<":">> \o Render(v.kvs[k].value, sp)
    IN  CASE "num" \in DOMAIN v  -> sp \o Written(v.num)
          [] "bool" \in DOMAIN v -> sp \o IF v.bool THEN <<"t", "r", "u", "e">>
                                          ELSE <<"f", "a", "l", "s", "e">>
          [] "null" \in DOMAIN v -> sp \o <<"n", "u", "l", "l">>
          [] "str" \in DOMAIN v  -> sp \o v.str
          [] "arr" \in DOMAIN v  ->
                sp \o <<"[">> \o FlattenSeq([k \in DOMAIN v.arr |-> Item(k)]) \o sp \o <<"]">>
          [] OTHER ->
                sp \o <<"{">> \o FlattenSeq([k \in DOMAIN v.kvs |-> Line(k)]) \o sp \o <<"}">>

\* Texts that may be no JSON at all.
Pieces == {<<"{">>, <<"}">>, <<"[">>, <<"]">>, <<",">>, <<":">>,
           Quoted(<<"a">>), <<"7", " ">>, <<"n", "u", "l", "l">>, <<Quote>>, <<"x">>}

Soup == UNION {{FlattenSeq(s) : s \in [1..n -> Pieces]} : n \in 1..4}

-----------------------------------------------------------------------------
(* Corpora *)

MCLowerOf == [E |-> "e", A |-> "a"]
MCstopwords == {<<"o">>}
MCWords == {<<"a">>, <<"b">>, <<"o">>, <<"e">>, <<"n", "b">>}

Str(s) == [str |-> Quoted(s)]
Doc(members) == Render([kvs |-> members], <<"\n">>)

FileDocs ==
    [ab   |-> Doc(<<Member(Quoted(<<"k">>), Str(<<"a", " ", "o", " ", "b">>)),
                    Member(Quoted(<<"l">>), Str(<<"A", "/", "o">>)),
                    Member(Quoted(<<"b">>), Str(<<"o">>))>>),
     twice |-> Doc(<<Member(Quoted(<<"k">>), Str(<<"A", "-", "a", "1", "e">>)),
                    Member(Quoted(<<"l">>), Str(<<"o", ".", "o", " ", "e">>))>>),
     esc  |-> Doc(<<Member(Quoted(<<"k">>), Str(<<Backslash, "n", "b", " ", "b">>)),
                    Member(Quoted(<<"k">>), Str(<<"e">>))>>),
     deep |-> Doc(<<Member(Quoted(<<"k">>), [arr |-> <<Str(<<"a">>)>>]),
                    Member(Quoted(<<"l">>), Str(<<"b">>))>>),
     none |-> Doc(<<>>)]

Corpora ==
    {<<[spec |-> "s1", text |-> FileDocs[x]], [spec |-> "s2", text |-> FileDocs[y]],
       [spec |-> "s3", text |-> FileDocs[z]]>> :
        <<x, y, z>> \in {<<"twice", "esc", "deep">>, <<"esc", "deep", "deep">>,
                         <<"twice", "none", "esc">>, <<"ab", "twice", "ab">>}}

-----------------------------------------------------------------------------
\* A single text.
InitText ==
    /\ Init /\ tfidf = FALSE /\ InitParser /\ files = <<>>
    /\ \/ written \in Values /\ \E sp \in {<<>>, <<" ", "\n">>} : text = Render(written, sp)
       \/ written = NoEntity /\ text \in Soup

UseText ==
    /\ files = <<>> /\ UNCHANGED <<vars, files>>
    /\ ParsePrinted \/ FreeEntities

MCInit == InitText \/ InitCorpus(Corpora)
MCNext == CorpusNext \/ UseText
MCSpec == MCInit /\ [][MCNext]_corpus_vars
==============================================================================
