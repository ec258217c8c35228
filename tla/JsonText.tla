------------------------------- MODULE JsonText -------------------------------
(***************************************************************************)
(* What json_print_value of src/src/json_parser.c makes of an entity, and  *)
(* the properties of the parser and of the functions of lists.c that are   *)
(* stated with recursion.                                                  *)
(***************************************************************************)
EXTENDS JsonParser, Lists

CONSTANT printf_lf          \* numbers to the texts of %lf

Join(texts, sep) ==
    FoldLeft(LAMBDA acc, t : IF acc = <<>> THEN t ELSE acc \o sep \o t, <<>>, texts)

RECURSIVE json_print_value(_)
json_print_value(ent) ==
    CASE Is("num", ent)  -> printf_lf[ent.num]
      [] Is("null", ent) -> <<"n", "u", "l", "l">>
      [] Is("bool", ent) -> IF ent.bool THEN <<"t", "r", "u", "e">>
                            ELSE <<"f", "a", "l", "s", "e">>
      [] Is("str", ent)  -> ent.str
      [] Is("arr", ent)  ->
            <<"[">> \o Join([k \in DOMAIN ent.arr |-> json_print_value(ent.arr[k])], <<",", " ">>)
                    \o <<"]">>
      [] Is("kvs", ent)  ->
            LET nodes == Nodes(m, ent.keys)
                Line(k) == data[nodes[k]] \o <<" ", ":", " ">>
                               \o json_print_value(json_get(ent, data[nodes[k]]))
            IN  <<"{">> \o FlattenSeq([k \in DOMAIN nodes |-> Line(k)]) \o <<"}">>
      [] OTHER -> <<>>

\* The text is what json_print_value has printed; of an empty array it would
\* print what lies where there are no contents.
ParsePrinted ==
    /\ place = "done" /\ held = <<>>
    /\ [arr |-> <<>>] \notin ToSet(Within(<<ret>>))
    /\ ParseAgain(json_print_value(ret))
    /\ UNCHANGED written

-----------------------------------------------------------------------------
(* Properties *)

Objects(ent) == {x \in ToSet(Within(<<ent>>)) : Is("kvs", x)}

\* An entity without its pointers.
RECURSIVE Shape(_)
Shape(ent) ==
    IF Is("arr", ent) THEN [arr |-> [k \in DOMAIN ent.arr |-> Shape(ent.arr[k])]]
    ELSE IF Is("kvs", ent)
    THEN [kvs |-> [k \in DOMAIN ent.kvs |->
                      [key |-> ent.kvs[k].key, value |-> Shape(ent.kvs[k].value)]]]
    ELSE ent

(* A JSON text whose arrays are not empty is parsed to the value it was     *)
(* written for, with any space between its tokens; the keys of each object  *)
(* are listed once each time they come, the last one first.  What           *)
(* json_print_value prints is parsed to the value it was called with,       *)
(* unless an object has two members: it puts no comma between them.         *)
ParsesWhatIsWritten ==
    /\ ~Is("none", written) /\ held = <<>> =>
          /\ place \notin Broken
          /\ place = "done" =>
                /\ Shape(ret) = written
                /\ \A obj \in Objects(ret) :
                      KeyNames(obj) = Reverse([k \in DOMAIN obj.kvs |-> obj.kvs[k].key])
    /\ /\ ~Is("none", written) /\ Len(held) = 1
       /\ \A obj \in Objects(held[1]) : Len(obj.kvs) <= 1
       => /\ place \notin Broken
          /\ place = "done" => Shape(ret) = Shape(held[1])

\* Variables of the caller.
Mine   == VarA(50)
Yours  == VarB(50)
Theirs == VarA(51)

\* The list functions on the list l: its nodes are s, n of them go to Mine.
SplitRight(l, s, n) ==
    LET cut  == ll_split((Mine :> NULL) @@ (Yours :> NULL) @@ (Theirs :> l) @@ m,
                         Theirs, Mine, Yours, n)
        back == ll_pushlist(cut, Yours, cut[Mine])
    IN  /\ Nodes(cut, cut[Mine]) = SubSeq(s, 1, n)
        /\ Nodes(cut, cut[Yours]) = SubSeq(s, n + 1, Len(s))
        /\ n > 0 => Nodes(back, back[Yours]) = s

SortRight(l, s) ==
    LET less   == {p \in ToSet(s) \X ToSet(s) : Len(data[p[1]]) < Len(data[p[2]])}
        done   == ll_sort((Mine :> l) @@ m, Mine, less)
        sorted == Nodes(done, done[Mine])
    IN  /\ ToSet(sorted) = ToSet(s) /\ Len(sorted) = Len(s)
        /\ \A k \in 1..(Len(s) - 1) : <<sorted[k + 1], sorted[k]>> \notin less
        /\ \A x \in DOMAIN m \ ToSet(s) : done[x] = m[x]

ReverseRight(l, s) ==
    LET done == ll_reverse((Mine :> l) @@ m, Mine)
    IN  /\ Nodes(done, done[Mine]) = Reverse(s)
        /\ \A x \in DOMAIN m \ ToSet(s) : done[x] = m[x]

LookRight(l, s) ==
    LET copy == ll_map(m, l, [x \in ToSet(s) |-> 1000 + x])
    IN  /\ ll_len(m, l) = Len(s) /\ ll_tail(m, l) = Last(s)
        /\ \A n \in 0..Len(s) : ll_nth(m, l, n) = (IF n < Len(s) THEN s[n + 1] ELSE NULL)
        /\ \A k \in DOMAIN s : ll_search(m, l, {x \in ToSet(s) : data[x] = data[s[k]]})
                               = s[Min({j \in DOMAIN s : data[s[j]] = data[s[k]]})]
        /\ Nodes(copy.m, copy.out) = [k \in DOMAIN s |-> 1000 + s[k]]

(* On each list of keys that the parser has built the functions of lists.c  *)
(* do what they do to a sequence: none loses a node, takes one twice, makes *)
(* a circle or touches another list, sorting leaves no key before a shorter *)
(* one, and a list that was split is whole again when the parts are joined. *)
ListFunctionsRight ==
    place = "done" =>
        \A obj \in Objects(ret) :
            LET l == obj.keys
                s == Nodes(m, l)
            IN  s # <<>> =>
                    /\ \A n \in 0..Len(s) : SplitRight(l, s, n)
                    /\ SortRight(l, s) /\ ReverseRight(l, s) /\ LookRight(l, s)
==============================================================================
