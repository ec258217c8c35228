----------------------------- MODULE JsonParser -----------------------------
(***************************************************************************)
(* src/src/json_parser.c on the tokens of json_next_token and with the     *)
(* linked lists of lists.c: one step for each token.  The calls of the     *)
(* recursive descent that are open are the stack.                          *)
(*                                                                         *)
(* place: "value"  json_parse_value takes the next token                   *)
(*        "key"    json_parse_object: a key or the end                     *)
(*        "colon"  json_parse_object: its assertion of a colon             *)
(*        "next"   behind a value of an object or an array                 *)
(*        "done"   json_parse_file or json_parse_string has returned ret   *)
(*        "freed"  the entities have been freed                            *)
(*        "crashed" NULL was used as a token; "aborted" an assertion       *)
(*        failed; "hung" the tokenizer does not return                     *)
(***************************************************************************)
EXTENDS Tokenizer, ListNodes

CONSTANT atof               \* the texts of numbers to numbers

VARIABLES text,             \* the rest of the file
          stack, place, ret,
          m,                \* the StringList nodes and the variables keys
          data,             \* the key of each node
          made, freed,      \* history: how many entities were made and freed
          held,             \* the entities that callers hold
          written           \* history: the value that the text was made of

memory == <<m, data>>
counts == <<made, freed>>
given  == <<held, written>>
parser_vars == <<text, stack, place, ret, memory, counts, given>>

-----------------------------------------------------------------------------
(* Entities *)

NoEntity == [none |-> 0]
json_null_ent == [null |-> 0]
json_new_num(x)  == [num |-> x]
json_new_bool(b) == [bool |-> b]
json_new_str(s)  == [str |-> s]
json_new_arr(contents) == [arr |-> contents]
json_new_obj(kvs, keys) == [kvs |-> kvs, keys |-> keys]

\* The type of an entity, by the field that only this type has.
Is(field, ent) == field \in DOMAIN ent

\* dict_get finds the entry that was put first, while the table has not grown.
json_get(obj, key) ==
    LET k == Min({x \in DOMAIN obj.kvs : obj.kvs[x].key = key}) IN obj.kvs[k].value

\* The entities directly in an array or object; contents may hold a key twice.
Contents(ent) ==
    IF Is("arr", ent) THEN ent.arr
    ELSE IF Is("kvs", ent) THEN [x \in DOMAIN ent.kvs |-> ent.kvs[x].value]
    ELSE <<>>

\* The entities directly in those of ents, and so on, level by level.
Inside(ents) == FlattenSeq([k \in DOMAIN ents |-> Contents(ents[k])])

Levels(ents) == LET level[n \in Nat] == IF n = 0 THEN ents ELSE Inside(level[n - 1]) IN level

\* The entities ents and all that is in them.  On each level but the last two
\* there is one that was made for another on the level before.
Within(ents) == FlattenSeq([n \in 1..(made + 2) |-> Levels(ents)[n - 1]])

Allocated(ent) == ~Is("none", ent) /\ ~Is("null", ent)

\* mutant: the list of keys is not freed
FreeKeepsKeys(ents) ==
    LET all == Within(ents)
    IN  [m |-> m, n |-> Cardinality({k \in DOMAIN all : Allocated(all[k])})]

\* json_entity_free of each of ents: the memory it leaves, and how many
\* entities it frees.
json_entity_free(ents) ==
    LET all     == Within(ents)
        objects == {k \in DOMAIN all : Is("kvs", all[k])}
    IN  [m |-> ll_free(m, {all[k].keys : k \in objects}),
         n |-> Cardinality({k \in DOMAIN all : Allocated(all[k])})]

Free(ents) ==
    LET left == json_entity_free(ents)
    IN  /\ m' = left.m /\ freed' = freed + left.n
        /\ data' = [x \in DOMAIN data \cap DOMAIN left.m |-> data[x]]

-----------------------------------------------------------------------------
(* Parsing *)

InitParser ==
    /\ stack = <<>> /\ place = "value" /\ ret = NoEntity
    /\ m = <<>> /\ data = <<>> /\ made = 0 /\ freed = 0
    /\ held = <<>>

Reading == {"value", "key", "colon", "next"}
token   == json_next_token(text).buf

\* One token is taken at one of the places.
Take(places) ==
    /\ place \in places
    /\ ~json_next_token_hangs(text) /\ token # <<>>
    /\ text' = json_next_token(text).f
    /\ UNCHANGED given

Depth == Len(stack)
Top   == stack[Depth]
In(field) == Depth > 0 /\ field \in DOMAIN Top

\* The variable keys of the json_parse_object at a depth.
KeysOf(depth) == VarA(100 + depth)

\* json_parse_value returns ent to the innermost of the open calls: dict_put of
\* an object, also of NULL; an array leaves NULL out.
Return(open, ent) ==
    IF open = <<>> THEN stack' = open /\ ret' = ent /\ place' = "done"
    ELSE LET top == Last(open)
             got == IF "kvs" \in DOMAIN top
                    THEN [top EXCEPT !.kvs = Append(@, [key |-> top.key, value |-> ent])]
                    ELSE IF Is("none", ent) THEN top ELSE [top EXCEPT !.arr = Append(@, ent)]
         IN  stack' = Append(Front(open), got) /\ place' = "next" /\ UNCHANGED ret

Goto(where) == place' = where /\ UNCHANGED <<stack, ret>>

IsNumber == token[1] \in isdigit \/ (token[1] = "-" /\ buf_get_char(token, 1) \in isdigit)

\* The entity that a token alone stands for, or none.
Scalar ==
    CASE IsNumber                         -> json_new_num(atof[token])
      [] token = <<"t", "r", "u", "e">>      -> json_new_bool(TRUE)
      [] token = <<"f", "a", "l", "s", "e">> -> json_new_bool(FALSE)
      [] token = <<"n", "u", "l", "l">>      -> json_null_ent
      [] token[1] = Quote                 -> json_new_str(token)
      [] OTHER                            -> NoEntity

json_parse_value ==
    /\ Take({"value"}) /\ token \notin {<<"{">>, <<"[">>}
    /\ Return(stack, Scalar)
    /\ made' = made + (IF Is("none", Scalar) \/ Is("null", Scalar) THEN 0 ELSE 1)
    /\ UNCHANGED <<memory, freed>>

ObjectBegin ==
    /\ Take({"value"}) /\ token = <<"{">>
    /\ stack' = Append(stack, [kvs |-> <<>>, key |-> <<>>])
    /\ m' = Store(m, KeysOf(Depth + 1), NULL)
    /\ place' = "key"
    /\ UNCHANGED <<ret, data, counts>>

\* malloc of a node
NewNode == CHOOSE n \in 1..(Cardinality(DOMAIN m) + 1) : n \notin DOMAIN m

ObjectKey ==
    /\ Take({"key"}) /\ token[1] # "}"
    /\ stack' = [stack EXCEPT ![Depth].key = token]
    /\ m' = ll_push(Store(m, NewNode, NULL), KeysOf(Depth), NewNode)
    /\ data' = Store(data, NewNode, token)
    /\ place' = "colon"
    /\ UNCHANGED <<ret, counts>>

ObjectColon ==
    /\ Take({"colon"})
    /\ Goto(IF token[1] = ":" THEN "value" ELSE "aborted")
    /\ UNCHANGED <<memory, counts>>

ObjectNext ==
    /\ Take({"next"}) /\ In("kvs") /\ token[1] # "}"
    /\ Goto(IF token[1] = "," THEN "key" ELSE "aborted")
    /\ UNCHANGED <<memory, counts>>

ObjectEnd ==
    /\ Take({"key", "next"}) /\ In("kvs") /\ token[1] = "}"
    /\ Return(Front(stack), json_new_obj(Top.kvs, m[KeysOf(Depth)]))
    /\ m' = Drop(m, {KeysOf(Depth)})
    /\ made' = made + 1
    /\ UNCHANGED <<data, freed>>

ArrayBegin ==
    /\ Take({"value"}) /\ token = <<"[">>
    /\ stack' = Append(stack, [arr |-> <<>>])
    /\ UNCHANGED <<place, ret, memory, counts>>

ArrayNext ==
    /\ Take({"next"}) /\ In("arr") /\ token = <<",">>
    /\ Goto("value")
    /\ UNCHANGED <<memory, counts>>

\* Anything else ends the array; what is not a bracket loses it.
ArrayEnd ==
    /\ Take({"next"}) /\ In("arr") /\ token # <<",">>
    /\ made' = made + 1
    /\ IF token = <<"]">>
       THEN Return(Front(stack), json_new_arr(Top.arr)) /\ UNCHANGED <<memory, freed>>
       ELSE Return(Front(stack), NoEntity) /\ Free(<<json_new_arr(Top.arr)>>)

\* No function that takes a token expects NULL.
NoToken ==
    /\ place \in Reading
    /\ token = <<>> \/ json_next_token_hangs(text)
    /\ Goto(IF json_next_token_hangs(text) THEN "hung" ELSE "crashed")
    /\ UNCHANGED <<text, memory, counts, given>>

\* json_parse_file, json_parse_string: one value, wherever the text goes on.
Parse ==
    \/ json_parse_value
    \/ ObjectBegin \/ ObjectKey \/ ObjectColon \/ ObjectNext \/ ObjectEnd
    \/ ArrayBegin \/ ArrayNext \/ ArrayEnd
    \/ NoToken

\* The caller holds the entity and has another text parsed.
ParseAgain(next) ==
    /\ place = "done"
    /\ held' = Append(held, ret) /\ text' = next
    /\ place' = "value" /\ ret' = NoEntity
    /\ UNCHANGED <<stack, memory, counts>>

FreeEntities ==
    /\ place = "done"
    /\ Free(Append(held, ret))
    /\ ret' = NoEntity /\ held' = <<>> /\ place' = "freed"
    /\ UNCHANGED <<text, stack, made, written>>

\* A caller has any of the texts parsed, one after the other.
ParserNext(texts) ==
    Parse \/ (\E next \in texts : ParseAgain(next) /\ UNCHANGED written) \/ FreeEntities

ParserSpec(texts) ==
    InitParser /\ text \in texts /\ [][ParserNext(texts)]_parser_vars

-----------------------------------------------------------------------------
(* Properties *)

Broken == {"crashed", "aborted", "hung"}

KeyNames(ent) == LET nodes == Nodes(m, ent.keys) IN [k \in DOMAIN nodes |-> data[nodes[k]]]

\* The open calls as the entities they make, with what they hold so far.
Open ==
    [k \in DOMAIN stack |->
        IF "kvs" \in DOMAIN stack[k] THEN json_new_obj(stack[k].kvs, m[KeysOf(k)])
        ELSE json_new_arr(stack[k].arr)]

\* Every entity that the parser or a caller can reach.
Reached == Within(Open \o held \o <<ret>>)

(* Whatever the text, each entity and each node of a list of keys that was  *)
(* made and not freed is reached once, by the open calls, by what they       *)
(* return or by the callers, and when all is freed nothing is left.          *)
NothingLeaks ==
    LET reached == Reached
        lists   == [k \in {x \in DOMAIN reached : Is("kvs", reached[x])} |->
                       ToSet(Nodes(m, reached[k].keys))]
        nodes   == {x \in DOMAIN m : x > 0}
    IN  /\ made - freed + Depth = Cardinality({k \in DOMAIN reached : Allocated(reached[k])})
        /\ \A k \in DOMAIN lists : lists[k] \subseteq nodes
        /\ \A x \in nodes : Cardinality({k \in DOMAIN lists : x \in lists[k]}) = 1
        /\ DOMAIN data = nodes
        /\ place = "freed" => made = freed /\ DOMAIN m = {}
==============================================================================
