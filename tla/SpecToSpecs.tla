----------------------------- MODULE SpecToSpecs -----------------------------
(***************************************************************************)
(* The cliques of similar specs of src/src/spec_to_specs.c, used as        *)
(* src/src/main.c uses them: every spec is added, the labelled file is     *)
(* read once for the rows with label 1 (sts_merge) and once for those with *)
(* label 0 (sts_diff), and the pairs to train on are taken from the        *)
(* cliques.                                                                *)
(*                                                                         *)
(* The program is sequential.  What takes several steps here is findRoot,  *)
(* which climbs the parents one at a time and shortens the path behind it: *)
(*                                                                         *)
(* pc: "idle"   between calls                                              *)
(*     "first"  in findRoot for the first spec, now at `spec'              *)
(*     "last"   in findRoot for the last (or only) spec, now at `spec'     *)
(*     "act"    root1 and spec are the roots; the rest of the function     *)
(*     "write"  the pairs `out' are being written to the array             *)
(*                                                                         *)
(* The file has any rows: matches and differences are those used so far.   *)
(* different_len is left out: it decides which of two insertions that      *)
(* commute comes first.  An array of pairs is a sequence, and *counter its *)
(* length.                                                                 *)
(***************************************************************************)
EXTENDS Integers, Sequences, FiniteSets, SequencesExt

CONSTANTS Specs,               \* the specs that have a file
          NULL,
          MATCHES_CHUNK_SIZE,  \* pairs allocated at a time
          MaxRows              \* bound: distinct rows that are used

ASSUME SpecsAssumption ==
    /\ IsFiniteSet(Specs)
    /\ NULL \notin Specs
    /\ MATCHES_CHUNK_SIZE \in Nat \ {0}
    /\ MaxRows \in Nat

VARIABLES phase,               \* how far main has come
          added,               \* the keys of sts->dict
          parent, similar, similar_len, different, printed,  \* SpecEntry
          pc, left, right, spec, root1,                      \* the call
          matches, differences,                              \* the rows used
          todo, out, chunks, pairs                           \* the pairs

entries == <<added, parent, similar, similar_len, different, printed>>
call == <<pc, left, right, spec, root1>>
rows == <<matches, differences>>
output == <<todo, out, chunks, pairs>>
vars == <<phase, entries, call, rows, output>>

Phases == {"add", "merge", "diff", "similar", "different", "done"}

sts_new ==
    /\ phase = "add"
    /\ added = {}
    /\ parent = [x \in Specs |-> NULL]
    /\ similar = [x \in Specs |-> <<>>]
    /\ similar_len = [x \in Specs |-> 0]
    /\ different = [x \in Specs |-> <<>>]
    /\ printed = [x \in Specs |-> FALSE]
    /\ pc = "idle"
    /\ left = NULL /\ right = NULL /\ spec = NULL /\ root1 = NULL
    /\ matches = {} /\ differences = {}
    /\ todo = {} /\ out = <<>> /\ chunks = 0
    /\ pairs = [f \in {"similar", "different"} |-> <<>>]

\* The specs are the names of files, so each is added once.
sts_add(x) ==
    /\ phase = "add"
    /\ x \notin added
    /\ added' = added \cup {x}
    /\ parent' = [parent EXCEPT ![x] = x]
    /\ similar' = [similar EXCEPT ![x] = <<x>>]
    /\ similar_len' = [similar_len EXCEPT ![x] = 1]
    /\ UNCHANGED <<phase, different, printed, call, rows, output>>

-----------------------------------------------------------------------------
(* findRoot *)

Searching == pc \in {"first", "last"}

Climb ==
    /\ Searching
    /\ parent[spec] # spec
    /\ parent' = [parent EXCEPT ![spec] = parent[parent[spec]]]
    /\ spec' = parent[spec]
    /\ UNCHANGED <<phase, added, similar, similar_len, different, printed,
                   pc, left, right, root1, rows, output>>

Found ==
    /\ Searching
    /\ parent[spec] = spec
    /\ \/ /\ pc = "first"
          /\ pc' = "last" /\ root1' = spec /\ spec' = right
       \/ /\ pc = "last"
          /\ pc' = "act" /\ UNCHANGED <<root1, spec>>
    /\ UNCHANGED <<phase, entries, left, right, rows, output>>

-----------------------------------------------------------------------------
(* sts_merge and sts_diff, called by read_labelled_dataset_csv for a row   *)
(* with the label of the pass                                              *)

\* mutant: one pass, in which rows of both labels are used as they come
ReadRowOnePass(x, y) ==
    /\ phase \in {"merge", "diff"}
    /\ pc = "idle"
    /\ x # y
    /\ phase' \in {"merge", "diff"}
    /\ Cardinality(matches) + Cardinality(differences) < MaxRows
    /\ pc' = "first" /\ left' = x /\ right' = y /\ spec' = x /\ root1' = NULL
    /\ UNCHANGED <<entries, rows, output>>

ReadRow(x, y) ==
    /\ phase \in {"merge", "diff"}
    /\ pc = "idle"
    /\ x # y
    /\ \/ phase = "merge" /\ {x, y} \in matches
       \/ phase = "diff" /\ {x, y} \in differences
       \/ Cardinality(matches) + Cardinality(differences) < MaxRows
    /\ pc' = "first" /\ left' = x /\ right' = y /\ spec' = x /\ root1' = NULL
    /\ UNCHANGED <<phase, entries, rows, output>>

EndOfCall ==
    /\ pc' = "idle"
    /\ left' = NULL /\ right' = NULL /\ spec' = NULL /\ root1' = NULL

\* The two roots, the one with the longer list first.
Keep == IF similar_len[root1] < similar_len[spec] THEN spec ELSE root1
Gone == IF similar_len[root1] < similar_len[spec] THEN root1 ELSE spec

\* mutant: two specs of one clique are not told apart
sts_merge_Again ==
    /\ pc = "act" /\ phase = "merge"
    /\ similar' = [similar EXCEPT ![Keep] = @ \o similar[Gone], ![Gone] = <<>>]
    /\ similar_len' = [similar_len EXCEPT ![Keep] = @ + similar_len[Gone]]
    /\ parent' = [parent EXCEPT ![Gone] = Keep]
    /\ matches' = matches \cup {{left, right}}
    /\ EndOfCall
    /\ UNCHANGED <<phase, added, different, printed, differences, output>>

\* mutant: the absorbed root is hung under the first spec, not under its root
sts_merge_UnderSpec ==
    /\ pc = "act" /\ phase = "merge"
    /\ IF root1 = spec
       THEN UNCHANGED <<parent, similar, similar_len>>
       ELSE /\ similar' = [similar EXCEPT ![Keep] = @ \o similar[Gone],
                                          ![Gone] = <<>>]
            /\ similar_len' = [similar_len EXCEPT ![Keep] = @ + similar_len[Gone]]
            /\ parent' = [parent EXCEPT ![Gone] = left]
    /\ matches' = matches \cup {{left, right}}
    /\ EndOfCall
    /\ UNCHANGED <<phase, added, different, printed, differences, output>>

\* mutant: the absorbed root keeps its list
sts_merge_KeepsList ==
    /\ pc = "act" /\ phase = "merge"
    /\ IF root1 = spec
       THEN UNCHANGED <<parent, similar, similar_len>>
       ELSE /\ similar' = [similar EXCEPT ![Keep] = @ \o similar[Gone]]
            /\ similar_len' = [similar_len EXCEPT ![Keep] = @ + similar_len[Gone]]
            /\ parent' = [parent EXCEPT ![Gone] = Keep]
    /\ matches' = matches \cup {{left, right}}
    /\ EndOfCall
    /\ UNCHANGED <<phase, added, different, printed, differences, output>>

sts_merge ==
    /\ pc = "act" /\ phase = "merge"
    /\ IF root1 = spec
       THEN UNCHANGED <<parent, similar, similar_len>>
       ELSE /\ similar' = [similar EXCEPT ![Keep] = @ \o similar[Gone],
                                          ![Gone] = <<>>]
            /\ similar_len' = [similar_len EXCEPT ![Keep] = @ + similar_len[Gone]]
            /\ parent' = [parent EXCEPT ![Gone] = Keep]
    /\ matches' = matches \cup {{left, right}}
    /\ EndOfCall
    /\ UNCHANGED <<phase, added, different, printed, differences, output>>

\* s is put in the list of r unless it is there; ll_push puts it second.
Note(d, r, s) ==
    [d EXCEPT ![r] = IF @ = <<>> THEN <<s>>
                     ELSE IF Contains(@, s) THEN @
                     ELSE <<Head(@), s>> \o Tail(@)]

sts_diff ==
    /\ pc = "act" /\ phase = "diff"
    /\ different' = Note(Note(different, root1, spec), spec, root1)
    /\ differences' = differences \cup {{left, right}}
    /\ EndOfCall
    /\ UNCHANGED <<phase, added, parent, similar, similar_len, printed,
                   matches, output>>

-----------------------------------------------------------------------------
(* init_similar_pairs and init_different_pairs: one iteration per entry of *)
(* the dictionary, in the order of its buckets                             *)

Visit(x) ==
    /\ phase \in {"similar", "different"}
    /\ pc = "idle"
    /\ x \in todo
    /\ todo' = todo \ {x}
    /\ pc' = "last" /\ left' = x /\ spec' = x /\ UNCHANGED <<right, root1>>
    /\ UNCHANGED <<phase, entries, rows, out, chunks, pairs>>

\* Every element of s with every later one.
PairsAfter(s) == FlattenSeq([i \in 1..Len(s) |->
                   [j \in 1..(Len(s) - i) |-> <<s[i], s[i + j]>>]])

\* Every element of s with every element of t.
Product(s, t) == FlattenSeq([i \in 1..Len(s) |->
                   [j \in 1..Len(t) |-> <<s[i], t[j]>>]])

\* As the code has it: for each different root A whose own turn is over, the
\* roots that follow A in the list with the specs similar to A.
PairsOfDifferent(d) ==
    FlattenSeq([i \in 1..Len(d) |->
        IF printed[d[i]]
        THEN Product(SubSeq(d, i + 1, Len(d)), similar[d[i]])
        ELSE <<>>])

\* mutant: every spec is taken for a root
CollectForAll ==
    /\ pc = "act" /\ phase \in {"similar", "different"}
    /\ out' = IF phase = "similar"
              THEN PairsAfter(similar[spec])
              ELSE PairsOfDifferent(different[spec])
    /\ printed' = IF phase = "different" THEN [printed EXCEPT ![spec] = TRUE] ELSE printed
    /\ pc' = "write"
    /\ UNCHANGED <<phase, added, parent, similar, similar_len, different,
                   left, right, spec, root1, rows, todo, chunks, pairs>>

Collect ==
    /\ pc = "act" /\ phase \in {"similar", "different"}
    /\ out' = IF spec # left THEN <<>>
              ELSE IF phase = "similar"
              THEN PairsAfter(similar[left])
              ELSE PairsOfDifferent(different[left])
    /\ printed' = [printed EXCEPT ![left] = @ \/ (spec = left /\ phase = "different")]
    /\ pc' = "write"
    /\ UNCHANGED <<phase, added, parent, similar, similar_len, different,
                   left, right, spec, root1, rows, todo, chunks, pairs>>

\* mutant: the array grows one pair too late
GrowsLate == Len(pairs[phase]) > chunks * MATCHES_CHUNK_SIZE

Grows == Len(pairs[phase]) + 1 > chunks * MATCHES_CHUNK_SIZE

WritePair ==
    /\ pc = "write"
    /\ out # <<>>
    /\ chunks' = IF Grows THEN chunks + 1 ELSE chunks
    /\ pairs' = [pairs EXCEPT ![phase] = Append(@, Head(out))]
    /\ out' = Tail(out)
    /\ UNCHANGED <<phase, entries, call, rows, todo>>

EndOfVisit ==
    /\ pc = "write"
    /\ out = <<>>
    /\ EndOfCall
    /\ UNCHANGED <<phase, entries, rows, output>>

-----------------------------------------------------------------------------
(* main: the end of the directory, of the file, of the dictionary *)

After == [add |-> "merge", merge |-> "diff", diff |-> "similar",
          similar |-> "different", different |-> "done"]

NextPhase ==
    /\ phase # "done"
    /\ pc = "idle"
    /\ todo = {}
    /\ phase' = After[phase]
    /\ todo' = IF After[phase] \in {"similar", "different"} THEN added ELSE {}
    /\ chunks' = 0
    /\ UNCHANGED <<entries, call, rows, out, pairs>>

FindRoot == Climb \/ Found

Next ==
    \/ \E x \in Specs : sts_add(x)
    \/ \E x, y \in added : ReadRow(x, y)
    \/ FindRoot
    \/ sts_merge
    \/ sts_diff
    \/ \E x \in added : Visit(x)
    \/ Collect
    \/ WritePair
    \/ EndOfVisit
    \/ NextPhase

Spec == sts_new /\ [][Next]_vars

-----------------------------------------------------------------------------
\* The entries of the dictionary, the call and the rows.
EntryTypes ==
    /\ phase \in Phases
    /\ added \subseteq Specs
    /\ parent \in [Specs -> added \cup {NULL}]
    /\ \A x \in added : parent[x] \in added
    /\ similar \in [Specs -> Seq(Specs)]
    /\ similar_len \in [Specs -> Nat]
    /\ different \in [Specs -> Seq(Specs)]
    /\ printed \in [Specs -> BOOLEAN]
    /\ pc \in {"idle", "first", "last", "act", "write"}
    /\ {left, right, spec, root1} \subseteq added \cup {NULL}
    /\ matches \subseteq SUBSET added
    /\ differences \subseteq SUBSET added

\* The pairs made from them.
OutputTypes ==
    /\ todo \subseteq added
    /\ out \in Seq(Specs \X Specs)
    /\ chunks \in Nat
    /\ pairs \in [{"similar", "different"} -> Seq(Specs \X Specs)]

(* The types of the state: no entry and no call points outside the         *)
(* dictionary, which is never asked for a key it does not have.            *)
TypeOK == EntryTypes /\ OutputTypes

Roots == {x \in added : parent[x] = x}

\* The clique kept by root r.
Clique(r) == ToSet(similar[r])

(* Only roots hold a list, it holds each spec of the clique once, and      *)
(* similar_len is its length; every other entry's list is NULL             *)
(* (spec_to_specs.h:49-52).  The length of an absorbed root is stale.      *)
OnlyRootsHoldSimilar ==
    \A x \in added :
        IF x \in Roots
        THEN /\ x \in Clique(x)
             /\ IsInjective(similar[x])
             /\ similar_len[x] = Len(similar[x])
        ELSE similar[x] = <<>>

(* Whatever paths findRoot has shortened, even in the middle of a search,  *)
(* the parent of a spec is in its clique: a search that ends, ends at the  *)
(* root that holds the list of the clique.                                 *)
ParentInClique ==
    \A r \in Roots : \A x \in added : x \in Clique(r) <=> parent[x] \in Clique(r)

\* Linked: no set of specs that no row with label 1 leaves has only x.
Closed(S) == \A m \in matches : m \cap S = {} \/ m \subseteq S

Linked(x, y) == \A S \in SUBSET added : (x \in S /\ Closed(S)) => y \in S

(* Two specs are in one clique if and only if the rows with label 1 used   *)
(* so far link them, whatever the order and the repetitions of the rows.   *)
CliqueIffLinked ==
    \A x, y \in added : (\E r \in Roots : {x, y} \subseteq Clique(r)) <=> Linked(x, y)

(* The data structure divides the specs as its interface promises. *)
Abstract == INSTANCE Cliques WITH cliques <- {Clique(r) : r \in Roots}

IsCliques == Abstract!Spec

(* The parents never form a circle, although findRoot changes them while   *)
(* it follows them: any specs have one among them that is a root or has    *)
(* its parent elsewhere.                                                   *)
NoCircle ==
    \A S \in SUBSET added :
        S # {} => \E x \in S : parent[x] = x \/ parent[x] \notin S

(* Each clique knows the cliques that are different from it (README:110),  *)
(* no more and no fewer: root s is in the list of root r if and only if a  *)
(* row with label 0 names a spec of each.  It needs the two passes: a      *)
(* merge moves the root and leaves the notes about it behind.              *)
CliquesKnowDifferent ==
    \A r, s \in Roots :
        Contains(different[r], s)
          <=> \E x \in Clique(r), y \in Clique(s) : {x, y} \in differences

PairOf(p) == {p[1], p[2]}

(* Every two specs of a clique make one similar pair, in one order or the  *)
(* other, and nothing else does (README:112).  No pair to train on is      *)
(* labelled different as well, even when the file has rows that contradict *)
(* each other.                                                             *)
SimilarPairsOnce ==
    /\ phase \in {"different", "done"} =>
          /\ Cardinality({PairOf(pairs["similar"][i]) : i \in 1..Len(pairs["similar"])})
               = Len(pairs["similar"])
          /\ {PairOf(p) : p \in ToSet(pairs["similar"])}
               = UNION {kSubset(2, Clique(r)) : r \in Roots}
    /\ \A p \in ToSet(pairs["different"]) :
          \A r \in Roots : ~(PairOf(p) \subseteq Clique(r))

(* A pair is never written behind the end of the allocated chunks. *)
PairsFit == phase \in {"similar", "different"} =>
                Len(pairs[phase]) <= chunks * MATCHES_CHUNK_SIZE
=============================================================================
