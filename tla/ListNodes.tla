------------------------------ MODULE ListNodes ------------------------------
(***************************************************************************)
(* The nodes of the linked lists of src/src/lists.c.  A memory m maps each *)
(* cell to the cell it points to: a node to the node after it, a variable  *)
(* of a function to the node it holds.  NEXT(x) of the code is m[x], so    *)
(* that the functions work on a variable and on a node alike, as they do   *)
(* there.                                                                  *)
(***************************************************************************)
EXTENDS Integers, Sequences, SequencesExt, FiniteSetsExt

NULL == 0

\* Nodes are positive; variables are negative, two for each depth of ll_sort.
VarA(depth) == -2 * depth - 1
VarB(depth) == -2 * depth - 2

\* f with a cell more, or another value in it.
Store(f, cell, value) ==
    [x \in DOMAIN f \cup {cell} |-> IF x = cell THEN value ELSE f[x]]

\* f without the variables of a function that returns, or freed nodes.
Drop(f, cells) == [x \in DOMAIN f \ cells |-> f[x]]

ll_push(m, lp, node) ==
    IF NULL \in {lp, node} THEN m ELSE [m EXCEPT ![node] = m[lp], ![lp] = node]

\* The macro NEXT, of NULL as well.
NEXT(m, x) == IF x = NULL THEN NULL ELSE m[x]

\* The cell n steps behind l.
After(m, l) == LET cell[n \in Nat] == IF n = 0 THEN l ELSE NEXT(m, cell[n - 1]) IN cell

\* LL_FOREACH, ll_iterate: the nodes in the order they are met.
Nodes(m, l) ==
    LET len == Min({n \in 0..Cardinality(DOMAIN m) : After(m, l)[n] = NULL})
    IN  [k \in 1..len |-> After(m, l)[k - 1]]

\* ll_free of each of the lists: each node is popped before it is freed.
ll_free(m, lists) == Drop(m, UNION {ToSet(Nodes(m, l)) : l \in lists})
==============================================================================
