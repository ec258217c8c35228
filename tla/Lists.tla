-------------------------------- MODULE Lists --------------------------------
(***************************************************************************)
(* The functions of src/src/lists.c on the memory of ListNodes.            *)
(***************************************************************************)
EXTENDS ListNodes, TLC

RECURSIVE ll_len(_, _)
ll_len(m, l) == IF l = NULL THEN 0 ELSE 1 + ll_len(m, m[l])

\* A negative n counts on from the end, not back.
RECURSIVE ll_nth(_, _, _)
ll_nth(m, l, n) ==
    IF n < 0 THEN ll_nth(m, l, ll_len(m, l) - n)
    ELSE IF n = 0 \/ l = NULL THEN l ELSE ll_nth(m, m[l], n - 1)

RECURSIVE ll_tail(_, _)
ll_tail(m, l) == IF l = NULL \/ m[l] = NULL THEN l ELSE ll_tail(m, m[l])

ll_pushlist(m, lp, node) ==
    IF NULL \in {lp, node} THEN m
    ELSE [m EXCEPT ![ll_tail(m, node)] = m[lp], ![lp] = node]

\* The cell l must not be empty.
ll_pop(m, l) == [node |-> m[l], m |-> [m EXCEPT ![l] = m[m[l]], ![m[l]] = NULL]]

\* The loop of ll_reverse: pops from l, pushes to r.
RECURSIVE PopPush(_, _, _)
PopPush(m, l, r) ==
    IF m[l] = NULL THEN m
    ELSE LET p == ll_pop(m, l) IN PopPush(ll_push(p.m, r, p.node), l, r)

ll_reverse(m, l) ==
    LET r == VarA(0)
        done == PopPush((r :> NULL) @@ m, l, r)
    IN  Drop([done EXCEPT ![l] = done[r]], {r})

\* The list at in has n nodes or more.
ll_split(m, in, a, b, n) ==
    IF n = 0 THEN [m EXCEPT ![b] = m[in], ![a] = NULL]
    ELSE LET temp == ll_nth(m, m[in], n - 1)
         IN  [m EXCEPT ![a] = m[in], ![b] = m[temp], ![temp] = NULL]

\* less: the pairs of nodes for which the comparison gives less than zero.
RECURSIVE ll_sort_merge(_, _, _, _)
ll_sort_merge(m, a, b, less) ==
    IF m[b] = NULL THEN [m |-> m, rest |-> m[a]]
    ELSE IF m[a] = NULL THEN [m |-> m, rest |-> m[b]]
    ELSE LET h == ll_pop(m, IF <<m[a], m[b]>> \in less THEN a ELSE b)
             r == ll_sort_merge(h.m, a, b, less)
         IN  [m |-> [r.m EXCEPT ![h.node] = r.rest], rest |-> h.node]

\* mutant: the second half is not sorted
RECURSIVE SortFirstHalf(_, _, _, _)
SortFirstHalf(m, lp, less, depth) ==
    IF ll_len(m, m[lp]) <= 1 THEN m
    ELSE LET a == VarA(depth)
             b == VarB(depth)
             halves == ll_split((a :> NULL) @@ (b :> NULL) @@ m, lp, a, b,
                                ll_len(m, m[lp]) \div 2)
             merged == ll_sort_merge(SortFirstHalf(halves, a, less, depth + 1), a, b, less)
         IN  Drop([merged.m EXCEPT ![lp] = merged.rest], {a, b})

RECURSIVE SortAt(_, _, _, _)
SortAt(m, lp, less, depth) ==
    IF ll_len(m, m[lp]) <= 1 THEN m
    ELSE LET a == VarA(depth)
             b == VarB(depth)
             halves == ll_split((a :> NULL) @@ (b :> NULL) @@ m, lp, a, b,
                                ll_len(m, m[lp]) \div 2)
             sorted == SortAt(SortAt(halves, a, less, depth + 1), b, less, depth + 1)
             merged == ll_sort_merge(sorted, a, b, less)
         IN  Drop([merged.m EXCEPT ![lp] = merged.rest], {a, b})

ll_sort(m, lp, less) == SortAt(m, lp, less, 1)

\* pred: the nodes for which the predicate is true.
RECURSIVE ll_search(_, _, _)
ll_search(m, l, pred) ==
    IF l = NULL \/ l \in pred THEN l ELSE ll_search(m, m[l], pred)

\* The list must not be empty.  new[x] is the node that map_func makes for x.
ll_map(m, l, new) ==
    LET out == VarA(0)
        Add(acc, x) == [m |-> ll_push((new[x] :> NULL) @@ acc.m, acc.tail, new[x]),
                        tail |-> new[x]]
        done == FoldLeft(Add, [m |-> (out :> NULL) @@ m, tail |-> out], Nodes(m, l))
    IN  [m |-> Drop(done.m, {out}), out |-> done.m[out]]
==============================================================================
