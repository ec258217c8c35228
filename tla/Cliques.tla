------------------------------- MODULE Cliques -------------------------------
(***************************************************************************)
(* What src/include/spec_to_specs.h promises: the specs are divided into   *)
(* cliques; a new spec is a clique of its own, and marking two specs as    *)
(* similar unifies their cliques.                                          *)
(***************************************************************************)
CONSTANT Specs

VARIABLE cliques

Members == UNION cliques

CliqueOf(x) == UNION {C \in cliques : x \in C}

Init == cliques = {}

Add(x) ==
    /\ x \notin Members
    /\ cliques' = cliques \cup {{x}}

Match(x, y) ==
    /\ {x, y} \subseteq Members
    /\ cliques' = (cliques \ {CliqueOf(x), CliqueOf(y)})
                    \cup {CliqueOf(x) \cup CliqueOf(y)}

Next == \E x, y \in Specs : Add(x) \/ Match(x, y)

Spec == Init /\ [][Next]_cliques
=============================================================================
