---------------------------- MODULE MCDictionary ----------------------------
(* Values for model checking Dictionary. *)
EXTENDS Dictionary

CONSTANTS k1, k2, k3

\* The hash 0 starts at bucket 0 and goes up, 1 starts at 1 and goes down, and
\* 2 is as 0 but, in a table of 8 buckets, finds only one in MAX_PROBES probes:
\* a rehash drops keys there.  Each meets every bucket in the end.
Rand(h, cap, i) ==
    CASE h = 0 -> i % cap
      [] h = 1 -> (1 + (cap - 1) * i) % cap
      [] h = 2 -> IF i < MAX_PROBES /\ cap = 8 THEN 2 ELSE i % cap

\* k3 needs a wider key.
Sizes == [k \in Keys |-> IF k = k3 THEN 2 ELSE 1]
=============================================================================
