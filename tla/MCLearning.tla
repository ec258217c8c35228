----------------------------- MODULE MCLearning -----------------------------
(* Specs and labelled pairs for model checking DynamicLearning. *)
EXTENDS DynamicLearning

\* Names of two lengths, so that a shorter one can stand before old bytes.
Dataset == <<<<"a">>, <<"b", "b">>, <<"c">>>>

Row(k, l, label) == [spec1 |-> dataset[k], spec2 |-> dataset[l], relation |-> label]

\* No pairs, one, and one that is in two of the three sets.
FewRows == {<<>>, <<Row(2, 1, 1)>>, <<Row(1, 3, 0), Row(1, 3, 0)>>}
=============================================================================
