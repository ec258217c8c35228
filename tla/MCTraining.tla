----------------------------- MODULE MCTraining -----------------------------
(* Values for model checking Training. *)
EXTENDS TrainingClaims

\* No pairs at all, sets of one pair, odd halves, and sizes that leave one out.
FewPairs == {<<0, 0>>, <<1, 2>>, <<2, 2>>, <<3, 4>>, <<6, 5>>, <<7, 8>>, <<4, 9>>}
=============================================================================
