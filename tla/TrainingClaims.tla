--------------------------- MODULE TrainingClaims ---------------------------
(* What the README says of the sets that the code does not do (main.c:406  *)
(* and 407 merge the train pairs into the other two sets as well).         *)
EXTENDS Training

(* The test set is made of pairs that are not in the train set: a half of  *)
(* the pairs is for training, "25% for the test set and the other 25% for  *)
(* the validation set" (README:274).                                       *)
TestSetApart ==
    pc = "train" => Merged("train") \cap Merged("test") \cap Pairs = {}
=============================================================================
