--------------------------- MODULE MCSpecToSpecs ---------------------------
(* Values for model checking SpecToSpecs. *)
EXTENDS SpecToSpecs

CONSTANTS a, b, c, d

Three == {a, b, c}
Four == {a, b, c, d}
=============================================================================
