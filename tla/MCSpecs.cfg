SPECIFICATION Spec
CONSTANTS
  a = a
  b = b
  c = c
  d = d
  Specs <- Four
  NULL = NULL
  MATCHES_CHUNK_SIZE = 2
  MaxRows = 3
CHECK_DEADLOCK FALSE
INVARIANTS
  CliquesKnowDifferent
  SimilarPairsOnce
  PairsFit
  OnlyRootsHoldSimilar
  NoCircle
  CliqueIffLinked
PROPERTIES
  IsCliques
