-------------------------- MODULE SpecToSpecsProofs --------------------------
(***************************************************************************)
(* Proofs about SpecToSpecs, for every set of specs and every file.        *)
(*                                                                         *)
(* The inductive invariant IInv has two parts.  Forest describes the       *)
(* entries: every spec is in the list of exactly one root, the parent of a *)
(* spec is in the same list, and there is no circle.  CallOK describes the *)
(* call under way: the search is in the clique it started in.  Beside it   *)
(* stand Links (what the rows used so far link), Lists (no list has a spec *)
(* twice), Knowledge and Notes (the lists of different roots), RoomInv     *)
(* (the arrays of pairs and their allocation) and PairsMade (the pairs of  *)
(* the roots visited so far, each once).                                   *)
(***************************************************************************)
EXTENDS SpecToSpecs, FiniteSetTheorems, WellFoundedInduction, TLAPS

SameClique(x, y) == \A r \in Roots : x \in Clique(r) <=> y \in Clique(r)

Forest ==
    /\ \A x \in added : \E r \in Roots : x \in Clique(r)
    /\ \A r, s \in Roots : r # s => Clique(r) \cap Clique(s) = {}
    /\ \A r \in Roots : r \in Clique(r) /\ Clique(r) \subseteq added
    /\ \A x \in added \ Roots : similar[x] = <<>>
    /\ ParentInClique
    /\ NoCircle

TwoSpecs == phase \in {"merge", "diff"}

CallOK ==
    /\ phase = "add" => pc = "idle"
    /\ pc = "first" => TwoSpecs /\ SameClique(left, spec)
    /\ pc = "write" => ~TwoSpecs
    /\ pc \in {"first", "last", "act"} => {left, spec} \subseteq added
    /\ pc \in {"first", "last", "act"} /\ TwoSpecs => right \in added
    /\ pc \in {"last", "act"} /\ TwoSpecs =>
          root1 \in Roots /\ SameClique(left, root1) /\ SameClique(right, spec)
    /\ pc \in {"last", "act"} /\ ~TwoSpecs => SameClique(left, spec)
    /\ pc = "act" => spec \in Roots

IInv == EntryTypes /\ Forest /\ CallOK

-----------------------------------------------------------------------------
(* The elements of a concatenation. *)
LEMMA ToSetConcat ==
    ASSUME NEW S, NEW s \in Seq(S), NEW t \in Seq(S)
    PROVE  ToSet(s \o t) = ToSet(s) \cup ToSet(t)
<1>1. ASSUME NEW i \in DOMAIN (s \o t)
      PROVE  (s \o t)[i] \in ToSet(s) \cup ToSet(t)
  <2>1. i \in 1..(Len(s) + Len(t))
    OBVIOUS
  <2>2. CASE i <= Len(s)
    BY <2>1, <2>2 DEF ToSet
  <2>3. CASE i > Len(s)
    <3>1. (s \o t)[i] = t[i - Len(s)] /\ i - Len(s) \in 1..Len(t)
      BY <2>1, <2>3
    <3>2. QED
      BY <3>1 DEF ToSet
  <2>4. QED
    BY <2>1, <2>2, <2>3
<1>2. ASSUME NEW i \in DOMAIN s
      PROVE  s[i] \in ToSet(s \o t)
  <2>1. i \in DOMAIN (s \o t) /\ (s \o t)[i] = s[i]
    OBVIOUS
  <2>2. QED
    BY <2>1 DEF ToSet
<1>3. ASSUME NEW i \in DOMAIN t
      PROVE  t[i] \in ToSet(s \o t)
  <2>1. i + Len(s) \in DOMAIN (s \o t) /\ (s \o t)[i + Len(s)] = t[i]
    OBVIOUS
  <2>2. QED
    BY <2>1 DEF ToSet
<1>4. QED
  BY <1>1, <1>2, <1>3 DEF ToSet

(* The elements of the shortest sequences. *)
LEMMA ToSetShort ==
    ASSUME NEW x
    PROVE  ToSet(<<>>) = {} /\ ToSet(<<x>>) = {x}
BY DEF ToSet

-----------------------------------------------------------------------------
(* The empty structure. *)
LEMMA StartOK == sts_new => IInv
<1> SUFFICES ASSUME sts_new PROVE IInv
  OBVIOUS
<1>1. EntryTypes
  BY DEF sts_new, EntryTypes, Phases
<1>2. Forest
  BY DEF sts_new, Forest, Roots, ParentInClique, NoCircle
<1>3. CallOK
  BY DEF sts_new, CallOK, TwoSpecs
<1>4. QED
  BY <1>1, <1>2, <1>3 DEF IInv

(* A new spec is a root, with a list of its own. *)
LEMMA AddRoots ==
    ASSUME IInv, NEW x \in Specs, sts_add(x)
    PROVE  /\ Roots' = Roots \cup {x} /\ Clique(x)' = {x}
           /\ \A r \in Roots : Clique(r)' = Clique(r)
<1>1. similar'[x] = <<x>> /\ parent'[x] = x
  BY DEF sts_add, IInv, EntryTypes
<1>2. \A y \in added : parent'[y] = parent[y] /\ similar'[y] = similar[y]
  BY DEF sts_add, IInv, EntryTypes
<1>3. QED
  BY <1>1, <1>2, ToSetShort DEF sts_add, Roots, Clique

(* sts_add keeps IInv. *)
LEMMA AddOK ==
    ASSUME IInv, NEW x \in Specs, sts_add(x)
    PROVE  IInv'
<1> USE DEF IInv
<1>1. EntryTypes'
  BY SpecsAssumption DEF sts_add, EntryTypes, call, rows
<1>2. Roots' = Roots \cup {x} /\ Clique(x)' = {x}
    /\ \A r \in Roots : Clique(r)' = Clique(r)
  BY AddRoots
<1>3. Forest'
  <2>1. (\A y \in added : \E r \in Roots : y \in Clique(r))'
    BY <1>2 DEF sts_add, Forest
  <2>2. (\A r \in Roots : r \in Clique(r) /\ Clique(r) \subseteq added)'
    BY <1>2 DEF sts_add, Forest
  <2>3. (\A r, s \in Roots : r # s => Clique(r) \cap Clique(s) = {})'
    BY <1>2 DEF sts_add, Forest
  <2>4. (\A y \in added \ Roots : similar[y] = <<>>)'
    BY <1>2 DEF sts_add, Forest, EntryTypes
  <2>5. ParentInClique'
    <3>1. \A y \in added : parent'[y] = parent[y] /\ parent[y] \in added
      BY DEF sts_add, EntryTypes
    <3>2. parent'[x] = x /\ added' = added \cup {x}
      BY DEF sts_add, EntryTypes
    <3>3. QED
      BY <1>2, <3>1, <3>2 DEF Forest, ParentInClique, sts_add
  <2>6. NoCircle'
    <3>1. SUFFICES ASSUME NEW S \in SUBSET added', S # {}
                   PROVE  \E y \in S : parent'[y] = y \/ parent'[y] \notin S
      BY DEF NoCircle
    <3>2. CASE x \in S
      BY <3>2 DEF sts_add, EntryTypes
    <3>3. CASE x \notin S
      <4>1. PICK y \in S : parent[y] = y \/ parent[y] \notin S
        BY <3>1, <3>3 DEF sts_add, Forest, NoCircle
      <4>2. parent'[y] = parent[y]
        BY <3>3 DEF sts_add, EntryTypes
      <4>3. QED
        BY <4>1, <4>2
    <3>4. QED
      BY <3>2, <3>3
  <2>7. QED
    BY <2>1, <2>2, <2>3, <2>4, <2>5, <2>6 DEF Forest
<1>4. CallOK'
  BY DEF sts_add, CallOK, TwoSpecs, call
<1>5. QED
  BY <1>1, <1>3, <1>4

(* The steps that do not touch the entries keep the forest. *)
LEMMA ForestKept ==
    ASSUME Forest, UNCHANGED <<added, parent, similar>>
    PROVE  /\ Forest'
           /\ Roots' = Roots
           /\ \A x : Clique(x)' = Clique(x)
BY DEF Forest, Roots, Clique, ParentInClique, NoCircle

(* How NoCircle is used: for a set written out. *)
LEMMA NoCircleIn ==
    ASSUME NoCircle, NEW S, S \subseteq added, S # {}
    PROVE  \E x \in S : parent[x] = x \/ parent[x] \notin S
BY DEF NoCircle

(* The new parent, the parent of the parent, is not the spec itself. *)
LEMMA ClimbParent ==
    ASSUME IInv, Climb
    PROVE  /\ spec \in added /\ parent[spec] \in added /\ parent[spec] # spec
           /\ parent[parent[spec]] \in added \ {spec}
           /\ parent'[spec] = parent[parent[spec]]
           /\ \A x \in added : x # spec => parent'[x] = parent[x]
<1> USE DEF IInv
<1> DEFINE p == parent[spec]
           g == parent[p]
<1>1. spec \in added /\ p \in added /\ g \in added /\ p # spec
  BY DEF Climb, Searching, CallOK, EntryTypes
<1>2. parent'[spec] = g /\ \A x \in added : x # spec => parent'[x] = parent[x]
  BY <1>1 DEF Climb, EntryTypes
<1>3. g # spec
  <2>1. SUFFICES ASSUME g = spec PROVE FALSE
    OBVIOUS
  <2>2. PICK x \in {spec, p} : parent[x] = x \/ parent[x] \notin {spec, p}
    <3>1. {spec, p} \subseteq added /\ {spec, p} # {}
      BY <1>1
    <3>2. NoCircle
      BY DEF Forest
    <3>3. QED
      BY <3>1, <3>2, NoCircleIn
  <2>3. QED
    BY <1>1, <2>1, <2>2
<1>4. QED
  BY <1>1, <1>2, <1>3

(* One step of findRoot makes no root and no circle, and stays in the      *)
(* clique.                                                                 *)
LEMMA ClimbRoots ==
    ASSUME IInv, Climb
    PROVE  Roots' = Roots
BY ClimbParent DEF Climb, Roots

(* A level of findRoot keeps IInv. *)
LEMMA ClimbOK ==
    ASSUME IInv, Climb
    PROVE  IInv'
<1> USE DEF IInv
<1> DEFINE p == parent[spec]
           g == parent[p]
<1>1. spec \in added /\ p \in added /\ g \in added /\ p # spec
  BY ClimbParent
<1>2. /\ parent'[spec] = g
      /\ \A x \in added : x # spec => parent'[x] = parent[x]
      /\ spec' = p
  BY ClimbParent DEF Climb
<1>3. /\ Roots' = Roots
      /\ \A x : Clique(x)' = Clique(x)
      /\ added' = added
      /\ similar' = similar
  BY ClimbRoots DEF Climb, Clique
<1>4. EntryTypes'
  <2>1. parent' \in [Specs -> added \cup {NULL}]
    BY <1>1 DEF Climb, EntryTypes
  <2>2. \A x \in added : parent'[x] \in added
    BY <1>1, <1>2 DEF EntryTypes
  <2>3. {left, right, spec, root1}' \subseteq added \cup {NULL}
    BY <1>1, <1>2 DEF Climb, EntryTypes
  <2>4. QED
    BY <2>1, <2>2, <2>3 DEF Climb, EntryTypes, rows
<1>5. SameClique(spec, p) /\ SameClique(p, g)
  BY <1>1 DEF SameClique, Forest, ParentInClique
<1>6. Forest'
  <2>1. ParentInClique'
    BY <1>1, <1>2, <1>3, <1>5 DEF Forest, ParentInClique, SameClique
  <2>2. NoCircle'
    <3>1. SUFFICES ASSUME NEW S \in SUBSET added, S # {}
                   PROVE  \E x \in S : parent'[x] = x \/ parent'[x] \notin S
      BY <1>3 DEF NoCircle
    <3>2. PICK x \in S : parent[x] = x \/ parent[x] \notin S
      BY <3>1 DEF Forest, NoCircle
    <3>3. CASE x # spec
      BY <1>2, <3>2, <3>3
    <3>4. CASE x = spec
      <4>1. p \notin S
        BY <1>1, <3>2, <3>4
      <4>2. PICK y \in S \cup {p} : parent[y] = y \/ parent[y] \notin S \cup {p}
        <5>1. S \cup {p} \subseteq added /\ S \cup {p} # {}
          BY <1>1
        <5>2. NoCircle
          BY DEF Forest
        <5>3. QED
          BY <5>1, <5>2, NoCircleIn
      <4>3. CASE y = p
        BY <1>2, <3>4, <4>1, <4>2, <4>3
      <4>4. CASE y # p
        BY <1>1, <1>2, <4>2, <4>4
      <4>5. QED
        BY <4>3, <4>4
    <3>5. QED
      BY <3>3, <3>4
  <2>3. QED
    BY <1>3, <2>1, <2>2 DEF Forest
<1>7. CallOK'
  <2>1. /\ UNCHANGED <<phase, pc, left, right, root1>>
        /\ Searching
    BY DEF Climb
  <2>2. \A x, y : SameClique(x, y)' <=> SameClique(x, y)
    BY <1>3 DEF SameClique
  <2>3. \A x : SameClique(x, spec) => SameClique(x, p)
    BY <1>5 DEF SameClique
  <2>4. QED
    BY <1>1, <1>2, <1>3, <2>1, <2>2, <2>3 DEF CallOK, TwoSpecs, Searching
<1>8. QED
  BY <1>4, <1>6, <1>7

(* The search that ends at a root is at the root of its clique. *)
LEMMA FoundOK ==
    ASSUME IInv, Found
    PROVE  IInv'
<1> USE DEF IInv
<1>1. spec \in Roots
  BY DEF Found, Searching, CallOK, Roots
<1>2. UNCHANGED <<phase, added, parent, similar, left, right>>
  BY DEF Found, entries
<1>3. EntryTypes'
  <2>1. {left, right, spec, root1}' \subseteq added \cup {NULL}
    BY <1>1, <1>2 DEF Found, EntryTypes
  <2>2. pc' \in {"last", "act"}
    BY DEF Found
  <2>3. QED
    BY <1>2, <2>1, <2>2 DEF Found, entries, rows, EntryTypes
<1>4. Forest' /\ Roots' = Roots /\ \A x : Clique(x)' = Clique(x)
  BY <1>2, ForestKept
<1>5. \A x, y : SameClique(x, y)' <=> SameClique(x, y)
  BY <1>4 DEF SameClique
<1>6. SameClique(right, right)
  BY DEF SameClique
<1>7. CASE pc = "first"
  <2>1. pc' = "last" /\ root1' = spec /\ spec' = right
    BY <1>7 DEF Found
  <2>2. TwoSpecs /\ TwoSpecs' /\ SameClique(left, spec) /\ {left, right} \subseteq added
    BY <1>2, <1>7 DEF CallOK, TwoSpecs
  <2>3. CallOK'
    BY <1>1, <1>2, <1>4, <1>5, <1>6, <2>1, <2>2 DEF CallOK, TwoSpecs
  <2>4. QED
    BY <1>3, <1>4, <2>3
<1>8. CASE pc = "last"
  <2>1. pc' = "act" /\ UNCHANGED <<root1, spec>>
    BY <1>8 DEF Found
  <2>2. CallOK'
    BY <1>1, <1>2, <1>4, <1>5, <1>8, <2>1 DEF CallOK, TwoSpecs
  <2>3. QED
    BY <1>3, <1>4, <2>2
<1>9. QED
  BY <1>7, <1>8 DEF Found, Searching

(* A search starts in the clique of its spec. *)
LEMMA ReadRowOK ==
    ASSUME IInv, NEW x \in added, NEW y \in added, ReadRow(x, y)
    PROVE  IInv'
<1> USE DEF IInv
<1>1. UNCHANGED <<phase, added, parent, similar>>
  BY DEF ReadRow, entries
<1>2. EntryTypes'
  BY DEF ReadRow, entries, rows, EntryTypes
<1>3. Forest'
  BY <1>1, ForestKept
<1>4. CallOK'
  BY <1>1 DEF ReadRow, CallOK, TwoSpecs, SameClique
<1>5. QED
  BY <1>2, <1>3, <1>4

(* Visit keeps IInv. *)
LEMMA VisitOK ==
    ASSUME IInv, NEW x \in added, Visit(x)
    PROVE  IInv'
<1> USE DEF IInv
<1>1. UNCHANGED <<phase, added, parent, similar>>
  BY DEF Visit, entries
<1>2. EntryTypes'
  <2>1. {left, right, spec, root1}' \subseteq added \cup {NULL}
    BY <1>1 DEF Visit, EntryTypes
  <2>2. QED
    BY <1>1, <2>1 DEF Visit, entries, rows, EntryTypes
<1>3. Forest'
  BY <1>1, ForestKept
<1>4. CallOK'
  BY <1>1 DEF Visit, CallOK, TwoSpecs, SameClique
<1>5. QED
  BY <1>2, <1>3, <1>4

(* A note in a list keeps it a list of specs. *)
LEMMA NoteType ==
    ASSUME NEW d \in [Specs -> Seq(Specs)], NEW r \in Specs, NEW s \in Specs
    PROVE  Note(d, r, s) \in [Specs -> Seq(Specs)]
<1>1. ASSUME d[r] # <<>>
      PROVE  <<Head(d[r]), s>> \o Tail(d[r]) \in Seq(Specs)
  <2>1. Head(d[r]) \in Specs /\ Tail(d[r]) \in Seq(Specs)
    BY <1>1
  <2>2. <<Head(d[r]), s>> \in Seq(Specs)
    BY <2>1
  <2>3. QED
    BY <2>1, <2>2
<1>2. QED
  BY <1>1 DEF Note

(* sts_diff keeps IInv. *)
LEMMA DiffOK ==
    ASSUME IInv, sts_diff
    PROVE  IInv'
<1> USE DEF IInv
<1>1. UNCHANGED <<phase, added, parent, similar>> /\ pc' = "idle"
  BY DEF sts_diff, EndOfCall
<1>2. EntryTypes'
  <2>1. /\ root1 \in Specs /\ spec \in Specs
        /\ left \in added /\ right \in added
    BY DEF sts_diff, CallOK, TwoSpecs, EntryTypes, Roots
  <2>2. different' \in [Specs -> Seq(Specs)]
    BY <2>1, NoteType DEF sts_diff, EntryTypes
  <2>3. differences' \subseteq SUBSET added
    BY <2>1 DEF sts_diff, EntryTypes
  <2>4. QED
    BY <2>2, <2>3 DEF sts_diff, EndOfCall, EntryTypes
<1>3. Forest'
  BY <1>1, ForestKept
<1>4. CallOK'
  BY <1>1 DEF CallOK
<1>5. QED
  BY <1>2, <1>3, <1>4

(* Collect keeps IInv. *)
LEMMA CollectOK ==
    ASSUME IInv, Collect
    PROVE  IInv'
<1> USE DEF IInv
<1>1. UNCHANGED <<phase, added, parent, similar>> /\ pc' = "write"
  BY DEF Collect
<1>2. EntryTypes'
  <2>1. printed' \in [Specs -> BOOLEAN]
    BY DEF Collect, EntryTypes
  <2>2. QED
    BY <2>1 DEF Collect, EntryTypes, rows, vars
<1>3. Forest'
  BY <1>1, ForestKept
<1>4. CallOK'
  BY <1>1 DEF CallOK, Collect, TwoSpecs
<1>5. QED
  BY <1>2, <1>3, <1>4

(* WritePair keeps IInv. *)
LEMMA WriteOK ==
    ASSUME IInv, WritePair \/ EndOfVisit
    PROVE  IInv'
<1> USE DEF IInv
<1>1. UNCHANGED <<phase, added, parent, similar>>
  BY DEF WritePair, EndOfVisit, entries
<1>2. EntryTypes'
  BY DEF WritePair, EndOfVisit, EndOfCall, EntryTypes, entries, call, rows
<1>3. Forest'
  BY <1>1, ForestKept
<1>4. CallOK'
  BY <1>1 DEF WritePair, EndOfVisit, EndOfCall, call, CallOK, TwoSpecs
<1>5. QED
  BY <1>2, <1>3, <1>4

(* NextPhase keeps IInv. *)
LEMMA NextPhaseOK ==
    ASSUME IInv, NextPhase
    PROVE  IInv'
<1> USE DEF IInv
<1>1. UNCHANGED <<added, parent, similar, pc>> /\ pc = "idle"
  BY DEF NextPhase, entries, call
<1>2. EntryTypes'
  <2>1. \A f \in Phases \ {"done"} : After[f] \in Phases
    BY DEF After, Phases
  <2>2. phase' \in Phases
    BY <2>1 DEF NextPhase, EntryTypes
  <2>3. QED
    BY <2>2 DEF NextPhase, EntryTypes, entries, call, rows
<1>3. Forest'
  BY <1>1, ForestKept
<1>4. CallOK'
  BY <1>1 DEF CallOK
<1>5. QED
  BY <1>2, <1>3, <1>4

-----------------------------------------------------------------------------
(* What sts_merge does to the cliques when the roots differ: that of g is  *)
(* moved to k.                                                             *)
Merged(k, g) ==
    /\ k # g /\ {k, g} = {root1, spec}
    /\ parent' = [parent EXCEPT ![g] = k]
    /\ Roots' = Roots \ {g}
    /\ Clique(k)' = Clique(k) \cup Clique(g)
    /\ similar'[g] = <<>>
    /\ \A x \in added \ {k, g} : similar'[x] = similar[x]
    /\ similar' \in [Specs -> Seq(Specs)]
    /\ added' = added

(* What sts_merge does to roots and cliques. *)
LEMMA MergeCliques ==
    ASSUME IInv, sts_merge, root1 # spec
    PROVE  \E k, g \in Roots : Merged(k, g)
<1> USE DEF IInv
<1>1. root1 \in Roots /\ spec \in Roots /\ Roots \subseteq added /\ added \subseteq Specs
  BY DEF sts_merge, CallOK, TwoSpecs, EntryTypes, Roots
<1>2. PICK k, g \in Roots : k = Keep /\ g = Gone
  BY <1>1 DEF Keep, Gone
<1>3. k # g /\ {k, g} = {root1, spec}
  BY <1>2 DEF Keep, Gone
<1>4. /\ parent' = [parent EXCEPT ![g] = k]
      /\ similar' = [similar EXCEPT ![k] = similar[k] \o similar[g], ![g] = <<>>]
      /\ added' = added
  BY <1>2, <1>3 DEF sts_merge
<1>5. Roots' = Roots \ {g}
  BY <1>1, <1>3, <1>4 DEF Roots, EntryTypes
<1>6. similar[k] \in Seq(Specs) /\ similar[g] \in Seq(Specs) /\ k \in Specs /\ g \in Specs
  BY <1>1 DEF EntryTypes
<1>7. similar'[k] = similar[k] \o similar[g] /\ similar'[g] = <<>>
  BY <1>3, <1>4, <1>6 DEF EntryTypes
<1>8. Clique(k)' = Clique(k) \cup Clique(g)
  BY <1>6, <1>7, ToSetConcat DEF Clique
<1>9. similar' \in [Specs -> Seq(Specs)]
  <2>1. similar[k] \o similar[g] \in Seq(Specs) /\ <<>> \in Seq(Specs)
    BY <1>6
  <2>2. similar \in [Specs -> Seq(Specs)]
    BY DEF EntryTypes
  <2>3. QED
    BY <1>4, <2>1, <2>2
<1>10. \A x \in added \ {k, g} : similar'[x] = similar[x]
  BY <1>1, <1>4 DEF EntryTypes
<1>11. QED
  BY <1>3, <1>4, <1>5, <1>7, <1>8, <1>9, <1>10 DEF Merged
(* The list of the absorbed root is emptied, so the specs are still in     *)
(* exactly one list; its parent is in the clique that took it in, and that *)
(* parent is a root, so there is no circle.                                *)
LEMMA MergedForest ==
    ASSUME EntryTypes, Forest, NEW k \in Roots, NEW g \in Roots, Merged(k, g)
    PROVE  Forest'
<1>1. /\ k # g /\ k \in added /\ g \in added /\ k \in Roots' /\ added' = added
      /\ Roots' = Roots \ {g}
      /\ added \subseteq Specs
  BY DEF Merged, Roots, EntryTypes
<1>2. \A r \in Roots' : r # k => Clique(r)' = Clique(r)
  BY <1>1 DEF Merged, Clique, Roots
<1>3. Clique(k)' = Clique(k) \cup Clique(g)
  BY DEF Merged
<1>4. parent'[g] = k /\ \A x \in added : x # g => parent'[x] = parent[x]
  BY <1>1 DEF Merged, EntryTypes
<1>5. (\A x \in added : \E r \in Roots : x \in Clique(r))'
  BY <1>1, <1>2, <1>3 DEF Forest
<1>6. (\A r, s \in Roots : r # s => Clique(r) \cap Clique(s) = {})'
  <2>1. SUFFICES ASSUME NEW r \in Roots', NEW s \in Roots', r # s
                 PROVE  Clique(r)' \cap Clique(s)' = {}
    OBVIOUS
  <2>2. /\ Clique(r) \cap Clique(s) = {}
        /\ Clique(r) \cap Clique(g) = {}
        /\ Clique(s) \cap Clique(g) = {}
    BY <1>1, <2>1 DEF Forest
  <2>3. QED
    BY <1>2, <1>3, <2>1, <2>2
<1>7. (\A r \in Roots : r \in Clique(r) /\ Clique(r) \subseteq added)'
  BY <1>1, <1>2, <1>3 DEF Forest
<1>8. (\A x \in added \ Roots : similar[x] = <<>>)'
  BY <1>1 DEF Forest, Merged
<1>9. ParentInClique'
  <2>1. SUFFICES ASSUME NEW r \in Roots', NEW x \in added
                 PROVE  x \in Clique(r)' <=> parent'[x] \in Clique(r)'
    BY <1>1 DEF ParentInClique
  <2>2. \A q \in Roots : x \in Clique(q) <=> parent[x] \in Clique(q)
    BY DEF Forest, ParentInClique
  <2>3. CASE x # g
    BY <1>1, <1>2, <1>3, <1>4, <2>2, <2>3
  <2>4. CASE x = g
    <3>1. k \in Clique(k) /\ g \in Clique(g)
      BY DEF Forest
    <3>2. r # k => g \notin Clique(r) /\ k \notin Clique(r)
      BY <1>1, <3>1 DEF Forest
    <3>3. QED
      BY <1>2, <1>3, <1>4, <2>4, <3>1, <3>2
  <2>5. QED
    BY <2>3, <2>4
<1>10. NoCircle'
  <2>1. SUFFICES ASSUME NEW S \in SUBSET added, S # {}
                 PROVE  \E x \in S : parent'[x] = x \/ parent'[x] \notin S
    BY <1>1 DEF NoCircle
  <2>2. CASE k \in S
    BY <1>1, <1>4, <2>2 DEF Roots
  <2>3. CASE k \notin S
    <3>1. PICK x \in S : parent[x] = x \/ parent[x] \notin S
      BY <2>1 DEF Forest, NoCircle
    <3>2. QED
      BY <1>4, <2>3, <3>1
  <2>4. QED
    BY <2>2, <2>3
<1>11. QED
  BY <1>5, <1>6, <1>7, <1>8, <1>9, <1>10 DEF Forest

(* sts_merge keeps IInv. *)
LEMMA MergeOK ==
    ASSUME IInv, sts_merge
    PROVE  IInv'
<1> USE DEF IInv
<1>1. /\ UNCHANGED <<phase, added, different, printed, differences>>
      /\ pc' = "idle"
      /\ {left, right, spec, root1}' = {NULL}
      /\ left \in added /\ right \in added
      /\ matches' = matches \cup {{left, right}}
  BY DEF sts_merge, EndOfCall, CallOK, TwoSpecs
<1>2. CallOK'
  BY <1>1 DEF CallOK
<1>3. similar_len' \in [Specs -> Nat]
  <2>1. \A x, y \in Specs : similar_len[x] + similar_len[y] \in Nat
    <3>1. \A x \in Specs : similar_len[x] \in Nat
      BY DEF EntryTypes
    <3>2. QED
      BY <3>1
  <2>2. root1 \in Specs /\ spec \in Specs
    BY DEF sts_merge, CallOK, TwoSpecs, EntryTypes, Roots
  <2>3. Keep \in Specs /\ Gone \in Specs
    BY <2>2 DEF Keep, Gone
  <2>4. similar_len[Keep] + similar_len[Gone] \in Nat
    BY <2>1, <2>3
  <2>5. \/ similar_len' = similar_len
        \/ similar_len' = [similar_len EXCEPT ![Keep] = similar_len[Keep] + similar_len[Gone]]
    BY DEF sts_merge
  <2>6. QED
    BY <2>3, <2>4, <2>5 DEF EntryTypes
<1>4. CASE root1 = spec
  <2>1. UNCHANGED <<added, parent, similar, similar_len>>
    BY <1>4 DEF sts_merge
  <2>2. Forest'
    BY <2>1, ForestKept
  <2>3. EntryTypes'
    BY <1>1, <2>1 DEF EntryTypes
  <2>4. QED
    BY <1>2, <2>2, <2>3
<1>5. CASE root1 # spec
  <2>1. PICK k, g \in Roots : Merged(k, g)
    BY <1>5, MergeCliques
  <2>2. Forest'
    BY <2>1, MergedForest
  <2>3. EntryTypes'
    <3>1. parent' \in [Specs -> added \cup {NULL}]
      BY <2>1 DEF Merged, EntryTypes, Roots
    <3>2. \A x \in added : parent'[x] \in added
      BY <2>1 DEF Merged, EntryTypes, Roots
    <3>3. QED
      BY <1>1, <1>3, <2>1, <3>1, <3>2 DEF Merged, EntryTypes
  <2>4. QED
    BY <1>2, <2>2, <2>3
<1>6. QED
  BY <1>4, <1>5

-----------------------------------------------------------------------------
(* IInv is inductive. *)
LEMMA StepOK ==
    ASSUME IInv, [Next]_vars
    PROVE  IInv'
<1>1. CASE UNCHANGED vars
  <2>1. UNCHANGED <<phase, added, parent, similar>>
    BY <1>1 DEF vars, entries
  <2>2. EntryTypes'
    BY <1>1 DEF IInv, vars, entries, call, rows, EntryTypes
  <2>3. Forest'
    BY <2>1, ForestKept DEF IInv
  <2>4. CallOK'
    BY <1>1, <2>1 DEF IInv, vars, call, CallOK, TwoSpecs, SameClique, Roots, Clique
  <2>5. QED
    BY <2>2, <2>3, <2>4 DEF IInv
<1>2. CASE Next
  BY <1>2, AddOK, ReadRowOK, ClimbOK, FoundOK, MergeOK, DiffOK, VisitOK,
     CollectOK, WriteOK, NextPhaseOK DEF Next, FindRoot
<1>3. QED
  BY <1>1, <1>2

(* In every reachable state IInv holds: whatever the rows, the parents     *)
(* lead to the root that holds the clique (spec_to_specs.c:36-45), every   *)
(* spec is in the list of one root, and no entry or call leaves the        *)
(* dictionary.                                                             *)
THEOREM Invariance == Spec => []IInv
<1>1. IInv /\ [Next]_vars => IInv'
  BY StepOK
<1>2. QED
  BY <1>1, StartOK, PTL DEF Spec
(* ParentInClique and NoCircle, the two facts findRoot rests on, always    *)
(* hold.                                                                   *)
THEOREM ParentsOK == Spec => [](ParentInClique /\ NoCircle)
<1>1. IInv => ParentInClique /\ NoCircle
  BY DEF IInv, Forest
<1>2. QED
  BY <1>1, Invariance, PTL

-----------------------------------------------------------------------------
(* The two halves of CliqueIffLinked: no row leaves a clique, and a set    *)
(* that no row leaves has all of a clique or nothing.                      *)
Links ==
    /\ \A r \in Roots : Closed(Clique(r))
    /\ \A r \in Roots : \A S \in SUBSET added :
          Closed(S) /\ S \cap Clique(r) # {} => Clique(r) \subseteq S

(* Links says what CliqueIffLinked does. *)
LEMMA LinksIff == Forest /\ Links => CliqueIffLinked
<1> SUFFICES ASSUME Forest, Links, NEW x \in added, NEW y \in added
             PROVE  (\E r \in Roots : {x, y} \subseteq Clique(r)) <=> Linked(x, y)
  BY DEF CliqueIffLinked
<1>1. ASSUME NEW r \in Roots, {x, y} \subseteq Clique(r)
      PROVE  Linked(x, y)
  BY <1>1 DEF Links, Linked
<1>2. ASSUME Linked(x, y)
      PROVE  \E r \in Roots : {x, y} \subseteq Clique(r)
  <2>1. PICK r \in Roots : x \in Clique(r)
    BY DEF Forest
  <2>2. Clique(r) \in SUBSET added /\ Closed(Clique(r))
    BY DEF Forest, Links
  <2>3. QED
    BY <1>2, <2>1, <2>2 DEF Linked
<1>3. QED
  BY <1>1, <1>2

(* There are no specs at the start. *)
LEMMA LinksStart == sts_new => Links
BY DEF sts_new, Links, Roots

(* A step that keeps cliques, rows and specs keeps Links. *)
LEMMA LinksKept ==
    ASSUME Links, UNCHANGED <<added, similar, matches>>, Roots' = Roots
    PROVE  Links'
BY DEF Links, Clique, Closed

(* A new spec is linked to nothing. *)
LEMMA LinksAdd ==
    ASSUME IInv, Links, NEW x \in Specs, sts_add(x)
    PROVE  Links'
<1>1. Roots' = Roots \cup {x} /\ Clique(x)' = {x}
    /\ \A r \in Roots : Clique(r)' = Clique(r)
  BY AddRoots
<1>2. \A m \in matches : x \notin m
  BY DEF sts_add, IInv, EntryTypes
<1>3. matches' = matches /\ added' = added \cup {x}
  BY DEF sts_add, rows
<1>4. (\A r \in Roots : Closed(Clique(r)))'
  BY <1>1, <1>2, <1>3 DEF Links, Closed
<1>5. ASSUME NEW r \in Roots', NEW S \in SUBSET added', Closed(S)', S \cap Clique(r)' # {}
      PROVE  Clique(r)' \subseteq S
  <2>1. CASE r = x
    BY <1>1, <1>5, <2>1
  <2>2. CASE r # x
    <3>1. r \in Roots /\ Clique(r)' = Clique(r) /\ Clique(r) \subseteq added
      BY <1>1, <2>2 DEF IInv, Forest
    <3>2. Closed(S \ {x})
      BY <1>2, <1>3, <1>5 DEF Closed
    <3>3. x \notin Clique(r)
      BY <3>1 DEF sts_add
    <3>4. S \ {x} \in SUBSET added /\ (S \ {x}) \cap Clique(r) # {}
      BY <1>3, <1>5, <3>1, <3>3
    <3>5. QED
      BY <3>1, <3>2, <3>4 DEF Links
  <2>3. QED
    BY <2>1, <2>2
<1>6. QED
  BY <1>4, <1>5 DEF Links

(* The row that merges two cliques links them; each was linked before. *)
LEMMA LinksMerge ==
    ASSUME IInv, Links, sts_merge
    PROVE  Links'
<1>1. matches' = matches \cup {{left, right}} /\ added' = added
      /\ left \in added /\ right \in added
  BY DEF sts_merge, IInv, CallOK, TwoSpecs
<1>2. root1 \in Roots /\ spec \in Roots /\ left \in Clique(root1) /\ right \in Clique(spec)
  BY DEF sts_merge, IInv, Forest, CallOK, TwoSpecs, SameClique
<1>3. CASE root1 = spec
  <2>1. UNCHANGED <<parent, similar>>
    BY <1>3 DEF sts_merge
  <2>2. Roots' = Roots /\ \A r : Clique(r)' = Clique(r)
    BY <1>1, <2>1 DEF Roots, Clique
  <2>3. \A r \in Roots : Closed(Clique(r))'
    <3>1. SUFFICES ASSUME NEW r \in Roots
                   PROVE  {left, right} \cap Clique(r) = {} \/ {left, right} \subseteq Clique(r)
      BY <1>1, <2>2 DEF Links, Closed
    <3>2. QED
      BY <1>2, <1>3 DEF IInv, Forest
  <2>4. \A S \in SUBSET added : Closed(S)' => Closed(S)
    BY <1>1 DEF Closed
  <2>5. QED
    BY <1>1, <2>2, <2>3, <2>4 DEF Links
<1>4. CASE root1 # spec
  <2>1. PICK k, g \in Roots : Merged(k, g)
    BY <1>4, MergeCliques
  <2>2. /\ Roots' = Roots \ {g} /\ k # g /\ {k, g} = {root1, spec}
        /\ Clique(k)' = Clique(k) \cup Clique(g)
        /\ \A r \in Roots \ {k, g} : Clique(r)' = Clique(r)
    BY <2>1 DEF Merged, Clique, Roots
  <2>3. {left, right} \subseteq Clique(k) \cup Clique(g)
    BY <1>2, <2>2
  <2>4. ASSUME NEW r \in Roots'
        PROVE  Closed(Clique(r))'
    <3>1. CASE r = k
      <4>1. Closed(Clique(k)) /\ Closed(Clique(g))
        BY DEF Links
      <4>2. ASSUME NEW m \in matches, ~(m \subseteq Clique(k) \cup Clique(g))
            PROVE  m \cap (Clique(k) \cup Clique(g)) = {}
        BY <4>1, <4>2 DEF Closed
      <4>3. \A m \in matches' : m \cap Clique(k)' = {} \/ m \subseteq Clique(k)'
        BY <1>1, <2>2, <2>3, <4>2
      <4>4. QED
        BY <3>1, <4>3 DEF Closed
    <3>2. CASE r # k
      <4>1. Closed(Clique(r)) /\ Clique(r)' = Clique(r)
        BY <2>2, <2>4, <3>2 DEF Links
      <4>2. Clique(r) \cap Clique(k) = {} /\ Clique(r) \cap Clique(g) = {}
        BY <2>2, <2>4, <3>2 DEF IInv, Forest
      <4>3. {left, right} \cap Clique(r) = {}
        BY <2>3, <4>2
      <4>4. QED
        BY <1>1, <4>1, <4>3 DEF Closed
    <3>3. QED
      BY <3>1, <3>2
  <2>5. ASSUME NEW r \in Roots', NEW S \in SUBSET added, Closed(S)', S \cap Clique(r)' # {}
        PROVE  Clique(r)' \subseteq S
    <3>1. Closed(S) /\ ({left, right} \cap S = {} \/ {left, right} \subseteq S)
      BY <1>1, <2>5 DEF Closed
    <3>2. \A q \in Roots : S \cap Clique(q) # {} => Clique(q) \subseteq S
      BY <3>1 DEF Links
    <3>3. CASE r = k
      <4>1. S \cap Clique(k) # {} \/ S \cap Clique(g) # {}
        BY <2>2, <2>5, <3>3
      <4>2. Clique(root1) \subseteq S /\ Clique(spec) \subseteq S
        BY <1>2, <2>2, <3>1, <3>2, <4>1
      <4>3. QED
        BY <2>2, <3>3, <4>2
    <3>4. CASE r # k
      BY <2>2, <2>5, <3>2, <3>4
    <3>5. QED
      BY <3>3, <3>4
  <2>6. QED
    BY <1>1, <2>4, <2>5 DEF Links
<1>5. QED
  BY <1>3, <1>4
(* The steps that neither add a spec nor merge two cliques. *)
Quiet ==
    \/ \E x, y \in added : ReadRow(x, y)
    \/ FindRoot
    \/ sts_diff
    \/ \E x \in added : Visit(x)
    \/ Collect
    \/ WritePair
    \/ EndOfVisit
    \/ NextPhase
    \/ UNCHANGED vars

(* A quiet step leaves the cliques alone. *)
LEMMA QuietStep ==
    ASSUME IInv, Quiet
    PROVE  Roots' = Roots /\ UNCHANGED <<added, similar, similar_len, matches>>
<1>1. CASE Climb
  BY <1>1, ClimbRoots DEF Climb, rows
<1>2. ASSUME Quiet, ~Climb
      PROVE  UNCHANGED <<parent, added, similar, similar_len, matches>>
  BY <1>2 DEF Quiet, FindRoot, Found, ReadRow, sts_diff, Visit, Collect, WritePair,
     EndOfVisit, NextPhase, vars, entries, rows
<1>3. QED
  BY <1>1, <1>2 DEF Roots

(* Every step adds, merges or is quiet. *)
LEMMA StepCases ==
    ASSUME [Next]_vars
    PROVE  (\E x \in Specs : sts_add(x)) \/ sts_merge \/ Quiet
BY DEF Next, Quiet

(* Links is kept by every step. *)
LEMMA LinksStep ==
    ASSUME IInv, Links, [Next]_vars
    PROVE  Links'
<1>1. ASSUME Quiet
      PROVE  Links'
  BY <1>1, QuietStep, LinksKept
<1>2. QED
  BY <1>1, StepCases, LinksAdd, LinksMerge

(* CliqueIffLinked always holds: for any specs and any file, whatever the  *)
(* order of the rows, the cliques are exactly the specs that the rows with *)
(* label 1 link (sts_merge, spec_to_specs.c:111-147).                      *)
THEOREM CliquesAreLinked == Spec => []CliqueIffLinked
<1>1. IInv /\ Links /\ [Next]_vars => Links'
  BY LinksStep
<1>2. sts_new => Links
  BY LinksStart
<1>3. IInv /\ Links => CliqueIffLinked
  BY LinksIff DEF IInv
<1>4. QED
  BY <1>1, <1>2, <1>3, Invariance, PTL DEF Spec

-----------------------------------------------------------------------------
(* Lists without duplicates, and their lengths. *)
Lists == \A r \in Roots : IsInjective(similar[r]) /\ similar_len[r] = Len(similar[r])

(* Two lists without duplicates and with no element in common make one     *)
(* without duplicates.                                                     *)
LEMMA InjectiveConcat ==
    ASSUME NEW S, NEW s \in Seq(S), NEW t \in Seq(S),
           IsInjective(s), IsInjective(t), ToSet(s) \cap ToSet(t) = {}
    PROVE  IsInjective(s \o t)
<1>1. SUFFICES ASSUME NEW i \in 1..(Len(s) + Len(t)), NEW j \in 1..(Len(s) + Len(t)),
                      (s \o t)[i] = (s \o t)[j], i < j
               PROVE  FALSE
  BY DEF IsInjective
<1>2. CASE j <= Len(s)
  BY <1>1, <1>2 DEF IsInjective
<1>3. CASE i > Len(s)
  <2>1. /\ i - Len(s) \in DOMAIN t /\ j - Len(s) \in DOMAIN t
        /\ t[i - Len(s)] = t[j - Len(s)]
    BY <1>1, <1>3
  <2>2. i - Len(s) = j - Len(s)
    BY <2>1 DEF IsInjective
  <2>3. QED
    BY <1>1, <2>2
<1>4. CASE i <= Len(s) /\ j > Len(s)
  <2>1. /\ i \in DOMAIN s /\ j - Len(s) \in DOMAIN t
        /\ s[i] = t[j - Len(s)]
    BY <1>1, <1>4
  <2>2. QED
    BY <2>1 DEF ToSet
<1>5. QED
  BY <1>1, <1>2, <1>3, <1>4

(* The lists of the roots are kept by every step. *)
LEMMA ListsStep ==
    ASSUME IInv, Lists, [Next]_vars
    PROVE  Lists'
<1>1. ASSUME Quiet
      PROVE  Lists'
  BY <1>1, QuietStep DEF Lists
<1>2. ASSUME NEW x \in Specs, sts_add(x)
      PROVE  Lists'
  <2>1. similar'[x] = <<x>> /\ similar_len'[x] = 1
    BY <1>2 DEF sts_add, IInv, EntryTypes
  <2>2. \A y \in added : /\ parent'[y] = parent[y] /\ similar'[y] = similar[y]
                        /\ similar_len'[y] = similar_len[y]
    BY <1>2 DEF sts_add, IInv, EntryTypes
  <2>3. Roots' \subseteq Roots \cup {x} /\ Roots \subseteq added
    BY <1>2, <2>2 DEF sts_add, Roots
  <2>4. IsInjective(<<x>>) /\ Len(<<x>>) = 1
    BY DEF IsInjective
  <2>5. QED
    BY <2>1, <2>2, <2>3, <2>4 DEF Lists
<1>3. ASSUME sts_merge
      PROVE  Lists'
  <2>1. CASE root1 = spec
    <3>1. Roots' = Roots /\ UNCHANGED <<similar, similar_len>>
      BY <1>3, <2>1 DEF sts_merge, Roots
    <3>2. QED
      BY <3>1 DEF Lists
  <2>2. CASE root1 # spec
    <3>1. root1 \in Roots /\ spec \in Roots /\ Roots \subseteq added /\ added \subseteq Specs
      BY <1>3 DEF sts_merge, IInv, CallOK, TwoSpecs, EntryTypes, Roots
    <3>2. PICK k, g \in Roots : k = Keep /\ g = Gone /\ k # g
      BY <2>2, <3>1 DEF Keep, Gone
    <3>3. /\ similar' = [similar EXCEPT ![k] = similar[k] \o similar[g], ![g] = <<>>]
          /\ similar_len' = [similar_len EXCEPT ![k] = similar_len[k] + similar_len[g]]
          /\ parent' = [parent EXCEPT ![g] = k]
          /\ added' = added
      BY <1>3, <2>2, <3>2 DEF sts_merge
    <3>4. Roots' = Roots \ {g}
      BY <3>1, <3>2, <3>3 DEF Roots, IInv, EntryTypes
    <3>5. /\ similar'[k] = similar[k] \o similar[g]
          /\ similar_len'[k] = similar_len[k] + similar_len[g]
      BY <3>1, <3>2, <3>3 DEF IInv, EntryTypes
    <3>6. similar[k] \in Seq(Specs) /\ similar[g] \in Seq(Specs)
      BY <3>1 DEF IInv, EntryTypes
    <3>7. IsInjective(similar'[k])
      <4>1. Clique(k) \cap Clique(g) = {} /\ IsInjective(similar[k]) /\ IsInjective(similar[g])
        BY <3>2 DEF IInv, Forest, Lists
      <4>2. QED
        BY <3>5, <3>6, <4>1, InjectiveConcat DEF Clique
    <3>8. similar_len'[k] = Len(similar'[k])
      <4>1. similar_len[k] = Len(similar[k]) /\ similar_len[g] = Len(similar[g])
        BY DEF Lists
      <4>2. QED
        BY <3>5, <3>6, <4>1
    <3>9. \A r \in Roots \ {k, g} : /\ similar'[r] = similar[r]
                                  /\ similar_len'[r] = similar_len[r]
      BY <3>1, <3>3 DEF IInv, EntryTypes
    <3>10. QED
      BY <3>4, <3>7, <3>8, <3>9 DEF Lists
  <2>3. QED
    BY <2>1, <2>2
<1>4. QED
  BY <1>1, <1>2, <1>3, StepCases

(* OnlyRootsHoldSimilar always holds: the list of a root has each spec of  *)
(* the clique once, similar_len is its length, and no other spec keeps a   *)
(* list (spec_to_specs.c:133-140).                                         *)
THEOREM ListsAreCliques == Spec => []OnlyRootsHoldSimilar
<1>1. IInv /\ Lists /\ [Next]_vars => Lists'
  BY ListsStep
<1>2. sts_new => Lists
  BY DEF sts_new, Lists, Roots
<1>3. IInv /\ Lists => OnlyRootsHoldSimilar
  BY DEF IInv, Forest, Lists, OnlyRootsHoldSimilar
<1>4. QED
  BY <1>1, <1>2, <1>3, Invariance, PTL DEF Spec
-----------------------------------------------------------------------------
(* The cliques, and the one of a given spec. *)
AllCliques == {Clique(r) : r \in Roots}

(* The clique of a spec, in the abstract division. *)
LEMMA CliqueOfRoot ==
    ASSUME Forest, NEW r \in Roots, NEW x \in Clique(r)
    PROVE  Abstract!CliqueOf(x) = Clique(r)
<1>1. \A C \in AllCliques : x \in C <=> C = Clique(r)
  BY DEF Forest, AllCliques
<1>2. {C \in AllCliques : x \in C} = {Clique(r)}
  BY <1>1 DEF AllCliques
<1>3. QED
  BY <1>2 DEF Abstract!CliqueOf, AllCliques

(* The members of the abstract division are the specs. *)
LEMMA MembersAdded ==
    ASSUME Forest
    PROVE  Abstract!Members = added
BY DEF Forest, Abstract!Members, AllCliques

(* sts_add is the abstract Add. *)
LEMMA AddImplements ==
    ASSUME IInv, NEW x \in Specs, sts_add(x)
    PROVE  Abstract!Add(x)
<1>1. Roots' = Roots \cup {x} /\ Clique(x)' = {x}
    /\ \A r \in Roots : Clique(r)' = Clique(r)
  BY AddRoots
<1>2. x \notin Abstract!Members
  BY MembersAdded DEF sts_add, IInv
<1>3. {Clique(r) : r \in Roots}' = {Clique(r) : r \in Roots} \cup {{x}}
  BY <1>1
<1>4. QED
  BY <1>2, <1>3 DEF Abstract!Add

(* sts_merge of two roots is the abstract Match. *)
LEMMA MergeImplements ==
    ASSUME IInv, sts_merge
    PROVE  Abstract!Match(left, right)
<1>1. /\ root1 \in Roots /\ spec \in Roots
      /\ left \in Clique(root1) /\ right \in Clique(spec)
      /\ left \in added /\ right \in added
  BY DEF sts_merge, IInv, Forest, CallOK, TwoSpecs, SameClique
<1>2. /\ Abstract!CliqueOf(left) = Clique(root1)
      /\ Abstract!CliqueOf(right) = Clique(spec)
      /\ {left, right} \subseteq Abstract!Members
  BY <1>1, CliqueOfRoot, MembersAdded DEF IInv
<1>3. AllCliques' = (AllCliques \ {Clique(root1), Clique(spec)})
                       \cup {Clique(root1) \cup Clique(spec)}
  <2>1. CASE root1 = spec
    <3>1. UNCHANGED <<added, parent, similar>>
      BY <2>1 DEF sts_merge
    <3>2. AllCliques' = AllCliques
      BY <3>1 DEF AllCliques, Roots, Clique
    <3>3. QED
      BY <1>1, <2>1, <3>2 DEF AllCliques
  <2>2. CASE root1 # spec
    <3>1. PICK k, g \in Roots : Merged(k, g)
      BY <2>2, MergeCliques
    <3>2. /\ Roots' = Roots \ {g} /\ k # g /\ {k, g} = {root1, spec}
          /\ Clique(k)' = Clique(k) \cup Clique(g)
          /\ \A r \in Roots \ {k, g} : Clique(r)' = Clique(r)
      BY <3>1 DEF Merged, Clique, Roots
    <3>3. \A r \in Roots \ {k, g} : Clique(r) \notin {Clique(k), Clique(g)}
      BY DEF IInv, Forest
    <3>4. {Clique(root1), Clique(spec)} = {Clique(k), Clique(g)}
          /\ Clique(root1) \cup Clique(spec) = Clique(k) \cup Clique(g)
      BY <3>2
    <3>5. ASSUME NEW C \in AllCliques'
          PROVE  C \in (AllCliques \ {Clique(k), Clique(g)}) \cup {Clique(k) \cup Clique(g)}
      BY <3>2, <3>3 DEF AllCliques
    <3>6. ASSUME NEW C \in (AllCliques \ {Clique(k), Clique(g)}) \cup {Clique(k) \cup Clique(g)}
          PROVE  C \in AllCliques'
      BY <3>2 DEF AllCliques
    <3>7. QED
      BY <3>4, <3>5, <3>6
  <2>3. QED
    BY <2>1, <2>2
<1>4. QED
  BY <1>2, <1>3 DEF Abstract!Match, AllCliques

(* The union-find of spec_to_specs.c implements Cliques: adding a spec and *)
(* merging two cliques are the abstract steps, and every other step, those *)
(* of findRoot among them, leaves the cliques as they are.                 *)
THEOREM SpecToSpecsIsCliques == Spec => IsCliques
<1>1. sts_new => Abstract!Init
  BY DEF sts_new, Roots, Abstract!Init
<1>2. IInv /\ [Next]_vars => [Abstract!Next]_AllCliques
  <2>1. SUFFICES ASSUME IInv, [Next]_vars
                 PROVE  [Abstract!Next]_AllCliques
    OBVIOUS
  <2>2. ASSUME NEW x \in Specs, sts_add(x)
        PROVE  Abstract!Next
    BY <2>1, <2>2, AddImplements DEF Abstract!Next
  <2>3. ASSUME sts_merge
        PROVE  Abstract!Next
    <3>1. left \in Specs /\ right \in Specs
      BY <2>1, <2>3 DEF sts_merge, IInv, CallOK, TwoSpecs, EntryTypes
    <3>2. QED
      BY <2>1, <2>3, <3>1, MergeImplements DEF Abstract!Next
  <2>4. ASSUME Quiet
        PROVE  UNCHANGED AllCliques
    BY <2>1, <2>4, QuietStep DEF AllCliques, Clique
  <2>5. QED
    BY <2>1, <2>2, <2>3, <2>4, StepCases
<1>3. QED
  BY <1>1, <1>2, Invariance, PTL DEF Spec, IsCliques, Abstract!Spec, AllCliques
-----------------------------------------------------------------------------
(* Putting s second in a list moves every element but the first by one. *)
LEMMA InsertedAt ==
    ASSUME NEW q \in Seq(Specs), q # <<>>, NEW s \in Specs
    PROVE  LET u == <<Head(q), s>> \o Tail(q)
           IN  /\ Len(u) = Len(q) + 1 /\ u[2] = s
               /\ \A i \in 1..(Len(q) + 1) : i # 2 => u[i] = q[IF i = 1 THEN 1 ELSE i - 1]
<1> DEFINE u == <<Head(q), s>> \o Tail(q)
<1>1. /\ Head(q) = q[1] /\ Len(q) \in Nat \ {0} /\ Len(Tail(q)) = Len(q) - 1
      /\ Tail(q) \in Seq(Specs) /\ Head(q) \in Specs
      /\ \A i \in 1..(Len(q) - 1) : Tail(q)[i] = q[i + 1]
  OBVIOUS
<1>2. Len(u) = Len(q) + 1 /\ u[1] = q[1] /\ u[2] = s
  BY <1>1
<1>3. \A i \in 3..(Len(q) + 1) : u[i] = q[i - 1]
  <2>1. TAKE i \in 3..(Len(q) + 1)
  <2>2. u[i] = Tail(q)[i - 2] /\ i - 2 \in 1..(Len(q) - 1)
    BY <1>1
  <2>3. QED
    BY <1>1, <2>2
<1>4. \A i \in 1..(Len(q) + 1) : i = 1 \/ i = 2 \/ i \in 3..(Len(q) + 1)
  BY <1>1
<1> HIDE DEF u
<1>5. \A i \in 1..(Len(q) + 1) : i # 2 => u[i] = q[IF i = 1 THEN 1 ELSE i - 1]
  BY <1>2, <1>3, <1>4
<1>6. QED
  BY <1>2, <1>5 DEF u

(* Putting s second in a list adds s and nothing else. *)
LEMMA InsertSecond ==
    ASSUME NEW q \in Seq(Specs), q # <<>>, NEW s \in Specs, NEW t \in Specs
    PROVE  Contains(<<Head(q), s>> \o Tail(q), t) <=> Contains(q, t) \/ t = s
<1> DEFINE u == <<Head(q), s>> \o Tail(q)
<1>1. Head(q) = q[1] /\ Len(q) \in Nat \ {0}
  OBVIOUS
<1>2. Len(u) = Len(q) + 1 /\ u[1] = q[1] /\ u[2] = s
  BY <1>1, InsertedAt
<1>3. \A i \in 3..(Len(q) + 1) : u[i] = q[i - 1]
  BY <1>1, InsertedAt
<1>4. ASSUME Contains(u, t)
      PROVE  Contains(q, t) \/ t = s
  <2>1. PICK i \in 1..(Len(q) + 1) : u[i] = t
    BY <1>2, <1>4 DEF Contains
  <2>2. CASE i = 1
    BY <1>1, <1>2, <2>1, <2>2 DEF Contains
  <2>3. CASE i = 2
    BY <1>2, <2>1, <2>3
  <2>4. CASE i > 2
    <3>1. q[i - 1] = t /\ i - 1 \in 1..Len(q)
      BY <1>1, <1>3, <2>1, <2>4
    <3>2. QED
      BY <3>1 DEF Contains
  <2>5. QED
    BY <1>1, <2>1, <2>2, <2>3, <2>4
<1>5. ASSUME Contains(q, t)
      PROVE  Contains(u, t)
  <2>1. PICK i \in 1..Len(q) : q[i] = t
    BY <1>5 DEF Contains
  <2>2. CASE i = 1
    <3>1. u[1] = t /\ 1 \in 1..Len(u)
      BY <1>1, <1>2, <2>1, <2>2
    <3>2. QED
      BY <3>1 DEF Contains
  <2>3. CASE i # 1
    <3>1. u[i + 1] = t /\ i + 1 \in 1..Len(u)
      BY <1>1, <1>2, <1>3, <2>1, <2>3
    <3>2. QED
      BY <3>1 DEF Contains
  <2>4. QED
    BY <2>2, <2>3
<1>6. ASSUME t = s
      PROVE  Contains(u, t)
  <2>1. u[2] = t /\ 2 \in 1..Len(u)
    BY <1>1, <1>2, <1>6
  <2>2. QED
    BY <2>1 DEF Contains
<1>7. QED
  BY <1>4, <1>5, <1>6

(* A note adds s to the list of r, and nothing else to any list. *)
LEMMA NoteContains ==
    ASSUME NEW f \in [Specs -> Seq(Specs)], NEW r \in Specs, NEW s \in Specs,
           NEW x \in Specs, NEW t \in Specs
    PROVE  Contains(Note(f, r, s)[x], t) <=> Contains(f[x], t) \/ (x = r /\ t = s)
<1>1. CASE x # r
  BY <1>1 DEF Note
<1>2. CASE x = r /\ f[r] = <<>>
  <2>1. Note(f, r, s)[x] = <<s>>
    BY <1>2 DEF Note
  <2>2. Contains(<<s>>, t) <=> t = s
    BY DEF Contains
  <2>3. ~Contains(<<>>, t)
    BY DEF Contains
  <2>4. QED
    BY <1>2, <2>1, <2>2, <2>3
<1>3. CASE x = r /\ f[r] # <<>> /\ Contains(f[r], s)
  <2>1. Note(f, r, s)[x] = f[x]
    BY <1>3 DEF Note
  <2>2. QED
    BY <1>3, <2>1
<1>4. CASE x = r /\ f[r] # <<>> /\ ~Contains(f[r], s)
  <2>1. Note(f, r, s)[x] = <<Head(f[r]), s>> \o Tail(f[r])
    BY <1>4 DEF Note
  <2>2. QED
    BY <1>4, <2>1, InsertSecond
<1>5. QED
  BY <1>1, <1>2, <1>3, <1>4

(* Until the second pass nobody knows of a difference. *)
Knowledge ==
    /\ phase \in {"add", "merge"} =>
          differences = {} /\ \A x \in Specs : different[x] = <<>>
    /\ CliquesKnowDifferent

(* There are no differences at the start. *)
LEMMA KnowledgeStart == sts_new => Knowledge
BY DEF sts_new, Knowledge, CliquesKnowDifferent, Roots

(* sts_diff makes two cliques known to each other. *)
LEMMA KnowledgeDiff ==
    ASSUME IInv, Knowledge, sts_diff
    PROVE  Knowledge'
<1>1. /\ UNCHANGED <<added, parent, similar, phase>>
      /\ differences' = differences \cup {{left, right}}
      /\ different' = Note(Note(different, root1, spec), spec, root1)
      /\ phase = "diff"
  BY DEF sts_diff
<1>2. Roots' = Roots /\ \A r : Clique(r)' = Clique(r)
  BY <1>1 DEF Roots, Clique
<1>3. /\ root1 \in Roots /\ spec \in Roots
      /\ left \in Clique(root1) /\ right \in Clique(spec)
  BY DEF sts_diff, IInv, Forest, CallOK, TwoSpecs, SameClique
<1>4. Roots \subseteq Specs
  BY DEF IInv, EntryTypes, Roots
<1>5. ASSUME NEW r \in Roots, NEW s \in Roots
      PROVE  Contains(different'[r], s)
               <=> \E x \in Clique(r), y \in Clique(s) : {x, y} \in differences'
  <2>1. Contains(different'[r], s)
          <=> Contains(different[r], s) \/ (r = root1 /\ s = spec) \/ (r = spec /\ s = root1)
    <3>1. /\ different \in [Specs -> Seq(Specs)]
          /\ root1 \in Specs /\ spec \in Specs /\ r \in Specs /\ s \in Specs
      BY <1>3, <1>4 DEF IInv, EntryTypes
    <3>2. PICK f \in [Specs -> Seq(Specs)] : f = Note(different, root1, spec)
      BY <3>1, NoteType
    <3>3. Contains(f[r], s) <=> Contains(different[r], s) \/ (r = root1 /\ s = spec)
      BY <3>1, <3>2, NoteContains
    <3>4. Contains(Note(f, spec, root1)[r], s) <=> Contains(f[r], s) \/ (r = spec /\ s = root1)
      BY <3>1, NoteContains
    <3>5. different' = Note(f, spec, root1)
      BY <1>1, <3>2
    <3>6. QED
      BY <3>3, <3>4, <3>5
  <2>2. Contains(different[r], s)
          <=> \E x \in Clique(r), y \in Clique(s) : {x, y} \in differences
    BY DEF Knowledge, CliquesKnowDifferent
  <2>3. (\E x \in Clique(r), y \in Clique(s) : {x, y} = {left, right})
          <=> (r = root1 /\ s = spec) \/ (r = spec /\ s = root1)
    <3>1. /\ left \in Clique(r) <=> r = root1
          /\ right \in Clique(r) <=> r = spec
          /\ left \in Clique(s) <=> s = root1
          /\ right \in Clique(s) <=> s = spec
      BY <1>3 DEF IInv, Forest
    <3>2. \A x, y : {x, y} = {left, right}
                      <=> (x = left /\ y = right) \/ (x = right /\ y = left)
      OBVIOUS
    <3>3. QED
      BY <3>1, <3>2
  <2>4. QED
    BY <1>1, <2>1, <2>2, <2>3
<1>6. CliquesKnowDifferent'
  BY <1>2, <1>5 DEF CliquesKnowDifferent
<1>7. QED
  BY <1>1, <1>6 DEF Knowledge

(* Knowledge is kept by every step. *)
LEMMA KnowledgeStep ==
    ASSUME IInv, Knowledge, [Next]_vars
    PROVE  Knowledge'
<1>1. IInv'
  BY StepOK
<1>2. CASE sts_diff
  BY <1>2, KnowledgeDiff
<1>3. CASE (\E x \in Specs : sts_add(x)) \/ sts_merge
  <2>1. phase \in {"add", "merge"} /\ UNCHANGED <<differences, different>>
    BY <1>3 DEF sts_add, sts_merge, rows
  <2>2. differences' = {} /\ \A x \in Specs : different'[x] = <<>>
    BY <2>1 DEF Knowledge
  <2>3. Roots' \subseteq Specs
    BY <1>1 DEF IInv, EntryTypes, Roots
  <2>4. \A s : ~Contains(<<>>, s)
    BY DEF Contains
  <2>5. CliquesKnowDifferent'
    BY <2>2, <2>3, <2>4 DEF CliquesKnowDifferent
  <2>6. QED
    BY <2>2, <2>5 DEF Knowledge
<1>4. CASE Quiet /\ ~sts_diff
  <2>1. UNCHANGED <<differences, different>>
    BY <1>4 DEF Quiet, FindRoot, Climb, Found, ReadRow, Visit, Collect, WritePair,
       EndOfVisit, NextPhase, vars, entries, rows
  <2>2. phase' \in {"add", "merge"} => phase \in {"add", "merge"}
    <3>1. CASE NextPhase
      <4>1. phase \in Phases \ {"done"}
        BY <3>1 DEF NextPhase, IInv, EntryTypes
      <4>2. \A f \in Phases \ {"done"} : After[f] \in {"add", "merge"} => f \in {"add", "merge"}
        BY DEF After, Phases
      <4>3. QED
        BY <3>1, <4>1, <4>2 DEF NextPhase
    <3>2. CASE ~NextPhase
      BY <1>4, <3>2 DEF Quiet, FindRoot, Climb, Found, ReadRow, Visit, Collect, WritePair,
         EndOfVisit, vars
    <3>3. QED
      BY <3>1, <3>2
  <2>3. Roots' = Roots /\ UNCHANGED similar
    BY <1>4, QuietStep
  <2>4. CliquesKnowDifferent'
    BY <2>1, <2>3 DEF Knowledge, CliquesKnowDifferent, Clique
  <2>5. QED
    BY <2>1, <2>2, <2>4 DEF Knowledge
<1>5. QED
  BY <1>2, <1>3, <1>4, StepCases

(* CliquesKnowDifferent always holds, because main makes all the merges    *)
(* before the first difference (main.c:673-676): root s is in the list of  *)
(* root r if and only if a row with label 0 names a spec of each clique.   *)
THEOREM DifferencesKnown == Spec => []CliquesKnowDifferent
<1>1. IInv /\ Knowledge /\ [Next]_vars => Knowledge'
  BY KnowledgeStep
<1>2. Knowledge => CliquesKnowDifferent
  BY DEF Knowledge
<1>3. QED
  BY <1>1, <1>2, KnowledgeStart, Invariance, PTL DEF Spec

-----------------------------------------------------------------------------
(* A set of naturals that is not empty has a least element. *)
LEMMA Least ==
    ASSUME NEW T, T \subseteq Nat, T # {}
    PROVE  \E m \in T : \A k \in T : m <= k
<1>1. PICK m \in T : \A k \in T : ~(<<k, m>> \in OpToRel(<, Nat))
  BY WFMin, NatLessThanWellFounded
<1>2. ASSUME NEW k \in T, k < m
      PROVE  FALSE
  <2>1. <<k, m>> \in OpToRel(<, Nat)
    BY <1>2 DEF OpToRel
  <2>2. QED
    BY <1>1, <2>1
<1>3. \A k \in T : m <= k
  BY <1>2
<1>4. QED
  BY <1>3

(* The function by which FlattenSeq concatenates the first n of seqs. *)
JoinedTo(f, seqs, n) ==
    f = [i \in 1..n |-> IF i = 1 THEN seqs[i] ELSE f[i - 1] \o seqs[i]]

(* There is such a function, whatever the sequences.                       *)
LEMMA PrefixesExist ==
    ASSUME NEW seqs, NEW n \in Nat
    PROVE  \E f : JoinedTo(f, seqs, n)
<1> DEFINE Bad == {m \in Nat : ~\E f : JoinedTo(f, seqs, m)}
<1>1. SUFFICES ASSUME Bad # {} PROVE FALSE
  OBVIOUS
<1>2. PICK m \in Bad : \A k \in Bad : m <= k
  BY <1>1, Least
<1>3. CASE m = 0
  <2>1. JoinedTo([i \in 1..0 |-> 0], seqs, 0)
    BY DEF JoinedTo
  <2>2. QED
    BY <1>3, <2>1
<1>4. CASE m # 0
  <2>1. m - 1 \in Nat /\ m - 1 \notin Bad
    BY <1>2, <1>4
  <2>2. PICK f : JoinedTo(f, seqs, m - 1)
    BY <2>1
  <2> DEFINE g == [i \in 1..m |-> IF i < m THEN f[i]
                                  ELSE IF i = 1 THEN seqs[i] ELSE f[i - 1] \o seqs[i]]
  <2>3. ASSUME NEW i \in 1..m
        PROVE  g[i] = IF i = 1 THEN seqs[i] ELSE g[i - 1] \o seqs[i]
    <3>1. CASE i < m
      <4>1. f[i] = IF i = 1 THEN seqs[i] ELSE f[i - 1] \o seqs[i]
        <5>1. f = [j \in 1..(m-1) |-> IF j = 1 THEN seqs[j] ELSE f[j - 1] \o seqs[j]]
          BY <2>2 DEF JoinedTo
        <5> HIDE DEF g
        <5>2. i \in 1..(m-1)
          BY <1>2, <3>1
        <5>3. QED
          BY <5>1, <5>2
      <4>2. i # 1 => g[i - 1] = f[i - 1]
        BY <3>1
      <4>3. QED
        BY <3>1, <4>1, <4>2
    <3>2. CASE i = m
      <4>1. i # 1 => g[i - 1] = f[i - 1]
        BY <3>2
      <4>2. QED
        BY <3>2, <4>1
    <3>3. QED
      BY <3>1, <3>2
  <2>4. g = [i \in 1..m |-> IF i = 1 THEN seqs[i] ELSE g[i - 1] \o seqs[i]]
    <3>1. g = [i \in 1..m |-> g[i]]
      OBVIOUS
    <3> HIDE DEF g
    <3>2. QED
      BY <2>3, <3>1
  <2>5. JoinedTo(g, seqs, m)
    BY <2>4 DEF JoinedTo
  <2>6. QED
    BY <2>5
<1>5. QED
  BY <1>3, <1>4

(* FlattenSeq is its last value. *)
LEMMA FlattenIs ==
    ASSUME NEW seqs, NEW n \in Nat \ {0}, n = Len(seqs)
    PROVE  \E f : JoinedTo(f, seqs, n) /\ FlattenSeq(seqs) = f[n]
<1> DEFINE f == CHOOSE f : JoinedTo(f, seqs, n)
<1>1. JoinedTo(f, seqs, n)
  BY PrefixesExist
<1>2. FlattenSeq(seqs) = f[n]
  BY DEF FlattenSeq, JoinedTo
<1>3. QED
  BY <1>1, <1>2

-----------------------------------------------------------------------------
(* The pairs of a sequence, and that it has none of them twice. *)
PairSets(s) == {PairOf(p) : p \in ToSet(s)}

Once(s) == \A i, j \in 1..Len(s) : PairOf(s[i]) = PairOf(s[j]) => i = j

(* Two sequences of different pairs make one. *)
LEMMA OnceConcat ==
    ASSUME NEW S, NEW s \in Seq(S), NEW t \in Seq(S), Once(s), Once(t),
           PairSets(s) \cap PairSets(t) = {}
    PROVE  Once(s \o t)
<1> SUFFICES ASSUME NEW i \in 1..(Len(s) + Len(t)), NEW j \in 1..(Len(s) + Len(t)),
                    PairOf((s \o t)[i]) = PairOf((s \o t)[j]), i < j
             PROVE  FALSE
  BY DEF Once
<1>1. CASE j <= Len(s)
  BY <1>1 DEF Once
<1>2. CASE i > Len(s)
  <2>1. /\ i - Len(s) \in 1..Len(t) /\ j - Len(s) \in 1..Len(t)
        /\ PairOf(t[i - Len(s)]) = PairOf(t[j - Len(s)])
    BY <1>2
  <2>2. i - Len(s) = j - Len(s)
    BY <2>1 DEF Once
  <2>3. QED
    BY <2>2
<1>3. CASE i <= Len(s) /\ j > Len(s)
  <2>1. /\ i \in DOMAIN s /\ j - Len(s) \in DOMAIN t
        /\ PairOf(s[i]) = PairOf(t[j - Len(s)])
    BY <1>3
  <2>2. s[i] \in ToSet(s) /\ t[j - Len(s)] \in ToSet(t)
    BY <2>1 DEF ToSet
  <2>3. QED
    BY <2>1, <2>2 DEF PairSets
<1>4. QED
  BY <1>1, <1>2, <1>3

(* Rows that have no pair twice, and no pair in common. *)
RowsOnce(seqs) ==
    /\ \A i \in 1..Len(seqs) : Once(seqs[i])
    /\ \A i, j \in 1..Len(seqs) : i # j => PairSets(seqs[i]) \cap PairSets(seqs[j]) = {}

(* What the first n rows make: a sequence with the elements of these rows. *)
Joined(q, seqs, n, S) ==
    /\ q \in Seq(S)
    /\ ToSet(q) = UNION {ToSet(seqs[i]) : i \in 1..n}
    /\ RowsOnce(seqs) => Once(q)

(* One more row. *)
LEMMA JoinOne ==
    ASSUME NEW S, NEW seqs \in Seq(Seq(S)), NEW n \in Nat, n + 1 \in 1..Len(seqs),
           NEW q, Joined(q, seqs, n, S)
    PROVE  Joined(q \o seqs[n + 1], seqs, n + 1, S)
<1> DEFINE t == seqs[n + 1]
<1>1. t \in Seq(S) /\ q \in Seq(S)
  BY DEF Joined
<1>2. ToSet(q \o t) = ToSet(q) \cup ToSet(t)
  BY <1>1, ToSetConcat
<1>3. ToSet(q \o t) = UNION {ToSet(seqs[i]) : i \in 1..(n + 1)}
  <2>1. 1..(n + 1) = 1..n \cup {n + 1}
    OBVIOUS
  <2>2. QED
    BY <1>2, <2>1 DEF Joined
<1>4. ASSUME RowsOnce(seqs)
      PROVE  Once(q \o t)
  <2>1. Once(q) /\ Once(t)
    BY <1>4 DEF Joined, RowsOnce
  <2>2. \A i \in 1..n : PairSets(seqs[i]) \cap PairSets(t) = {}
    <3>1. \A i \in 1..n : i \in 1..Len(seqs) /\ i # n + 1
      OBVIOUS
    <3>2. QED
      BY <1>4, <3>1 DEF RowsOnce
  <2>3. PairSets(q) \cap PairSets(t) = {}
    <3>1. SUFFICES ASSUME NEW x \in ToSet(q), PairOf(x) \in PairSets(t) PROVE FALSE
      BY DEF PairSets
    <3>2. PICK i \in 1..n : x \in ToSet(seqs[i])
      BY DEF Joined
    <3>3. PairOf(x) \in PairSets(seqs[i])
      BY <3>2 DEF PairSets
    <3>4. QED
      BY <2>2, <3>1, <3>3
  <2>4. QED
    BY <1>1, <2>1, <2>3, OnceConcat
<1>5. q \o t \in Seq(S)
  BY <1>1
<1>6. QED
  BY <1>3, <1>4, <1>5 DEF Joined

(* FlattenSeq joins all the rows. *)
LEMMA FlattenJoins ==
    ASSUME NEW S, NEW seqs \in Seq(Seq(S))
    PROVE  Joined(FlattenSeq(seqs), seqs, Len(seqs), S)
<1>1. CASE Len(seqs) = 0
  <2>1. FlattenSeq(seqs) = <<>> /\ seqs = <<>>
    BY <1>1 DEF FlattenSeq
  <2>2. Joined(<<>>, seqs, 0, S)
    <3>1. ToSet(<<>>) = {}
      BY ToSetShort
    <3>2. 1..0 = {}
      OBVIOUS
    <3>3. Once(<<>>)
      BY DEF Once
    <3>4. QED
      BY <3>1, <3>3, <3>2 DEF Joined
  <2>3. QED
    BY <1>1, <2>1, <2>2
<1>2. CASE Len(seqs) # 0
  <2> DEFINE n == Len(seqs)
  <2>1. n \in Nat \ {0}
    BY <1>2
  <2>2. PICK f : JoinedTo(f, seqs, n) /\ FlattenSeq(seqs) = f[n]
    BY <2>1, FlattenIs
  <2> DEFINE Bad == {m \in 1..n : ~Joined(f[m], seqs, m, S)}
  <2>3. Bad = {}
    <3>1. SUFFICES ASSUME Bad # {} PROVE FALSE
      OBVIOUS
    <3>2. PICK m \in Bad : \A k \in Bad : m <= k
      <4>1. Bad \subseteq Nat
        OBVIOUS
      <4> HIDE DEF Bad
      <4>2. QED
        BY <3>1, <4>1, Least
    <3>3. f[m] = IF m = 1 THEN seqs[m] ELSE f[m - 1] \o seqs[m]
      BY <2>2 DEF JoinedTo
    <3>4. CASE m = 1
      <4>1. f[m] \in Seq(S) /\ f[m] = seqs[1]
        BY <2>1, <3>3, <3>4
      <4>2. 1..1 = {1} /\ 1 \in 1..Len(seqs)
        BY <2>1
      <4>3. Joined(f[m], seqs, 1, S)
        BY <4>1, <4>2 DEF Joined, RowsOnce
      <4>4. QED
        BY <3>2, <3>4, <4>3
    <3>5. CASE m # 1
      <4>1. m - 1 \in 1..n /\ m - 1 \notin Bad /\ m - 1 \in Nat /\ (m - 1) + 1 = m
        BY <3>2, <3>5
      <4>2. PICK k \in Nat : k = m - 1
        BY <4>1
      <4>3. Joined(f[k], seqs, k, S) /\ k + 1 = m /\ k + 1 \in 1..Len(seqs)
        BY <3>2, <4>1, <4>2
      <4>4. Joined(f[k] \o seqs[k + 1], seqs, k + 1, S)
        BY <4>3, JoinOne
      <4>5. f[m] = f[k] \o seqs[m]
        BY <3>3, <3>5, <4>2
      <4>6. QED
        BY <3>2, <4>3, <4>4, <4>5
    <3>6. QED
      BY <3>4, <3>5
  <2>4. QED
    BY <2>1, <2>2, <2>3
<1>3. QED
  BY <1>1, <1>2

(* The rows of PairsAfter: the element at i with every later one. *)
RowAfter(s, i) == [j \in 1..(Len(s) - i) |-> <<s[i], s[i + j]>>]

RowsAfter(s) == [i \in 1..Len(s) |-> RowAfter(s, i)]

(* PairsAfter in these words. *)
LEMMA PairsAfterRows ==
    ASSUME NEW s \in Seq(Specs)
    PROVE  /\ PairsAfter(s) = FlattenSeq(RowsAfter(s))
           /\ RowsAfter(s) \in Seq(Seq(Specs \X Specs))
           /\ Len(RowsAfter(s)) = Len(s)
           /\ \A i \in 1..Len(s) : RowsAfter(s)[i] = RowAfter(s, i)
           /\ \A i \in 1..Len(s) : /\ Len(RowAfter(s, i)) = Len(s) - i
                                   /\ RowAfter(s, i) \in Seq(Specs \X Specs)
                                   /\ \A j \in 1..(Len(s) - i) :
                                         RowAfter(s, i)[j] = <<s[i], s[i + j]>>
<1>1. PairsAfter(s) = FlattenSeq(RowsAfter(s))
  BY DEF PairsAfter, RowsAfter, RowAfter
<1>2. ASSUME NEW i \in 1..Len(s)
      PROVE  /\ Len(RowAfter(s, i)) = Len(s) - i
             /\ RowAfter(s, i) \in Seq(Specs \X Specs)
             /\ \A j \in 1..(Len(s) - i) : RowAfter(s, i)[j] = <<s[i], s[i + j]>>
  <2>1. \A j \in 1..(Len(s) - i) : s[i] \in Specs /\ s[i + j] \in Specs
    OBVIOUS
  <2>2. Len(s) - i \in Nat
    OBVIOUS
  <2>3. \A j \in 1..(Len(s) - i) : <<s[i], s[i + j]>> \in Specs \X Specs
    BY <2>1
  <2>4. QED
    BY <2>2, <2>3 DEF RowAfter
<1>3. RowsAfter(s) \in Seq(Seq(Specs \X Specs)) /\ Len(RowsAfter(s)) = Len(s)
  BY <1>2 DEF RowsAfter
<1>4. QED
  BY <1>1, <1>2, <1>3 DEF RowsAfter

(* The pairs of a row. *)
LEMMA RowPairs ==
    ASSUME NEW s \in Seq(Specs), NEW i \in 1..Len(s)
    PROVE  ToSet(RowAfter(s, i)) = {<<s[i], s[j]>> : j \in (i + 1)..Len(s)}
<1>1. /\ Len(RowAfter(s, i)) = Len(s) - i
      /\ RowAfter(s, i) \in Seq(Specs \X Specs)
      /\ \A j \in 1..(Len(s) - i) : RowAfter(s, i)[j] = <<s[i], s[i + j]>>
  BY PairsAfterRows
<1>2. ASSUME NEW p \in ToSet(RowAfter(s, i))
      PROVE  \E j \in (i + 1)..Len(s) : p = <<s[i], s[j]>>
  <2>1. PICK j \in 1..(Len(s) - i) : p = RowAfter(s, i)[j]
    BY <1>1 DEF ToSet
  <2>2. i + j \in (i + 1)..Len(s) /\ p = <<s[i], s[i + j]>>
    BY <1>1, <2>1
  <2>3. QED
    BY <2>2
<1>3. ASSUME NEW j \in (i + 1)..Len(s)
      PROVE  <<s[i], s[j]>> \in ToSet(RowAfter(s, i))
  <2>1. j - i \in 1..(Len(s) - i) /\ i + (j - i) = j
    OBVIOUS
  <2>2. RowAfter(s, i)[j - i] = <<s[i], s[j]>>
    BY <1>1, <2>1
  <2>3. j - i \in DOMAIN RowAfter(s, i)
    BY <1>1, <2>1
  <2>4. QED
    BY <2>2, <2>3 DEF ToSet
<1>4. QED
  BY <1>2, <1>3

(* A set of two is two elements of it. *)
LEMMA TwoOf ==
    ASSUME NEW S, IsFiniteSet(S), NEW m \in kSubset(2, S)
    PROVE  \E x, y \in S : x # y /\ m = {x, y}
<1>1. IsFiniteSet(m) /\ m \subseteq S /\ Cardinality(m) = 2
  BY FS_Subset DEF kSubset
<1>2. PICK x \in m : TRUE
  BY <1>1, FS_EmptySet
<1>3. Cardinality(m \ {x}) = 1 /\ IsFiniteSet(m \ {x})
  BY <1>1, FS_RemoveElement
<1>4. PICK y : m \ {x} = {y}
  BY <1>3, FS_Singleton
<1>5. QED
  BY <1>1, <1>2, <1>4

(* Two elements are a set of two. *)
LEMMA TwoAre ==
    ASSUME NEW S, NEW x \in S, NEW y \in S, x # y
    PROVE  {x, y} \in kSubset(2, S)
<1>1. Cardinality({y}) = 1 /\ IsFiniteSet({y})
  BY FS_Singleton
<1>2. Cardinality({y} \cup {x}) = 2
  BY <1>1, FS_AddElement
<1>3. {y} \cup {x} = {x, y}
  OBVIOUS
<1>4. QED
  BY <1>2, <1>3 DEF kSubset

(* The elements of a list. *)
LEMMA Elements ==
    ASSUME NEW s \in Seq(Specs)
    PROVE  \A x : x \in ToSet(s) <=> \E i \in 1..Len(s) : s[i] = x
BY DEF ToSet

(* PairsAfter of a list without duplicates has each set of two of its      *)
(* elements once, in one order, and nothing else.                          *)
LEMMA PairsAfterOnce ==
    ASSUME NEW s \in Seq(Specs), IsInjective(s)
    PROVE  /\ PairsAfter(s) \in Seq(Specs \X Specs)
           /\ Once(PairsAfter(s))
           /\ PairSets(PairsAfter(s)) = kSubset(2, ToSet(s))
<1> DEFINE q == PairsAfter(s)
<1>1. \A i, j \in 1..Len(s) : s[i] = s[j] => i = j
  BY DEF IsInjective
<1>2. RowsOnce(RowsAfter(s))
  <2>1. ASSUME NEW i \in 1..Len(s)
        PROVE  Once(RowAfter(s, i))
    <3>1. /\ Len(RowAfter(s, i)) = Len(s) - i
          /\ \A j \in 1..(Len(s) - i) : RowAfter(s, i)[j] = <<s[i], s[i + j]>>
      BY PairsAfterRows
    <3>2. \A j \in 1..(Len(s) - i) : PairOf(RowAfter(s, i)[j]) = {s[i], s[i + j]}
      BY <3>1 DEF PairOf
    <3>3. SUFFICES ASSUME NEW j \in 1..(Len(s) - i), NEW k \in 1..(Len(s) - i),
                          {s[i], s[i + j]} = {s[i], s[i + k]}
                   PROVE  j = k
      BY <3>1, <3>2 DEF Once
    <3>4. s[i + j] = s[i + k]
      BY <3>3
    <3>5. i + j \in 1..Len(s) /\ i + k \in 1..Len(s)
      OBVIOUS
    <3>6. i + j = i + k
      BY <1>1, <3>4, <3>5
    <3>7. QED
      BY <3>6
  <2>2. ASSUME NEW i \in 1..Len(s), NEW k \in 1..Len(s), i < k
        PROVE  PairSets(RowAfter(s, i)) \cap PairSets(RowAfter(s, k)) = {}
    <3>1. \A h \in 1..Len(s) : PairSets(RowAfter(s, h))
                                 = {PairOf(p) : p \in {<<s[h], s[j]>> : j \in (h + 1)..Len(s)}}
      BY RowPairs DEF PairSets
    <3>2. \A h \in 1..Len(s) : \A m : m \in PairSets(RowAfter(s, h))
                   => \E j \in (h + 1)..Len(s) : m = {s[h], s[j]}
      BY <3>1 DEF PairOf
    <3>3. SUFFICES ASSUME NEW m \in PairSets(RowAfter(s, i)), m \in PairSets(RowAfter(s, k))
                   PROVE  FALSE
      OBVIOUS
    <3>4. PICK j \in (i + 1)..Len(s) : m = {s[i], s[j]}
      BY <3>2
    <3>5. PICK l \in (k + 1)..Len(s) : m = {s[k], s[l]}
      BY <3>2, <3>3
    <3>6. {s[i], s[j]} = {s[k], s[l]}
      BY <3>4, <3>5
    <3>7. s[i] = s[k] \/ s[i] = s[l]
      BY <3>6
    <3>8. l \in 1..Len(s) /\ i # k /\ i # l
      BY <2>2
    <3>9. QED
      BY <1>1, <3>7, <3>8
  <2>3. \A i, k \in 1..Len(s) : i # k =>
            PairSets(RowAfter(s, i)) \cap PairSets(RowAfter(s, k)) = {}
    <3>1. TAKE i, k \in 1..Len(s)
    <3>2. HAVE i # k
    <3>3. i < k \/ k < i
      BY <3>2
    <3>4. QED
      BY <2>2, <3>3
  <2>4. QED
    BY <2>1, <2>3, PairsAfterRows DEF RowsOnce
<1>3. Joined(q, RowsAfter(s), Len(s), Specs \X Specs)
  BY FlattenJoins, PairsAfterRows
<1>4. \A p : p \in ToSet(q) <=> \E i \in 1..Len(s) : \E j \in (i + 1)..Len(s) : p = <<s[i], s[j]>>
  <2>1. ToSet(q) = UNION {ToSet(RowAfter(s, i)) : i \in 1..Len(s)}
    BY <1>3, PairsAfterRows DEF Joined
  <2> HIDE DEF q
  <2>2. QED
    BY <2>1, RowPairs
<1>5. PairSets(q) = kSubset(2, ToSet(s))
  <2> HIDE DEF q
  <2>1. ASSUME NEW m \in PairSets(q)
        PROVE  m \in kSubset(2, ToSet(s))
    <3>1. PICK i \in 1..Len(s) : \E j \in (i + 1)..Len(s) : m = {s[i], s[j]}
      BY <1>4, <2>1 DEF PairSets, PairOf
    <3>2. PICK j \in (i + 1)..Len(s) : m = {s[i], s[j]}
      BY <3>1
    <3>3. j \in 1..Len(s) /\ i # j
      OBVIOUS
    <3>4. s[i] \in ToSet(s) /\ s[j] \in ToSet(s) /\ s[i] # s[j]
      BY <1>1, <3>3, Elements
    <3>5. QED
      BY <3>2, <3>4, TwoAre
  <2>2. ASSUME NEW m \in kSubset(2, ToSet(s))
        PROVE  m \in PairSets(q)
    <3>1. IsFiniteSet(ToSet(s))
      <4>1. ToSet(s) \subseteq Specs
        BY Elements
      <4>2. QED
        BY <4>1, SpecsAssumption, FS_Subset
    <3>2. PICK x \in ToSet(s), y \in ToSet(s) : x # y /\ m = {x, y}
      BY <2>2, <3>1, TwoOf
    <3>3. PICK i \in 1..Len(s), j \in 1..Len(s) : s[i] = x /\ s[j] = y
      BY <3>2, Elements
    <3>4. CASE i < j
      <4>1. j \in (i + 1)..Len(s)
        BY <3>4
      <4>2. <<x, y>> \in ToSet(q)
        BY <1>4, <3>3, <4>1
      <4>3. QED
        BY <3>2, <4>2 DEF PairSets, PairOf
    <3>5. CASE j < i
      <4>1. i \in (j + 1)..Len(s)
        BY <3>5
      <4>2. <<y, x>> \in ToSet(q)
        BY <1>4, <3>3, <4>1
      <4>3. QED
        BY <3>2, <4>2 DEF PairSets, PairOf
    <3>6. i # j
      BY <3>2, <3>3
    <3>7. QED
      BY <3>4, <3>5, <3>6
  <2>3. QED
    BY <2>1, <2>2
<1>6. QED
  BY <1>2, <1>3, <1>5 DEF Joined

(* The elements of a product. *)
LEMMA ProductElements ==
    ASSUME NEW s \in Seq(Specs), NEW t \in Seq(Specs)
    PROVE  /\ Product(s, t) \in Seq(Specs \X Specs)
           /\ \A p \in ToSet(Product(s, t)) : p[1] \in ToSet(s) /\ p[2] \in ToSet(t)
<1> DEFINE row(i) == [j \in 1..Len(t) |-> <<s[i], t[j]>>]
           seqs == [i \in 1..Len(s) |-> row(i)]
<1>1. Product(s, t) = FlattenSeq(seqs)
  BY DEF Product
<1>2. ASSUME NEW i \in 1..Len(s)
      PROVE  /\ row(i) \in Seq(Specs \X Specs)
             /\ \A p \in ToSet(row(i)) : p[1] \in ToSet(s) /\ p[2] \in ToSet(t)
  <2>1. s[i] \in Specs /\ s[i] \in ToSet(s)
    BY Elements
  <2>2. \A j \in 1..Len(t) : t[j] \in Specs /\ t[j] \in ToSet(t)
    BY Elements
  <2>3. Len(t) \in Nat
    OBVIOUS
  <2>4. row(i) \in Seq(Specs \X Specs)
    BY <2>1, <2>2, <2>3
  <2>5. ASSUME NEW p \in ToSet(row(i))
        PROVE  p[1] \in ToSet(s) /\ p[2] \in ToSet(t)
    <3>1. PICK j \in 1..Len(t) : p = <<s[i], t[j]>>
      BY DEF ToSet
    <3>2. QED
      BY <2>1, <2>2, <3>1
  <2>6. QED
    BY <2>4, <2>5
<1> HIDE DEF row
<1>3. seqs \in Seq(Seq(Specs \X Specs)) /\ Len(seqs) = Len(s)
      /\ \A i \in 1..Len(s) : seqs[i] = row(i)
  BY <1>2
<1> HIDE DEF seqs
<1>4. Joined(FlattenSeq(seqs), seqs, Len(s), Specs \X Specs)
  BY <1>3, FlattenJoins
<1>5. QED
  BY <1>1, <1>2, <1>3, <1>4 DEF Joined

(* The pairs that init_different_pairs makes from a list of different      *)
(* roots: a root with a spec similar to another root of the list.          *)
LEMMA DifferentElements ==
    ASSUME NEW d \in Seq(Specs), similar \in [Specs -> Seq(Specs)]
    PROVE  /\ PairsOfDifferent(d) \in Seq(Specs \X Specs)
           /\ IsInjective(d) => \A p \in ToSet(PairsOfDifferent(d)) :
                 \E r, t \in ToSet(d) : r # t /\ p[1] = t /\ p[2] \in Clique(r)
<1> DEFINE row(i) == IF printed[d[i]]
                     THEN Product(SubSeq(d, i + 1, Len(d)), similar[d[i]])
                     ELSE <<>>
           seqs == [i \in 1..Len(d) |-> row(i)]
<1>1. PairsOfDifferent(d) = FlattenSeq(seqs)
  BY DEF PairsOfDifferent
<1>2. ASSUME NEW i \in 1..Len(d)
      PROVE  /\ row(i) \in Seq(Specs \X Specs)
             /\ IsInjective(d) => \A p \in ToSet(row(i)) :
                   \E r, t \in ToSet(d) : r # t /\ p[1] = t /\ p[2] \in Clique(r)
  <2>1. CASE ~printed[d[i]]
    <3>1. row(i) = <<>>
      BY <2>1
    <3> HIDE DEF row
    <3>2. ToSet(<<>>) = {}
      BY ToSetShort
    <3>3. <<>> \in Seq(Specs \X Specs)
      OBVIOUS
    <3>4. ToSet(row(i)) = {} /\ row(i) \in Seq(Specs \X Specs)
      BY <3>1, <3>2, <3>3
    <3>5. QED
      BY <3>1, <3>4
  <2>2. CASE printed[d[i]]
    <3> DEFINE s == SubSeq(d, i + 1, Len(d))
               t == similar[d[i]]
    <3>1. d[i] \in Specs /\ t \in Seq(Specs) /\ s \in Seq(Specs)
      OBVIOUS
    <3>2. Len(s) = Len(d) - i /\ \A j \in 1..(Len(d) - i) : s[j] = d[i + j]
      OBVIOUS
    <3>3. row(i) = Product(s, t)
      BY <2>2
    <3> HIDE DEF s
    <3>4. ASSUME IsInjective(d), NEW p \in ToSet(row(i))
          PROVE  \E r, u \in ToSet(d) : r # u /\ p[1] = u /\ p[2] \in Clique(r)
      <4>1. p[1] \in ToSet(s) /\ p[2] \in ToSet(t)
        BY <3>1, <3>3, <3>4, ProductElements
      <4>2. PICK j \in 1..Len(s) : s[j] = p[1]
        BY <3>1, <4>1, Elements
      <4>3. j \in 1..(Len(d) - i) /\ p[1] = d[i + j]
        BY <3>2, <4>2
      <4>4. i + j \in 1..Len(d) /\ i + j # i
        BY <4>3
      <4>5. d[i] # d[i + j]
        BY <3>4, <4>4 DEF IsInjective
      <4>6. d[i] \in ToSet(d) /\ d[i + j] \in ToSet(d)
        BY <4>4, Elements
      <4>7. p[2] \in Clique(d[i])
        BY <4>1 DEF Clique
      <4>8. QED
        BY <4>3, <4>5, <4>6, <4>7
    <3>5. row(i) \in Seq(Specs \X Specs)
      BY <3>1, <3>3, ProductElements
    <3>6. QED
      BY <3>4, <3>5
  <2>3. QED
    BY <2>1, <2>2
<1> HIDE DEF row
<1>3. seqs \in Seq(Seq(Specs \X Specs)) /\ Len(seqs) = Len(d)
      /\ \A i \in 1..Len(d) : seqs[i] = row(i)
  BY <1>2
<1> HIDE DEF seqs
<1>4. Joined(FlattenSeq(seqs), seqs, Len(d), Specs \X Specs)
  BY <1>3, FlattenJoins
<1>5. ASSUME IsInjective(d), NEW p \in ToSet(FlattenSeq(seqs))
      PROVE  \E r, t \in ToSet(d) : r # t /\ p[1] = t /\ p[2] \in Clique(r)
  <2>1. PICK i \in 1..Len(d) : p \in ToSet(row(i))
    BY <1>3, <1>4, <1>5 DEF Joined
  <2>2. QED
    BY <1>2, <1>5, <2>1
<1>6. QED
  BY <1>1, <1>4, <1>5 DEF Joined

(* A pair moved from the head of q to the end of p. *)
LEMMA MoveOne ==
    ASSUME NEW S, NEW p \in Seq(S), NEW q \in Seq(S), q # <<>>
    PROVE  /\ Head(q) \in S /\ Tail(q) \in Seq(S)
           /\ Append(p, Head(q)) \in Seq(S)
           /\ Append(p, Head(q)) \o Tail(q) = p \o q
           /\ ToSet(Append(p, Head(q))) = ToSet(p) \cup {Head(q)}
           /\ ToSet(q) = {Head(q)} \cup ToSet(Tail(q))
<1>1. /\ Head(q) = q[1] /\ Len(q) \in Nat \ {0} /\ Len(Tail(q)) = Len(q) - 1
      /\ Tail(q) \in Seq(S) /\ Head(q) \in S
      /\ \A i \in 1..(Len(q) - 1) : Tail(q)[i] = q[i + 1]
  OBVIOUS
<1> DEFINE h == <<Head(q)>>
<1>2. h \in Seq(S) /\ ToSet(h) = {Head(q)}
  BY <1>1, ToSetShort
<1>3. Append(p, Head(q)) = p \o h /\ q = h \o Tail(q)
  BY <1>1
<1>4. (p \o h) \o Tail(q) = p \o (h \o Tail(q))
  BY <1>1, <1>2
<1>5. p \o h \in Seq(S) /\ Tail(q) \in Seq(S)
  BY <1>1, <1>2
<1> HIDE DEF h
<1>6. ToSet(p \o h) = ToSet(p) \cup ToSet(h)
  BY <1>2, ToSetConcat
<1>7. ToSet(h \o Tail(q)) = ToSet(h) \cup ToSet(Tail(q))
  <2>1. PICK t \in Seq(S) : t = Tail(q)
    BY <1>5
  <2>2. ToSet(h \o t) = ToSet(h) \cup ToSet(t)
    BY <1>2, ToSetConcat
  <2>3. QED
    BY <2>1, <2>2
<1>8. QED
  BY <1>1, <1>2, <1>3, <1>4, <1>5, <1>6, <1>7

-----------------------------------------------------------------------------
(* The pairs are allocated before they are written: what the arrays hold   *)
(* before their phase, and how much in it.                                 *)
Room ==
    /\ pc = "write" => phase \in {"similar", "different"}
    /\ phase \in {"add", "merge", "diff"} => pairs["similar"] = <<>>
    /\ phase \notin {"different", "done"} => pairs["different"] = <<>>
    /\ PairsFit

RoomInv == OutputTypes /\ Room

(* No pair is made at the start. *)
LEMMA RoomStart == sts_new => RoomInv
<1> SUFFICES ASSUME sts_new PROVE RoomInv
  OBVIOUS
<1>1. OutputTypes
  BY DEF sts_new, OutputTypes
<1>2. Room
  BY DEF sts_new, Room, PairsFit
<1>3. QED
  BY <1>1, <1>2 DEF RoomInv

(* Collect makes pairs of specs. *)
LEMMA RoomCollect ==
    ASSUME IInv, RoomInv, Collect
    PROVE  RoomInv'
<1>1. UNCHANGED <<added, phase, todo, chunks, pairs>>
  BY DEF Collect
<1>2. out' \in Seq(Specs \X Specs)
  <2>1. /\ similar \in [Specs -> Seq(Specs)] /\ different \in [Specs -> Seq(Specs)]
        /\ left \in Specs
    BY DEF Collect, IInv, CallOK, EntryTypes
  <2>2. /\ similar[left] \in Seq(Specs) /\ different[left] \in Seq(Specs)
    BY <2>1
  <2>3. PairsAfter(similar[left]) \in Seq(Specs \X Specs)
    <3>1. PICK s \in Seq(Specs) : s = similar[left]
      BY <2>2
    <3>2. Joined(FlattenSeq(RowsAfter(s)), RowsAfter(s), Len(RowsAfter(s)), Specs \X Specs)
      BY PairsAfterRows, FlattenJoins
    <3>3. QED
      BY <3>1, <3>2, PairsAfterRows DEF Joined
  <2>4. PairsOfDifferent(different[left]) \in Seq(Specs \X Specs)
    BY <2>1, <2>2, DifferentElements
  <2>5. <<>> \in Seq(Specs \X Specs)
    OBVIOUS
  <2>6. \/ out' = <<>> \/ out' = PairsAfter(similar[left])
        \/ out' = PairsOfDifferent(different[left])
    BY DEF Collect
  <2>7. QED
    BY <2>3, <2>4, <2>5, <2>6
<1>3. OutputTypes'
  BY <1>1, <1>2 DEF RoomInv, OutputTypes
<1>4. Room'
  BY <1>1 DEF RoomInv, Room, PairsFit, Collect
<1>5. QED
  BY <1>3, <1>4 DEF RoomInv

(* An array that grows when it is full has room for the pair (realloc in   *)
(* init_similar_pairs and init_different_pairs).                           *)
LEMMA RoomWrite ==
    ASSUME IInv, RoomInv, WritePair
    PROVE  RoomInv'
<1>1. /\ UNCHANGED <<added, phase, todo, pc>> /\ pc = "write" /\ out # <<>>
      /\ chunks' = IF Grows THEN chunks + 1 ELSE chunks
      /\ pairs' = [pairs EXCEPT ![phase] = Append(pairs[phase], Head(out))]
      /\ out' = Tail(out)
  BY DEF WritePair, entries, call
<1>2. /\ phase \in {"similar", "different"}
      /\ pairs \in [{"similar", "different"} -> Seq(Specs \X Specs)]
      /\ pairs[phase] \in Seq(Specs \X Specs) /\ out \in Seq(Specs \X Specs)
      /\ chunks \in Nat
  BY <1>1 DEF RoomInv, OutputTypes, Room
<1>3. /\ Tail(out) \in Seq(Specs \X Specs)
      /\ Append(pairs[phase], Head(out)) \in Seq(Specs \X Specs)
      /\ Len(Append(pairs[phase], Head(out))) = Len(pairs[phase]) + 1
  <2>1. Head(out) \in Specs \X Specs
    BY <1>1, <1>2
  <2>2. QED
    BY <1>1, <1>2, <2>1
<1>4. /\ pairs'[phase] = Append(pairs[phase], Head(out))
      /\ \A f \in {"similar", "different"} : f # phase => pairs'[f] = pairs[f]
  BY <1>1, <1>2
<1>5. OutputTypes'
  BY <1>1, <1>2, <1>3 DEF RoomInv, OutputTypes
<1>6. PairsFit'
  <2> DEFINE n == Len(pairs[phase])
             c == MATCHES_CHUNK_SIZE
  <2>1. n \in Nat /\ c \in Nat \ {0} /\ chunks \in Nat
    BY <1>2, SpecsAssumption
  <2>2. n <= chunks * c
    BY <1>2 DEF RoomInv, Room, PairsFit
  <2>3. Grows <=> n + 1 > chunks * c
    BY DEF Grows
  <2>4. (chunks + 1) * c = chunks * c + c
    BY <2>1
  <2> HIDE DEF n, c
  <2>5. n + 1 <= chunks' * c
    BY <1>1, <2>1, <2>2, <2>3, <2>4
  <2>6. Len(pairs'[phase']) <= chunks' * MATCHES_CHUNK_SIZE
    BY <1>1, <1>3, <1>4, <2>5 DEF n, c
  <2>7. QED
    BY <2>6 DEF PairsFit
<1>7. Room'
  BY <1>1, <1>2, <1>4, <1>6 DEF RoomInv, Room
<1>8. QED
  BY <1>5, <1>7 DEF RoomInv

(* RoomInv is kept by every step. *)
LEMMA RoomStep ==
    ASSUME IInv, RoomInv, [Next]_vars
    PROVE  RoomInv'
<1> DEFINE Other ==
      \/ \E x \in Specs : sts_add(x)
      \/ \E x, y \in added : ReadRow(x, y)
      \/ FindRoot \/ sts_merge \/ sts_diff \/ EndOfVisit \/ UNCHANGED vars
<1>1. ASSUME Other
      PROVE  RoomInv'
  <2>1. UNCHANGED <<phase, todo, out, chunks, pairs>> /\ added \subseteq added'
    BY <1>1 DEF sts_add, ReadRow, FindRoot, Climb, Found, sts_merge, sts_diff, EndOfVisit,
       vars, output, entries
  <2>2. pc' # "write" \/ UNCHANGED pc
    BY <1>1 DEF sts_add, ReadRow, FindRoot, Climb, Found, sts_merge, sts_diff, EndOfVisit,
       EndOfCall, vars, call
  <2>3. QED
    BY <2>1, <2>2 DEF RoomInv, OutputTypes, Room, PairsFit
<1>2. ASSUME NEW x \in added, Visit(x)
      PROVE  RoomInv'
  <2>1. UNCHANGED <<phase, added, out, chunks, pairs>> /\ todo' \subseteq todo /\ pc' = "last"
    BY <1>2 DEF Visit, entries
  <2>2. QED
    BY <2>1 DEF RoomInv, OutputTypes, Room, PairsFit
<1>3. ASSUME NextPhase
      PROVE  RoomInv'
  <2>1. /\ UNCHANGED <<added, out, pairs, pc>> /\ pc = "idle" /\ chunks' = 0
        /\ todo' \subseteq added /\ phase # "done" /\ phase' = After[phase]
    BY <1>3 DEF NextPhase, entries, call
  <2>2. OutputTypes'
    BY <2>1 DEF RoomInv, OutputTypes
  <2>3. phase \in Phases
    BY DEF IInv, EntryTypes
  <2>4. /\ phase' = "merge" => phase = "add"
        /\ phase' = "diff" => phase = "merge"
        /\ phase' = "similar" => phase = "diff"
        /\ phase' = "different" => phase = "similar"
        /\ phase' # "add"
    BY <2>1, <2>3 DEF Phases, After
  <2>5. PairsFit'
    <3>1. phase' \in {"similar", "different"} => pairs[phase'] = <<>>
      BY <2>4 DEF RoomInv, Room
    <3>2. Len(<<>>) <= 0 * MATCHES_CHUNK_SIZE
      BY SpecsAssumption
    <3>3. QED
      BY <2>1, <3>1, <3>2 DEF PairsFit
  <2>6. phase' \in {"add", "merge", "diff"} => phase \in {"add", "merge", "diff"}
    BY <2>4
  <2>7. phase' \notin {"different", "done"} => phase \notin {"different", "done"}
    BY <2>1, <2>3, <2>4 DEF Phases, After
  <2>8. Room'
    BY <2>1, <2>5, <2>6, <2>7 DEF RoomInv, Room
  <2>9. QED
    BY <2>2, <2>8 DEF RoomInv
<1>4. QED
  BY <1>1, <1>2, <1>3, RoomCollect, RoomWrite DEF Next

(* RoomInv holds in every reachable state. *)
LEMMA RoomAlways == Spec => []RoomInv
<1>1. IInv /\ RoomInv /\ [Next]_vars => RoomInv'
  BY RoomStep
<1>2. QED
  BY <1>1, RoomStart, Invariance, PTL DEF Spec

(* TypeOK always holds: no entry, no call and no pair names a spec that    *)
(* was not added, and no list or array has anything else.                  *)
THEOREM Types == Spec => []TypeOK
<1>1. IInv /\ RoomInv => TypeOK
  BY DEF IInv, RoomInv, TypeOK
<1>2. QED
  BY <1>1, Invariance, RoomAlways, PTL

(* PairsFit always holds, for every chunk size and however many pairs      *)
(* there are: the array is extended before a pair is written behind its    *)
(* end (spec_to_specs.c, init_similar_pairs and init_different_pairs).     *)
THEOREM PairsAlwaysFit == Spec => []PairsFit
<1>1. RoomInv => PairsFit
  BY DEF RoomInv, Room
<1>2. QED
  BY <1>1, RoomAlways, PTL

-----------------------------------------------------------------------------
(* The lists of different roots have roots in them, and none twice. *)
Notes == \A x \in Specs : IsInjective(different[x]) /\ ToSet(different[x]) \subseteq Roots

(* Putting an element second keeps a list without duplicates. *)
LEMMA InsertInjective ==
    ASSUME NEW q \in Seq(Specs), q # <<>>, NEW s \in Specs, ~Contains(q, s), IsInjective(q)
    PROVE  IsInjective(<<Head(q), s>> \o Tail(q))
<1> DEFINE u == <<Head(q), s>> \o Tail(q)
           at(i) == IF i = 1 THEN 1 ELSE i - 1
<1>1. /\ Len(u) = Len(q) + 1 /\ u[2] = s
      /\ \A i \in 1..(Len(q) + 1) : i # 2 => u[i] = q[at(i)]
  BY InsertedAt
<1>2. Len(q) \in Nat \ {0}
  OBVIOUS
<1>3. DOMAIN u = 1..(Len(q) + 1)
  <2>1. <<Head(q), s>> \in Seq(Specs) /\ Tail(q) \in Seq(Specs)
    OBVIOUS
  <2>2. u \in Seq(Specs)
    BY <2>1
  <2> HIDE DEF u
  <2>3. QED
    BY <1>1, <2>2
<1> HIDE DEF u
<1>4. \A i \in 1..Len(q) : q[i] # s
  BY DEF Contains
<1>5. \A i, j \in 1..Len(q) : q[i] = q[j] => i = j
  BY DEF IsInjective
<1>6. ASSUME NEW i \in 1..(Len(q) + 1), NEW j \in 1..(Len(q) + 1), u[i] = u[j]
      PROVE  i = j
  <2>1. CASE i = 2 /\ j = 2
    BY <2>1
  <2>2. CASE i # 2 /\ j # 2
    <3>1. at(i) \in 1..Len(q) /\ at(j) \in 1..Len(q)
      BY <1>2, <2>2
    <3>2. q[at(i)] = q[at(j)]
      BY <1>1, <1>6, <2>2
    <3>3. at(i) = at(j)
      BY <1>5, <3>1, <3>2
    <3>4. QED
      BY <2>2, <3>3
  <2>3. CASE i = 2 /\ j # 2
    <3>1. at(j) \in 1..Len(q)
      BY <1>2, <2>3
    <3>2. QED
      BY <1>1, <1>4, <1>6, <2>3, <3>1
  <2>4. CASE i # 2 /\ j = 2
    <3>1. at(i) \in 1..Len(q)
      BY <1>2, <2>4
    <3>2. QED
      BY <1>1, <1>4, <1>6, <2>4, <3>1
  <2>5. QED
    BY <2>1, <2>2, <2>3, <2>4
<1>7. QED
  BY <1>3, <1>6 DEF IsInjective, u

(* A note keeps every list without duplicates. *)
LEMMA NoteInjective ==
    ASSUME NEW f \in [Specs -> Seq(Specs)], NEW r \in Specs, NEW s \in Specs, NEW x \in Specs,
           IsInjective(f[x])
    PROVE  IsInjective(Note(f, r, s)[x])
<1>1. CASE x # r
  BY <1>1 DEF Note
<1>2. CASE x = r /\ f[r] = <<>>
  <2>1. Note(f, r, s)[x] = <<s>>
    BY <1>2 DEF Note
  <2>2. IsInjective(<<s>>)
    BY DEF IsInjective
  <2>3. QED
    BY <2>1, <2>2
<1>3. CASE x = r /\ f[r] # <<>> /\ Contains(f[r], s)
  <2>1. Note(f, r, s)[x] = f[x]
    BY <1>3 DEF Note
  <2>2. QED
    BY <2>1
<1>4. CASE x = r /\ f[r] # <<>> /\ ~Contains(f[r], s)
  <2>1. Note(f, r, s)[x] = <<Head(f[r]), s>> \o Tail(f[r])
    BY <1>4 DEF Note
  <2>2. QED
    BY <1>4, <2>1, InsertInjective
<1>5. QED
  BY <1>1, <1>2, <1>3, <1>4

(* Notes is kept by every step: no root disappears once there are notes. *)
LEMMA NotesStep ==
    ASSUME IInv, Knowledge, Notes, [Next]_vars
    PROVE  Notes'
<1>1. CASE sts_diff
  <2>1. /\ Roots' = Roots /\ root1 \in Roots /\ spec \in Roots /\ Roots \subseteq Specs
        /\ different' = Note(Note(different, root1, spec), spec, root1)
    BY <1>1 DEF sts_diff, IInv, CallOK, TwoSpecs, EntryTypes, Roots
  <2>2. different \in [Specs -> Seq(Specs)] /\ root1 \in Specs /\ spec \in Specs
    BY <2>1 DEF IInv, EntryTypes
  <2>3. PICK f \in [Specs -> Seq(Specs)] : f = Note(different, root1, spec)
    BY <2>2, NoteType
  <2>4. PICK g \in [Specs -> Seq(Specs)] : g = Note(f, spec, root1)
    BY <2>2, <2>3, NoteType
  <2>5. ASSUME NEW x \in Specs
        PROVE  IsInjective(g[x]) /\ ToSet(g[x]) \subseteq Roots
    <3>1. IsInjective(f[x])
      BY <2>2, <2>3, NoteInjective DEF Notes
    <3>2. IsInjective(g[x])
      BY <2>2, <2>4, <3>1, NoteInjective
    <3>3. ASSUME NEW t \in ToSet(g[x])
          PROVE  t \in Roots
      <4>1. g[x] \in Seq(Specs)
        OBVIOUS
      <4>2. PICK i \in 1..Len(g[x]) : g[x][i] = t
        BY <4>1, Elements
      <4>3. t \in Specs /\ Contains(g[x], t)
        BY <4>1, <4>2 DEF Contains
      <4>4. Contains(f[x], t) \/ t = root1
        <5>1. Contains(Note(f, spec, root1)[x], t) <=> Contains(f[x], t) \/ (x = spec /\ t = root1)
          <6>1. root1 \in Specs /\ spec \in Specs /\ x \in Specs /\ t \in Specs
            BY <2>2, <4>3
          <6>2. QED
            BY <6>1, NoteContains
        <5>2. QED
          BY <2>4, <4>3, <5>1
      <4>5. Contains(different[x], t) \/ t = root1 \/ t = spec
        BY <2>2, <2>3, <4>3, <4>4, NoteContains
      <4>6. CASE Contains(different[x], t)
        <5>1. t \in ToSet(different[x])
          BY <2>2, <4>6, Elements DEF Contains
        <5>2. QED
          BY <5>1 DEF Notes
      <4>7. QED
        BY <2>1, <4>5, <4>6
    <3>4. QED
      BY <3>2, <3>3
  <2>6. different' = g
    BY <2>1, <2>3, <2>4
  <2>7. QED
    BY <2>1, <2>5, <2>6 DEF Notes
<1>2. CASE (\E x \in Specs : sts_add(x)) \/ sts_merge
  <2>1. phase \in {"add", "merge"} /\ UNCHANGED different
    BY <1>2 DEF sts_add, sts_merge
  <2>2. \A x \in Specs : different'[x] = <<>>
    BY <2>1 DEF Knowledge
  <2>3. ToSet(<<>>) = {}
    BY ToSetShort
  <2>4. IsInjective(<<>>)
    BY DEF IsInjective
  <2>5. QED
    BY <2>2, <2>3, <2>4 DEF Notes
<1>3. CASE Quiet /\ ~sts_diff
  <2>1. UNCHANGED different
    BY <1>3 DEF Quiet, FindRoot, Climb, Found, ReadRow, Visit, Collect, WritePair,
       EndOfVisit, NextPhase, vars, entries
  <2>2. Roots' = Roots
    BY <1>3, QuietStep
  <2>3. QED
    BY <2>1, <2>2 DEF Notes
<1>4. QED
  BY <1>1, <1>2, <1>3, StepCases

-----------------------------------------------------------------------------
(* The sets of two specs of the cliques of some roots. *)
TwosOf(R) == UNION {kSubset(2, Clique(r)) : r \in R}

\* The roots whose pairs have been made, and the pairs made so far.
Visited == {r \in Roots : r \notin todo /\ (pc \in {"last", "act"} => r # left)}

Made(q, w) == IF pc = "write" THEN q \o w ELSE q

SimilarMade(q, R) == Once(q) /\ PairSets(q) = TwosOf(R)

Apart(p) == \A r \in Roots : ~(PairOf(p) \subseteq Clique(r))

(* In the phase of the similar pairs they are those of the roots visited,  *)
(* and afterwards those of all roots; a pair of different specs, made or   *)
(* to be written, is never within a clique.                                *)
PairsMade ==
    /\ pc = "write" => phase \in {"similar", "different"}
    /\ phase = "similar" /\ pc \in {"last", "act"} => left \notin todo
    /\ phase = "similar" => SimilarMade(Made(pairs["similar"], out), Visited)
    /\ phase \in {"different", "done"} => SimilarMade(pairs["similar"], Roots)
    /\ \A p \in ToSet(pairs["different"]) : Apart(p)
    /\ phase = "different" /\ pc = "write" => \A p \in ToSet(out) : Apart(p)

(* What the two are for. *)
LEMMA MadeOnce ==
    ASSUME IInv, RoomInv, PairsMade
    PROVE  SimilarPairsOnce
<1> DEFINE q == pairs["similar"]
<1>1. ASSUME phase \in {"different", "done"}
      PROVE  /\ Cardinality({PairOf(q[i]) : i \in 1..Len(q)}) = Len(q)
             /\ {PairOf(p) : p \in ToSet(q)} = UNION {kSubset(2, Clique(r)) : r \in Roots}
  <2>1. Once(q) /\ PairSets(q) = TwosOf(Roots)
    BY <1>1 DEF PairsMade, SimilarMade
  <2>2. Len(q) \in Nat
    BY DEF RoomInv, OutputTypes
  <2> HIDE DEF q
  <2> DEFINE T == {PairOf(q[i]) : i \in 1..Len(q)}
             f == [i \in 1..Len(q) |-> PairOf(q[i])]
  <2>3. f \in Surjection(1..Len(q), T) /\ f \in Injection(1..Len(q), T)
    <3>1. f \in [1..Len(q) -> T]
      OBVIOUS
    <3>2. \A t \in T : \E i \in 1..Len(q) : f[i] = t
      OBVIOUS
    <3>3. \A i, j \in 1..Len(q) : f[i] = f[j] => i = j
      BY <2>1 DEF Once
    <3> HIDE DEF f, T
    <3>4. QED
      BY <3>1, <3>2, <3>3 DEF Surjection, Injection, IsInjective
  <2>4. IsFiniteSet(1..Len(q)) /\ Cardinality(1..Len(q)) = Len(q)
    <3>1. PICK n \in Nat : n = Len(q)
      BY <2>2
    <3>2. 1 \in Int /\ n \in Int
      OBVIOUS
    <3>3. IsFiniteSet(1..n) /\ Cardinality(1..n) = IF 1 > n THEN 0 ELSE n - 1 + 1
      BY <3>2, FS_Interval
    <3>4. (IF 1 > n THEN 0 ELSE n - 1 + 1) = n
      OBVIOUS
    <3>5. QED
      BY <3>1, <3>3, <3>4
  <2> HIDE DEF f, T
  <2>5. Cardinality(T) = Len(q)
    BY <2>3, <2>4, FS_Surjection
  <2>6. QED
    BY <2>1, <2>5 DEF T, PairSets, TwosOf
<1>2. QED
  BY <1>1 DEF SimilarPairsOnce, PairsMade, Apart

-----------------------------------------------------------------------------
(* No pair is made at the start. *)
LEMMA PairsStart == sts_new => PairsMade /\ Notes
<1> SUFFICES ASSUME sts_new PROVE PairsMade /\ Notes
  OBVIOUS
<1>1. ToSet(<<>>) = {}
  BY ToSetShort
<1>2. IsInjective(<<>>)
  BY DEF IsInjective
<1>3. pairs["different"] = <<>> /\ phase = "add" /\ pc = "idle" /\ different = [x \in Specs |-> <<>>]
  BY DEF sts_new
<1>4. QED
  BY <1>1, <1>2, <1>3 DEF PairsMade, Notes

(* Before its phases nothing is made. *)
LEMMA PairsEarly ==
    ASSUME RoomInv, phase \in {"add", "merge", "diff"}, UNCHANGED <<phase, pairs>>, pc' # "write"
    PROVE  PairsMade'
<1>1. pairs'["different"] = <<>>
  BY DEF RoomInv, Room
<1>2. ToSet(<<>>) = {}
  BY ToSetShort
<1>3. QED
  BY <1>1, <1>2 DEF PairsMade

(* The steps that leave the roots, the cliques and the pairs alone. *)
LEMMA PairsKept ==
    ASSUME PairsMade, Roots' = Roots, UNCHANGED <<similar, phase, todo, out, pairs>>,
           pc' = "write" => pc = "write",
           phase = "similar" => /\ Made(pairs["similar"], out)' = Made(pairs["similar"], out)
                                /\ Visited' = Visited
                                /\ pc' \in {"last", "act"} => left' \notin todo
    PROVE  PairsMade'
<1>1. \A r : Clique(r)' = Clique(r)
  BY DEF Clique
<1>2. TwosOf(Roots)' = TwosOf(Roots)
  BY <1>1 DEF TwosOf
<1>3. \A p : Apart(p)' <=> Apart(p)
  BY <1>1 DEF Apart
<1>4. ASSUME phase = "similar"
      PROVE  SimilarMade(Made(pairs["similar"], out), Visited)'
  <2>1. TwosOf(Visited)' = TwosOf(Visited)
    BY <1>1, <1>4 DEF TwosOf
  <2>2. SimilarMade(Made(pairs["similar"], out), Visited)
    BY <1>4 DEF PairsMade
  <2>3. QED
    BY <1>4, <2>1, <2>2 DEF SimilarMade
<1>5. phase \in {"different", "done"} => SimilarMade(pairs["similar"], Roots)'
  BY <1>2 DEF PairsMade, SimilarMade
<1>6. QED
  BY <1>3, <1>4, <1>5 DEF PairsMade

(* findRoot, the end of a visit and a stuttering step leave them alone. *)
LEMMA PairsCalls ==
    ASSUME IInv, RoomInv, PairsMade, FindRoot \/ EndOfVisit \/ UNCHANGED vars
    PROVE  PairsMade'
<1>1. UNCHANGED <<phase, todo, out, pairs>>
  BY DEF FindRoot, Climb, Found, EndOfVisit, vars, output
<1>2. Roots' = Roots /\ UNCHANGED similar
  BY QuietStep DEF Quiet
<1>3. pc' = "write" => pc = "write"
  BY DEF FindRoot, Climb, Found, EndOfVisit, EndOfCall, vars, call
<1>4. CASE FindRoot \/ UNCHANGED vars
  <2>1. UNCHANGED left
    BY <1>4 DEF FindRoot, Climb, Found, vars, call
  <2>2. UNCHANGED pc \/ (pc \in {"first", "last"} /\ pc' \in {"last", "act"})
    BY <1>4 DEF FindRoot, Climb, Found, vars, call
  <2>3. phase = "similar" => pc # "first"
    BY DEF IInv, CallOK, TwoSpecs
  <2>4. CASE phase = "similar"
    <3>1. (pc \in {"last", "act"}) = (pc' \in {"last", "act"}) /\ (pc = "write") = (pc' = "write")
      BY <2>2, <2>3, <2>4
    <3>2. Visited' = Visited
      BY <1>1, <1>2, <2>1, <3>1 DEF Visited
    <3>3. Made(pairs["similar"], out)' = Made(pairs["similar"], out)
      BY <1>1, <3>1 DEF Made
    <3>4. pc' \in {"last", "act"} => left' \notin todo
      BY <2>1, <2>4, <3>1 DEF PairsMade
    <3>5. QED
      BY <1>1, <1>2, <1>3, <3>2, <3>3, <3>4, PairsKept
  <2>5. CASE phase # "similar"
    BY <1>1, <1>2, <1>3, <2>5, PairsKept
  <2>6. QED
    BY <2>4, <2>5
<1>5. CASE EndOfVisit
  <2>1. pc = "write" /\ pc' = "idle" /\ out = <<>>
    BY <1>5 DEF EndOfVisit, EndOfCall
  <2>2. pairs["similar"] \in Seq(Specs \X Specs)
    BY DEF RoomInv, OutputTypes
  <2>3. Made(pairs["similar"], out)' = Made(pairs["similar"], out)
    BY <1>1, <2>1, <2>2 DEF Made
  <2>4. Visited' = Visited
    BY <1>1, <1>2, <2>1 DEF Visited
  <2>5. QED
    BY <1>1, <1>2, <1>3, <2>1, <2>3, <2>4, PairsKept
<1>6. QED
  BY <1>4, <1>5

(* A visit takes its entry from those to do. *)
LEMMA PairsVisit ==
    ASSUME IInv, RoomInv, PairsMade, NEW x \in added, Visit(x)
    PROVE  PairsMade'
<1>1. /\ UNCHANGED <<phase, similar, out, pairs>> /\ pc = "idle" /\ pc' = "last"
      /\ left' = x /\ x \in todo /\ todo' = todo \ {x}
      /\ phase \in {"similar", "different"}
  BY DEF Visit, entries
<1>2. Roots' = Roots /\ \A r : Clique(r)' = Clique(r)
  BY <1>1, QuietStep DEF Quiet, Clique
<1>3. Visited' = Visited /\ Made(pairs["similar"], out)' = Made(pairs["similar"], out)
  BY <1>1, <1>2 DEF Visited, Made
<1>4. TwosOf(Roots)' = TwosOf(Roots) /\ TwosOf(Visited)' = TwosOf(Visited)
  BY <1>2, <1>3 DEF TwosOf
<1>5. \A p : Apart(p)' <=> Apart(p)
  BY <1>2 DEF Apart
<1>6. phase = "similar" => SimilarMade(Made(pairs["similar"], out), Visited)'
  BY <1>3, <1>4 DEF PairsMade, SimilarMade
<1>7. phase \in {"different", "done"} => SimilarMade(pairs["similar"], Roots)'
  BY <1>1, <1>4 DEF PairsMade, SimilarMade
<1>8. QED
  BY <1>1, <1>5, <1>6, <1>7 DEF PairsMade

(* A pair written is no longer to be written. *)
LEMMA PairsWrite ==
    ASSUME IInv, RoomInv, PairsMade, WritePair
    PROVE  PairsMade'
<1>1. /\ UNCHANGED <<phase, similar, todo, pc, left>> /\ pc = "write" /\ out # <<>>
      /\ pairs' = [pairs EXCEPT ![phase] = Append(pairs[phase], Head(out))]
      /\ out' = Tail(out)
  BY DEF WritePair, entries, call
<1>2. /\ phase \in {"similar", "different"}
      /\ pairs \in [{"similar", "different"} -> Seq(Specs \X Specs)]
      /\ pairs[phase] \in Seq(Specs \X Specs) /\ out \in Seq(Specs \X Specs)
  BY <1>1 DEF RoomInv, OutputTypes, Room
<1>3. /\ Append(pairs[phase], Head(out)) \o Tail(out) = pairs[phase] \o out
      /\ ToSet(Append(pairs[phase], Head(out))) = ToSet(pairs[phase]) \cup {Head(out)}
      /\ ToSet(out) = {Head(out)} \cup ToSet(Tail(out))
  <2>1. PICK p \in Seq(Specs \X Specs) : p = pairs[phase]
    BY <1>2
  <2>2. PICK q \in Seq(Specs \X Specs) : q = out
    BY <1>2
  <2>3. /\ Append(p, Head(q)) \o Tail(q) = p \o q
        /\ ToSet(Append(p, Head(q))) = ToSet(p) \cup {Head(q)}
        /\ ToSet(q) = {Head(q)} \cup ToSet(Tail(q))
    BY <1>1, <2>2, MoveOne
  <2>4. QED
    BY <2>1, <2>2, <2>3
<1>4. /\ pairs'[phase] = Append(pairs[phase], Head(out))
      /\ \A f \in {"similar", "different"} : f # phase => pairs'[f] = pairs[f]
  BY <1>1, <1>2
<1>5. Roots' = Roots /\ \A r : Clique(r)' = Clique(r)
  BY <1>1, QuietStep DEF Quiet, Clique
<1>6. Visited' = Visited
  BY <1>1, <1>5 DEF Visited
<1>7. TwosOf(Roots)' = TwosOf(Roots) /\ TwosOf(Visited)' = TwosOf(Visited)
  BY <1>5, <1>6 DEF TwosOf
<1>8. \A p : Apart(p)' <=> Apart(p)
  BY <1>5 DEF Apart
<1>9. CASE phase = "similar"
  <2>1. Made(pairs["similar"], out)' = Made(pairs["similar"], out)
    BY <1>1, <1>3, <1>4, <1>9 DEF Made
  <2>2. SimilarMade(Made(pairs["similar"], out), Visited)'
    BY <1>7, <1>9, <2>1 DEF PairsMade, SimilarMade
  <2>3. pairs'["different"] = pairs["different"]
    BY <1>4, <1>9
  <2>4. QED
    BY <1>1, <1>8, <1>9, <2>2, <2>3 DEF PairsMade
<1>10. CASE phase = "different"
  <2>1. pairs'["similar"] = pairs["similar"]
    BY <1>4, <1>10
  <2>2. SimilarMade(pairs["similar"], Roots)'
    BY <1>7, <1>10, <2>1 DEF PairsMade, SimilarMade
  <2>3. \A p \in ToSet(out) : Apart(p)
    BY <1>1, <1>10 DEF PairsMade
  <2>4. \A p \in ToSet(out') : Apart(p)
    BY <1>1, <1>3, <2>3
  <2>5. \A p \in ToSet(pairs'["different"]) : Apart(p)
    <3>1. ToSet(pairs'["different"]) = ToSet(pairs["different"]) \cup {Head(out)}
      BY <1>3, <1>4, <1>10
    <3>2. Apart(Head(out))
      BY <1>3, <2>3
    <3>3. QED
      BY <3>1, <3>2 DEF PairsMade
  <2>6. QED
    BY <1>1, <1>8, <1>10, <2>2, <2>4, <2>5 DEF PairsMade
<1>11. QED
  BY <1>2, <1>9, <1>10

(* Sets of two of different cliques are different. *)
LEMMA TwosApart ==
    ASSUME IInv, NEW R \in SUBSET Roots, NEW r \in Roots, r \notin R
    PROVE  TwosOf(R) \cap kSubset(2, Clique(r)) = {}
<1> SUFFICES ASSUME NEW m \in TwosOf(R), m \in kSubset(2, Clique(r)) PROVE FALSE
  OBVIOUS
<1>1. PICK t \in R : m \in kSubset(2, Clique(t))
  BY DEF TwosOf
<1>2. Clique(t) \cap Clique(r) = {} /\ Clique(r) \subseteq added
  BY <1>1 DEF IInv, Forest
<1>3. IsFiniteSet(Clique(r))
  <2>1. Clique(r) \subseteq Specs
    BY <1>2 DEF IInv, EntryTypes
  <2>2. QED
    BY <2>1, SpecsAssumption, FS_Subset
<1>4. PICK x \in Clique(r), y \in Clique(r) : x # y /\ m = {x, y}
  BY <1>3, TwoOf
<1>5. m \subseteq Clique(t)
  BY <1>1 DEF kSubset
<1>6. QED
  BY <1>2, <1>4, <1>5

(* The visit of a root makes the similar pairs of its clique. *)
LEMMA CollectSimilar ==
    ASSUME IInv, RoomInv, Lists, PairsMade, Collect, phase = "similar"
    PROVE  SimilarMade(Made(pairs["similar"], out), Visited)'
<1> DEFINE q == pairs["similar"]
           w == PairsAfter(similar[left])
<1>1. /\ pc = "act" /\ pc' = "write" /\ UNCHANGED <<todo, left, similar, pairs>>
      /\ out' = IF spec = left THEN w ELSE <<>>
  BY DEF Collect
<1>2. Roots' = Roots /\ \A r : Clique(r)' = Clique(r)
  BY <1>1, QuietStep DEF Quiet, Clique
<1>3. /\ left \in added /\ spec \in Roots /\ SameClique(left, spec)
      /\ left \notin todo /\ q \in Seq(Specs \X Specs)
  BY <1>1 DEF IInv, CallOK, TwoSpecs, PairsMade, RoomInv, OutputTypes
<1>4. Visited = {r \in Roots : r \notin todo /\ r # left}
      /\ Visited' = {r \in Roots : r \notin todo}
  BY <1>1, <1>2 DEF Visited
<1>5. Once(q) /\ PairSets(q) = TwosOf(Visited)
  BY <1>1 DEF PairsMade, SimilarMade, Made
<1>6. CASE spec = left
  <2>1. left \in Roots /\ Visited' = Visited \cup {left} /\ left \notin Visited
    BY <1>3, <1>4, <1>6
  <2>2. similar[left] \in Seq(Specs) /\ IsInjective(similar[left])
    BY <2>1 DEF IInv, EntryTypes, Lists, Roots
  <2>3. /\ w \in Seq(Specs \X Specs) /\ Once(w)
        /\ PairSets(w) = kSubset(2, Clique(left))
    <3>1. PICK s \in Seq(Specs) : s = similar[left]
      BY <2>2
    <3>2. /\ PairsAfter(s) \in Seq(Specs \X Specs)
          /\ Once(PairsAfter(s))
          /\ PairSets(PairsAfter(s)) = kSubset(2, ToSet(s))
      BY <2>2, <3>1, PairsAfterOnce
    <3>3. QED
      BY <3>1, <3>2 DEF Clique
  <2> HIDE DEF q, w
  <2>4. PairSets(q) \cap PairSets(w) = {}
    <3>1. Visited \in SUBSET Roots
      BY DEF Visited
    <3>2. QED
      BY <1>5, <2>1, <2>3, <3>1, TwosApart
  <2>5. Once(q \o w)
    BY <1>3, <1>5, <2>3, <2>4, OnceConcat
  <2>6. PairSets(q \o w) = PairSets(q) \cup PairSets(w)
    <3>1. ToSet(q \o w) = ToSet(q) \cup ToSet(w)
      BY <1>3, <2>3, ToSetConcat
    <3>2. QED
      BY <3>1 DEF PairSets
  <2>7. TwosOf(Visited)' = TwosOf(Visited) \cup kSubset(2, Clique(left))
    BY <1>2, <2>1 DEF TwosOf
  <2>8. PairSets(q \o w) = TwosOf(Visited)'
    BY <1>5, <2>3, <2>6, <2>7
  <2>9. Made(pairs["similar"], out)' = q \o w
    BY <1>1, <1>6 DEF Made, q
  <2>10. QED
    BY <2>5, <2>8, <2>9 DEF SimilarMade
<1>7. CASE spec # left
  <2>1. left \notin Roots
    BY <1>3, <1>7 DEF IInv, Forest, SameClique
  <2>2. Visited' = Visited
    BY <1>4, <2>1
  <2>3. TwosOf(Visited)' = TwosOf(Visited)
    BY <1>2, <2>2 DEF TwosOf
  <2>4. Made(pairs["similar"], out)' = q
    BY <1>1, <1>3, <1>7 DEF Made
  <2>5. QED
    BY <1>5, <2>3, <2>4 DEF SimilarMade
<1>8. QED
  BY <1>6, <1>7

(* The visit of a root makes different pairs that no clique has: one is of *)
(* another root than the clique the other is in.                           *)
LEMMA CollectDifferent ==
    ASSUME IInv, Notes, Collect, phase = "different"
    PROVE  \A p \in ToSet(out') : Apart(p)
<1> SUFFICES ASSUME NEW p \in ToSet(out'), NEW c \in Roots, PairOf(p) \subseteq Clique(c)
             PROVE  FALSE
  BY DEF Apart
<1>1. out' = PairsOfDifferent(different[left]) /\ left \in Specs
  <2>1. out' = <<>> \/ out' = PairsOfDifferent(different[left])
    BY DEF Collect
  <2>2. ToSet(<<>>) = {}
    BY ToSetShort
  <2>3. left \in Specs
    BY DEF Collect, IInv, CallOK, EntryTypes
  <2>4. QED
    BY <2>1, <2>2, <2>3
<1>2. PICK d \in Seq(Specs) : d = different[left]
  BY <1>1 DEF IInv, EntryTypes
<1>3. IsInjective(d) /\ ToSet(d) \subseteq Roots
  BY <1>1, <1>2 DEF Notes
<1>4. similar \in [Specs -> Seq(Specs)]
  BY DEF IInv, EntryTypes
<1>5. \A e \in ToSet(PairsOfDifferent(d)) :
         \E r, t \in ToSet(d) : r # t /\ e[1] = t /\ e[2] \in Clique(r)
  BY <1>3, <1>4, DifferentElements
<1>6. PICK r, t \in Roots : r # t /\ p[1] = t /\ p[2] \in Clique(r)
  <2>1. p \in ToSet(PairsOfDifferent(d))
    BY <1>1, <1>2
  <2>2. QED
    BY <1>3, <1>5, <2>1
<1>7. t \in Clique(c) /\ p[2] \in Clique(c)
  BY <1>6 DEF PairOf
<1>8. c = t /\ c = r
  BY <1>6, <1>7 DEF IInv, Forest
<1>9. QED
  BY <1>6, <1>8

(* Collect makes the pairs of the entry visited. *)
LEMMA PairsCollect ==
    ASSUME IInv, RoomInv, Lists, Notes, PairsMade, Collect
    PROVE  PairsMade'
<1>1. /\ UNCHANGED <<phase, similar, todo, pairs>> /\ pc' = "write"
      /\ phase \in {"similar", "different"}
  BY DEF Collect
<1>2. Roots' = Roots /\ \A r : Clique(r)' = Clique(r)
  BY <1>1, QuietStep DEF Quiet, Clique
<1>3. \A p : Apart(p)' <=> Apart(p)
  BY <1>2 DEF Apart
<1>4. phase = "different" => SimilarMade(pairs["similar"], Roots)'
  BY <1>1, <1>2 DEF PairsMade, SimilarMade, TwosOf
<1>5. QED
  BY <1>1, <1>3, <1>4, CollectSimilar, CollectDifferent DEF PairsMade

(* A phase ends when every entry has been visited. *)
LEMMA PairsNext ==
    ASSUME IInv, RoomInv, PairsMade, NextPhase
    PROVE  PairsMade'
<1>1. /\ UNCHANGED <<added, similar, pairs, pc>> /\ pc = "idle" /\ todo = {}
      /\ phase' = After[phase] /\ phase \in Phases \ {"done"}
      /\ todo' = IF After[phase] \in {"similar", "different"} THEN added ELSE {}
  BY DEF NextPhase, entries, call, IInv, EntryTypes
<1>2. Roots' = Roots /\ \A r : Clique(r)' = Clique(r)
  BY <1>1, QuietStep DEF Quiet, Clique
<1>3. \A p : Apart(p)' <=> Apart(p)
  BY <1>2 DEF Apart
<1>4. \A R : TwosOf(R)' = TwosOf(R)
  BY <1>2 DEF TwosOf
<1>5. /\ phase' = "similar" => phase = "diff"
      /\ phase' \in {"different", "done"} => phase \in {"similar", "different"}
  BY <1>1 DEF Phases, After
<1>6. ASSUME phase' = "similar"
      PROVE  SimilarMade(Made(pairs["similar"], out), Visited)'
  <2>1. Made(pairs["similar"], out)' = <<>>
    BY <1>1, <1>5, <1>6 DEF Made, RoomInv, Room
  <2>2. Visited' = {}
    BY <1>1, <1>2, <1>6 DEF Visited, Roots
  <2>3. TwosOf(Visited)' = {}
    BY <2>2 DEF TwosOf
  <2>4. ToSet(<<>>) = {}
    BY ToSetShort
  <2>5. Once(<<>>) /\ PairSets(<<>>) = {}
    BY <2>4 DEF Once, PairSets
  <2>6. QED
    BY <2>1, <2>3, <2>5 DEF SimilarMade
<1>7. ASSUME phase' \in {"different", "done"}
      PROVE  SimilarMade(pairs["similar"], Roots)'
  <2>1. SimilarMade(pairs["similar"], Roots)
    <3>1. CASE phase = "similar"
      <4>1. Visited = Roots /\ Made(pairs["similar"], out) = pairs["similar"]
        BY <1>1 DEF Visited, Made
      <4>2. QED
        BY <3>1, <4>1 DEF PairsMade
    <3>2. CASE phase = "different"
      BY <3>2 DEF PairsMade
    <3>3. QED
      BY <1>5, <1>7, <3>1, <3>2
  <2>2. TwosOf(Roots)' = TwosOf(Roots)
    BY <1>2, <1>4 DEF TwosOf
  <2>3. QED
    BY <1>1, <2>1, <2>2 DEF SimilarMade
<1>8. QED
  BY <1>1, <1>3, <1>6, <1>7 DEF PairsMade

(* PairsMade is kept by every step. *)
LEMMA PairsStep ==
    ASSUME IInv, RoomInv, Lists, Notes, PairsMade, [Next]_vars
    PROVE  PairsMade'
<1>1. ASSUME \/ \E x \in Specs : sts_add(x)
             \/ \E x, y \in added : ReadRow(x, y)
             \/ sts_merge \/ sts_diff
      PROVE  PairsMade'
  <2>1. phase \in {"add", "merge", "diff"} /\ UNCHANGED <<phase, pairs>>
    BY <1>1 DEF sts_add, ReadRow, sts_merge, sts_diff, output
  <2>2. pc' # "write"
    BY <1>1 DEF sts_add, ReadRow, sts_merge, sts_diff, EndOfCall, call, IInv, CallOK
  <2>3. QED
    BY <2>1, <2>2, PairsEarly
<1>2. QED
  BY <1>1, PairsCalls, PairsVisit, PairsCollect, PairsWrite, PairsNext DEF Next

(* SimilarPairsOnce always holds, for any specs and any file: the training *)
(* set has every two specs of a clique once and nothing else labelled      *)
(* similar, and no pair labelled different that is in one clique           *)
(* (init_similar_pairs and init_different_pairs, spec_to_specs.c).         *)
THEOREM SimilarPairsAreOnce == Spec => []SimilarPairsOnce
<1> DEFINE Inv == Lists /\ Knowledge /\ Notes /\ PairsMade
<1>1. sts_new => Inv
  BY KnowledgeStart, PairsStart DEF sts_new, Lists, Roots
<1>2. IInv /\ RoomInv /\ Inv /\ [Next]_vars => Inv'
  BY ListsStep, KnowledgeStep, NotesStep, PairsStep
<1>3. IInv /\ RoomInv /\ Inv => SimilarPairsOnce
  BY MadeOnce
<1> HIDE DEF Inv
<1>4. QED
  BY <1>1, <1>2, <1>3, Invariance, RoomAlways, PTL DEF Spec
=============================================================================
