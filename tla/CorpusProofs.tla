----------------------------- MODULE CorpusProofs -----------------------------
(***************************************************************************)
(* The parser, the vocabulary, and the programs that use both, for any     *)
(* texts, specs, words and files.                                          *)
(*                                                                         *)
(* NothingLeaks counts what is reached from the open calls, from what the  *)
(* callers hold and from ret.  Entities are trees of any depth, which no   *)
(* step goes through: a value that is returned goes as a whole into the    *)
(* entity around it.  So the invariant LeakInv is about totals.  U is a    *)
(* set with all the entities there are; Levels goes down through them,     *)
(* level by level, and ends; Total(T, s) counts those of a set T on all    *)
(* the levels below s, and two sequences have the sum of their totals.     *)
(* Owned says with three such sets T that each entity that is not freed    *)
(* and each node of a list is counted once, and that each list ends.  A    *)
(* step of the parser has to be shown to add up for one entity only, the   *)
(* one that it opens, changes, closes, returns or frees.                   *)
(*                                                                         *)
(* VectorsCountWords is about characters and sums at once.  TextInv says   *)
(* what the open calls have kept of the text: keys and strings.  Walk      *)
(* says which words the tokenizer meets in a string, and CorpusInv that    *)
(* each file in json_dict has the words of its object.                     *)
(***************************************************************************)
EXTENDS Corpus, FiniteSetTheorems, SequenceTheorems, WellFoundedInduction, TLAPS

-----------------------------------------------------------------------------
(* Natural numbers, iteration and sequences *)

(* A set of natural numbers has a least element.                           *)
LEMMA Least ==
    ASSUME NEW T, T \subseteq Nat, T # {}
    PROVE  \E n \in T : \A k \in T : n <= k
<1>1. PICK n \in T : \A k \in T : ~(<<k, n>> \in OpToRel(<, Nat))
  BY WFMin, NatLessThanWellFounded
<1>2. ASSUME NEW k \in T, k < n
      PROVE  FALSE
  <2>1. <<k, n>> \in OpToRel(<, Nat)
    BY <1>2 DEF OpToRel
  <2>2. QED
    BY <1>1, <2>1
<1>3. \A k \in T : n <= k
  BY <1>2
<1>4. QED
  BY <1>3

(* Min is that element.                                                    *)
LEMMA MinIs ==
    ASSUME NEW T, T \subseteq Nat, T # {}
    PROVE  Min(T) \in T /\ \A k \in T : Min(T) <= k
<1>1. \E n \in T : \A k \in T : n <= k
  BY Least
<1>2. QED
  BY <1>1 DEF Min

-----------------------------------------------------------------------------
(* h holds the first values of the iteration of g from x. *)
Steps(h, g, x, n) ==
    /\ h[0] = x
    /\ \A k \in Nat : k < n => h[k + 1] = g[h[k]]

(* Any number of turns of the iteration can be made.                       *)
LEMMA StepsExist ==
    ASSUME NEW S, NEW g \in [S -> S], NEW x \in S, NEW n \in Nat
    PROVE  \E h \in [Nat -> S] : Steps(h, g, x, n)
<1> DEFINE Bad == {k \in Nat : ~\E h \in [Nat -> S] : Steps(h, g, x, k)}
<1> SUFFICES ASSUME Bad # {} PROVE FALSE
  OBVIOUS
<1>1. PICK k \in Bad : \A j \in Bad : k <= j
  BY Least
<1>2. CASE k = 0
  <2>1. [j \in Nat |-> x] \in [Nat -> S] /\ Steps([j \in Nat |-> x], g, x, 0)
    BY DEF Steps
  <2> QED
    BY <1>1, <1>2, <2>1
<1>3. CASE k # 0
  <2>1. PICK j \in Nat : k = j + 1 /\ j \notin Bad
    BY <1>1, <1>3
  <2>2. PICK h \in [Nat -> S] : Steps(h, g, x, j)
    BY <2>1
  <2> DEFINE f == [r \in Nat |-> IF r = k THEN g[h[j]] ELSE h[r]]
  <2>3. f \in [Nat -> S]
    BY <2>2
  <2>4. ASSUME NEW r \in Nat, r < k
        PROVE  f[r + 1] = g[f[r]]
    <3>1. CASE r = j
      BY <2>1, <2>4, <3>1
    <3>2. CASE r < j
      <4>1. f[r + 1] = h[r + 1] /\ f[r] = h[r]
        BY <2>1, <3>2
      <4>2. h[r + 1] = g[h[r]]
        BY <2>2, <3>2 DEF Steps
      <4> QED
        BY <4>1, <4>2
    <3> QED
      BY <2>1, <2>4, <3>1, <3>2
  <2>5. f[0] = x
    BY <2>2, <2>1 DEF Steps
  <2>6. Steps(f, g, x, k)
    BY <2>4, <2>5 DEF Steps
  <2> QED
    BY <1>1, <2>3, <2>6
<1> QED
  BY <1>2, <1>3

(* Two iterations of one function from one value agree.                    *)
LEMMA StepsAgree ==
    ASSUME NEW g, NEW x, NEW f, NEW h, NEW m1 \in Nat, NEW n \in Nat,
           Steps(f, g, x, m1), Steps(h, g, x, n)
    PROVE  \A k \in Nat : k <= m1 /\ k <= n => f[k] = h[k]
<1> DEFINE Bad == {k \in Nat : k <= m1 /\ k <= n /\ f[k] # h[k]}
<1> SUFFICES ASSUME Bad # {} PROVE FALSE
  OBVIOUS
<1>1. PICK k \in Bad : \A j \in Bad : k <= j
  BY Least
<1>2. k # 0
  BY <1>1 DEF Steps
<1>3. PICK j \in Nat : k = j + 1 /\ j \notin Bad
  BY <1>1, <1>2
<1>4. f[j] = h[j]
  BY <1>1, <1>3
<1>5. f[k] = g[f[j]] /\ h[k] = g[h[j]]
  BY <1>1, <1>3 DEF Steps
<1> QED
  BY <1>1, <1>4, <1>5

\* f is the iteration of g from x.
Iterate(f, g, x) == f[0] = x /\ \A n \in Nat : f[n + 1] = g[f[n]]

(* A function can be iterated.                                             *)
LEMMA Iterates ==
    ASSUME NEW S, NEW g \in [S -> S], NEW x \in S
    PROVE  \E f \in [Nat -> S] : Iterate(f, g, x)
<1> DEFINE H(n) == CHOOSE h : h \in [Nat -> S] /\ Steps(h, g, x, n)
           f    == [n \in Nat |-> H(n)[n]]
<1>1. \A n \in Nat : H(n) \in [Nat -> S] /\ Steps(H(n), g, x, n)
  BY StepsExist
<1> HIDE DEF H
<1>2. f \in [Nat -> S]
  BY <1>1
<1>3. f[0] = x
  BY <1>1 DEF Steps
<1>4. ASSUME NEW n \in Nat
      PROVE  f[n + 1] = g[f[n]]
  <2>1. n + 1 \in Nat /\ n < n + 1 /\ n <= n + 1 /\ n <= n
    OBVIOUS
  <2>2. Steps(H(n), g, x, n) /\ Steps(H(n + 1), g, x, n + 1)
    BY <1>1, <2>1
  <2>3. H(n + 1)[n + 1] = g[H(n + 1)[n]]
    BY <2>1, <2>2 DEF Steps
  <2>4. H(n)[n] = H(n + 1)[n]
    BY <2>1, <2>2, StepsAgree
  <2> QED
    BY <2>1, <2>3, <2>4
<1>5. Iterate(f, g, x)
  BY <1>3, <1>4 DEF Iterate
<1> QED
  BY <1>2, <1>5

(* Concatenation is associative.                                           *)
LEMMA Concat3 ==
    ASSUME NEW S, NEW a \in Seq(S), NEW b \in Seq(S), NEW u \in Seq(S)
    PROVE  (a \o b) \o u = a \o (b \o u)
BY ConcatAssociative

\* \o, for a prover that takes it apart.
Then(a, b) == a \o b

(* Concatenation is associative, as Then.                                  *)
LEMMA ThenAgain ==
    ASSUME NEW S, NEW a \in Seq(S), NEW b \in Seq(S), NEW u \in Seq(S)
    PROVE  Then(Then(a, b), u) = Then(a, Then(b, u))
BY Concat3 DEF Then

-----------------------------------------------------------------------------
(* FlattenSeq *)

JoinedTo(f, seqs, n) ==
    f = [r \in 1..n |-> IF r = 1 THEN seqs[r] ELSE f[r - 1] \o seqs[r]]

\* h is the iteration that concatenates seqs, with its place.
Joining(h, seqs, n) ==
    /\ h[0] = <<>>
    /\ \A k \in Nat : k < n => h[k + 1] = h[k] \o seqs[k + 1]

(* A sequence of sequences can be joined from its beginning.               *)
LEMMA JoiningExists ==
    ASSUME NEW S, NEW seqs \in Seq(Seq(S))
    PROVE  \E h \in [Nat -> Seq(S)] : Joining(h, seqs, Len(seqs))
<1> DEFINE P == Nat \X Seq(S)
           g == [p \in P |-> <<p[1] + 1,
                               IF p[1] < Len(seqs) THEN p[2] \o seqs[p[1] + 1] ELSE p[2]>>]
<1>1. ASSUME NEW p \in P
      PROVE  g[p] \in P
  <2>1. p[1] \in Nat /\ p[2] \in Seq(S)
    OBVIOUS
  <2>2. CASE p[1] < Len(seqs)
    <3>1. seqs[p[1] + 1] \in Seq(S)
      BY <2>1, <2>2
    <3>2. p[2] \o seqs[p[1] + 1] \in Seq(S)
      BY <2>1, <3>1
    <3>3. g[p] = <<p[1] + 1, p[2] \o seqs[p[1] + 1]>>
      BY <2>2
    <3>4. p[1] + 1 \in Nat
      BY <2>1
    <3> QED
      BY <3>2, <3>3, <3>4
  <2>3. CASE ~(p[1] < Len(seqs))
    <3>1. g[p] = <<p[1] + 1, p[2]>>
      BY <2>3
    <3> QED
      BY <2>1, <3>1
  <2> QED
    BY <2>2, <2>3
<1>2. g \in [P -> P]
  BY <1>1
<1>3. <<0, << >> >> \in P
  <2>1. 0 \in Nat /\ << >> \in Seq(S)
    OBVIOUS
  <2> QED
    BY <2>1
<1>4. \A p \in P : p[1] < Len(seqs) => g[p] = <<p[1] + 1, p[2] \o seqs[p[1] + 1]>>
  OBVIOUS
<1>5. \A p \in P : g[p][1] = p[1] + 1
  OBVIOUS
<1>6. \A p \in P : p[1] \in Nat /\ p[2] \in Seq(S)
  OBVIOUS
<1> DEFINE x == <<0, << >> >>
<1>65. x \in P /\ x[1] = 0 /\ x[2] = << >>
  BY <1>3
<1> HIDE DEF g, P, x
<1>7. PICK f \in [Nat -> P] : f[0] = x /\ \A n \in Nat : f[n + 1] = g[f[n]]
  <2>1. PICK f \in [Nat -> P] : Iterate(f, g, x)
    BY <1>2, <1>65, Iterates
  <2> QED
    BY <2>1 DEF Iterate
<1>8. \A n \in Nat : f[n][1] = n
  <2> DEFINE Bad == {n \in Nat : f[n][1] # n}
  <2> SUFFICES ASSUME Bad # {} PROVE FALSE
    OBVIOUS
  <2>1. PICK k \in Bad : \A j \in Bad : k <= j
    BY Least
  <2>2. k # 0
    BY <1>65, <1>7, <2>1
  <2>3. PICK j \in Nat : k = j + 1 /\ j \notin Bad
    BY <2>1, <2>2
  <2>4. f[k] = g[f[j]] /\ f[j] \in P /\ f[j][1] = j
    BY <1>7, <2>3
  <2> QED
    BY <1>5, <2>1, <2>3, <2>4
<1> DEFINE h == [n \in Nat |-> f[n][2]]
<1>9. h \in [Nat -> Seq(S)]
  BY <1>6, <1>7
<1>10. Joining(h, seqs, Len(seqs))
  <2>1. h[0] = <<>>
    BY <1>65, <1>7
  <2>2. ASSUME NEW n \in Nat, n < Len(seqs)
        PROVE  h[n + 1] = h[n] \o seqs[n + 1]
    <3>1. f[n + 1] = <<n + 1, f[n][2] \o seqs[n + 1]>>
      BY <1>4, <1>7, <1>8, <2>2
    <3>2. \A a, b : <<a, b>>[2] = b
      OBVIOUS
    <3>3. f[n + 1][2] = f[n][2] \o seqs[n + 1]
      BY <3>1, <3>2
    <3>4. n + 1 \in Nat /\ h[n + 1] = f[n + 1][2] /\ h[n] = f[n][2]
      OBVIOUS
    <3> QED
      BY <3>3, <3>4
  <2> QED
    BY <2>1, <2>2 DEF Joining
<1> QED
  BY <1>9, <1>10

(* Whatever joins the sequences has what FlattenSeq returns at their end.  *)
LEMMA FlattenIs ==
    ASSUME NEW S, NEW seqs \in Seq(Seq(S)), NEW h \in [Nat -> Seq(S)],
           Joining(h, seqs, Len(seqs))
    PROVE  FlattenSeq(seqs) = h[Len(seqs)]
<1> DEFINE n == Len(seqs)
<1>0. n \in Nat
  OBVIOUS
<1>1. CASE n = 0
  <2>1. seqs = <<>>
    BY <1>1
  <2> QED
    BY <1>1, <2>1 DEF FlattenSeq, Joining
<1>2. CASE n # 0
  <2> DEFINE k == [r \in 1..n |-> h[r]]
  <2>1. ASSUME NEW r \in 1..n
        PROVE  k[r] = IF r = 1 THEN seqs[r] ELSE k[r - 1] \o seqs[r]
    <3>1. PICK j \in Nat : r = j + 1 /\ j < n
      BY <1>0
    <3>2. h[r] = h[j] \o seqs[r]
      BY <3>1 DEF Joining
    <3>3. CASE r = 1
      <4>1. seqs[r] \in Seq(S) /\ h[j] = <<>>
        BY <3>1, <3>3 DEF Joining
      <4>2. <<>> \o seqs[r] = seqs[r]
        BY <4>1
      <4> QED
        BY <3>2, <3>3, <4>1, <4>2
    <3>4. CASE r # 1
      <4>1. j \in 1..n /\ r - 1 = j
        BY <1>0, <3>1, <3>4
      <4> QED
        BY <3>2, <3>4, <4>1
    <3> QED
      BY <3>3, <3>4
  <2>2. JoinedTo(k, seqs, n)
    <3>1. k = [r \in 1..n |-> k[r]]
      OBVIOUS
    <3> HIDE DEF k
    <3> QED
      BY <2>1, <3>1 DEF JoinedTo
  <2>3. k[n] = h[n]
    BY <1>0, <1>2
  <2> HIDE DEF k
  <2> DEFINE f == CHOOSE f : JoinedTo(f, seqs, n)
  <2>4. JoinedTo(f, seqs, n)
    BY <2>2
  <2>5. FlattenSeq(seqs) = f[n]
    BY <1>2 DEF FlattenSeq, JoinedTo
  <2> HIDE DEF f
  <2>6. \A r \in 1..n : f[r] = k[r]
    <3> DEFINE Bad == {r \in 1..n : f[r] # k[r]}
    <3> SUFFICES ASSUME Bad # {} PROVE FALSE
      OBVIOUS
    <3>0. Bad \subseteq Nat
      BY <1>0
    <3>1. PICK r \in Bad : \A j \in Bad : r <= j
      BY <3>0, Least
    <3>2. /\ f[r] = IF r = 1 THEN seqs[r] ELSE f[r - 1] \o seqs[r]
          /\ k[r] = IF r = 1 THEN seqs[r] ELSE k[r - 1] \o seqs[r]
      <4>1. r \in 1..n
        OBVIOUS
      <4> HIDE DEF Bad
      <4> QED
        BY <2>2, <2>4, <4>1 DEF JoinedTo
    <3>3. r # 1 => r - 1 \in 1..n /\ r - 1 \notin Bad
      <4>1. r \in 1..n /\ (r # 1 => r - 1 \in 1..n /\ r - 1 < r)
        BY <1>0
      <4>2. ASSUME NEW j \in Bad PROVE ~(j < r)
        <5>1. j \in Nat /\ r \in Nat /\ r <= j
          BY <3>0, <3>1
        <5> HIDE DEF Bad
        <5> QED
          BY <5>1
      <4> QED
        BY <4>1, <4>2
    <3> QED
      BY <3>1, <3>2, <3>3
  <2> QED
    <3>1. n \in 1..n
      BY <1>0, <1>2
    <3> QED
      BY <2>3, <2>5, <2>6, <3>1
<1> QED
  BY <1>1, <1>2

(* FlattenSeq on a sequence of sequences that grows.                       *)
LEMMA FlattenAppend ==
    ASSUME NEW S, NEW seqs \in Seq(Seq(S)), NEW s \in Seq(S)
    PROVE  /\ FlattenSeq(seqs) \in Seq(S)
           /\ FlattenSeq(Append(seqs, s)) = FlattenSeq(seqs) \o s
<1> DEFINE more == Append(seqs, s)
           n    == Len(seqs)
<1>1. more \in Seq(Seq(S)) /\ Len(more) = n + 1 /\ n \in Nat
  OBVIOUS
<1>2. more[n + 1] = s /\ \A k \in 1..n : more[k] = seqs[k]
  OBVIOUS
<1>0. n \in Nat /\ n = Len(seqs)
  OBVIOUS
<1>01. \A k \in Nat : k < n => k + 1 \in 1..n /\ k < n + 1
  BY <1>0
<1> HIDE DEF n
<1>3. PICK h \in [Nat -> Seq(S)] : Joining(h, more, n + 1)
  BY <1>1, JoiningExists
<1>4. Joining(h, seqs, n)
  <2> HIDE DEF more
  <2> QED
    BY <1>01, <1>2, <1>3 DEF Joining
<1>5. FlattenSeq(seqs) = h[n]
  BY <1>0, <1>4, FlattenIs
<1>6. FlattenSeq(more) = h[n + 1]
  <2>1. Joining(h, more, Len(more))
    BY <1>1, <1>3
  <2> HIDE DEF more
  <2>2. FlattenSeq(more) = h[Len(more)]
    BY <1>1, <2>1, FlattenIs
  <2> QED
    BY <1>1, <2>2
<1>7. h[n + 1] = h[n] \o s
  <2>1. n \in Nat /\ n < n + 1
    BY <1>0
  <2> HIDE DEF more
  <2> QED
    BY <1>2, <1>3, <2>1 DEF Joining
<1> QED
  BY <1>1, <1>5, <1>6, <1>7

(* FlattenSeq of nothing.                                                  *)
LEMMA FlattenEmpty ==
    FlattenSeq(<<>>) = <<>>
BY DEF FlattenSeq

(* A sequence is empty or another one with one element more.               *)
LEMMA AppendOrEmpty ==
    ASSUME NEW S, NEW s \in Seq(S), s # <<>>
    PROVE  \E t \in Seq(S), x \in S : s = Append(t, x) /\ Len(s) = Len(t) + 1
<1>1. PICK t \in Seq(S), x \in S : s = Append(t, x)
  BY SequenceEmptyOrAppend
<1>2. Len(s) = Len(t) + 1
  BY <1>1, AppendProperties
<1> QED
  BY <1>1, <1>2

(* Concatenation of a sequence with one element more.                      *)
LEMMA ConcatAppend ==
    ASSUME NEW S, NEW s \in Seq(S), NEW v \in Seq(S), NEW x \in S
    PROVE  s \o Append(v, x) = Append(s \o v, x) /\ s \o v \in Seq(S)
OBVIOUS

(* FlattenSeq of two sequences of sequences.                               *)
LEMMA FlattenConcat ==
    ASSUME NEW S, NEW s \in Seq(Seq(S)), NEW t \in Seq(Seq(S))
    PROVE  FlattenSeq(s \o t) = FlattenSeq(s) \o FlattenSeq(t)
<1> DEFINE Bad == {n \in Nat : \E u \in Seq(Seq(S)) :
                      Len(u) = n /\ FlattenSeq(s \o u) # FlattenSeq(s) \o FlattenSeq(u)}
<1>1. SUFFICES ASSUME Bad # {} PROVE FALSE
  <2>1. Len(t) \in Nat
    OBVIOUS
  <2> QED
    BY <2>1
<1>2. PICK n \in Bad : \A k \in Bad : n <= k
  BY <1>1, Least
<1>3. PICK u \in Seq(Seq(S)) : Len(u) = n /\ FlattenSeq(s \o u) # FlattenSeq(s) \o FlattenSeq(u)
  BY <1>2
<1>4. FlattenSeq(s) \in Seq(S)
  <2>1. <<>> \in Seq(S)
    OBVIOUS
  <2> QED
    BY <2>1, FlattenAppend
<1>5. u # <<>>
  <2> SUFFICES ASSUME u = <<>> PROVE FALSE
    OBVIOUS
  <2>1. s \o u = s
    OBVIOUS
  <2>2. FlattenSeq(u) = <<>>
    BY FlattenEmpty
  <2>3. FlattenSeq(s) \o <<>> = FlattenSeq(s)
    BY <1>4
  <2> QED
    BY <1>3, <2>1, <2>2, <2>3
<1>6. PICK v \in Seq(Seq(S)), x \in Seq(S) : u = Append(v, x) /\ Len(u) = Len(v) + 1
  BY <1>5, AppendOrEmpty
<1>7. FlattenSeq(s \o v) = FlattenSeq(s) \o FlattenSeq(v)
  <2>1. Len(v) \in Nat /\ Len(v) < n /\ n \in Nat
    BY <1>3, <1>6
  <2>2. Len(v) \notin Bad
    BY <1>2, <2>1
  <2> QED
    BY <2>1, <2>2
<1>8. s \o u = Append(s \o v, x) /\ s \o v \in Seq(Seq(S))
  <2>1. s \o Append(v, x) = Append(s \o v, x) /\ s \o v \in Seq(Seq(S))
    BY <1>6, ConcatAppend
  <2> QED
    BY <1>6, <2>1
<1>9. FlattenSeq(s \o u) = FlattenSeq(s \o v) \o x
  BY <1>8, FlattenAppend
<1>10. FlattenSeq(u) = FlattenSeq(v) \o x /\ FlattenSeq(v) \in Seq(S)
  BY <1>6, FlattenAppend
<1>11. (FlattenSeq(s) \o FlattenSeq(v)) \o x = FlattenSeq(s) \o (FlattenSeq(v) \o x)
  <2>1. Then(Then(FlattenSeq(s), FlattenSeq(v)), x) = Then(FlattenSeq(s), Then(FlattenSeq(v), x))
    BY <1>4, <1>10, ThenAgain
  <2> QED
    BY <2>1 DEF Then
<1> QED
  BY <1>3, <1>7, <1>9, <1>10, <1>11

-----------------------------------------------------------------------------
(* How many of the elements of a sequence are in a set *)

Tally(T, s) == Cardinality({k \in DOMAIN s : s[k] \in T})

(* One element more is counted if it is in T.                              *)
LEMMA TallyAppend ==
    ASSUME NEW S, NEW s \in Seq(S), NEW x \in S, NEW T
    PROVE  /\ Tally(T, s) \in Nat
           /\ Tally(T, Append(s, x)) = Tally(T, s) + (IF x \in T THEN 1 ELSE 0)
<1> DEFINE A == {k \in DOMAIN s : s[k] \in T}
           B == {k \in DOMAIN Append(s, x) : Append(s, x)[k] \in T}
           n == Len(s) + 1
<1>1. IsFiniteSet(A)
  <2>1. Len(s) \in Int /\ 1 \in Int /\ DOMAIN s = 1..Len(s)
    OBVIOUS
  <2>2. IsFiniteSet(1..Len(s))
    BY <2>1, FS_Interval
  <2>3. A \in SUBSET (1..Len(s))
    BY <2>1
  <2> HIDE DEF A
  <2> QED
    BY <2>2, <2>3, FS_Subset
<1>2. Tally(T, s) = Cardinality(A) /\ Tally(T, Append(s, x)) = Cardinality(B)
  BY DEF Tally
<1>3. n \notin A /\ B = IF x \in T THEN A \cup {n} ELSE A
  OBVIOUS
<1> HIDE DEF A, B, n
<1>4. Cardinality(A) \in Nat
  BY <1>1, FS_CardinalityType
<1>5. Cardinality(A \cup {n}) = Cardinality(A) + 1
  BY <1>1, <1>3, FS_AddElement
<1> QED
  BY <1>2, <1>3, <1>4, <1>5

(* The empty sequence has none.                                            *)
LEMMA TallyEmpty ==
    ASSUME NEW T
    PROVE  Tally(T, <<>>) = 0
<1>1. {k \in DOMAIN <<>> : <<>>[k] \in T} = {}
  OBVIOUS
<1> QED
  BY <1>1, FS_EmptySet DEF Tally

(* A tally is a natural number.                                            *)
LEMMA TallyType ==
    ASSUME NEW S, NEW s \in Seq(S), NEW T
    PROVE  Tally(T, s) \in Nat
<1>1. CASE s = <<>>
  BY <1>1, TallyEmpty
<1>2. CASE s # <<>>
  <2>1. \E t \in Seq(S), x \in S : s = Append(t, x) /\ Len(s) = Len(t) + 1
    BY <1>2, AppendOrEmpty
  <2>2. S # {}
    BY <2>1
  <2> QED
    BY <2>2, TallyAppend
<1> QED
  BY <1>1, <1>2

(* The elements of two sequences are counted one after the other.          *)
LEMMA TallyConcat ==
    ASSUME NEW S, NEW s \in Seq(S), NEW t \in Seq(S), NEW T
    PROVE  Tally(T, s \o t) = Tally(T, s) + Tally(T, t)
<1> DEFINE Bad == {n \in Nat : \E u \in Seq(S) :
                      Len(u) = n /\ Tally(T, s \o u) # Tally(T, s) + Tally(T, u)}
<1>1. SUFFICES ASSUME Bad # {} PROVE FALSE
  <2>1. Len(t) \in Nat
    OBVIOUS
  <2> QED
    BY <2>1
<1>2. PICK n \in Bad : \A k \in Bad : n <= k
  BY <1>1, Least
<1>3. PICK u \in Seq(S) : Len(u) = n /\ Tally(T, s \o u) # Tally(T, s) + Tally(T, u)
  BY <1>2
<1>4. Tally(T, s) \in Nat
  BY TallyType
<1>5. u # <<>>
  <2> SUFFICES ASSUME u = <<>> PROVE FALSE
    OBVIOUS
  <2>1. s \o u = s
    OBVIOUS
  <2>2. Tally(T, u) = 0
    BY TallyEmpty
  <2> QED
    BY <1>3, <1>4, <2>1, <2>2
<1>6. PICK v \in Seq(S), x \in S : u = Append(v, x) /\ Len(u) = Len(v) + 1
  BY <1>5, AppendOrEmpty
<1>7. Tally(T, s \o v) = Tally(T, s) + Tally(T, v)
  <2>1. Len(v) \in Nat /\ Len(v) < n /\ n \in Nat
    BY <1>3, <1>6
  <2>2. Len(v) \notin Bad
    BY <1>2, <2>1
  <2> QED
    BY <2>1, <2>2
<1>8. s \o u = Append(s \o v, x) /\ s \o v \in Seq(S)
  BY <1>6, ConcatAppend
<1>9. Tally(T, s \o u) = Tally(T, s \o v) + (IF x \in T THEN 1 ELSE 0)
  <2> DEFINE w == s \o v
  <2>1. w \in Seq(S) /\ s \o u = Append(w, x)
    BY <1>8
  <2> HIDE DEF w
  <2>2. Tally(T, Append(w, x)) = Tally(T, w) + (IF x \in T THEN 1 ELSE 0)
    BY <2>1, TallyAppend
  <2> QED
    BY <2>1, <2>2 DEF w
<1>10. Tally(T, u) = Tally(T, v) + (IF x \in T THEN 1 ELSE 0) /\ Tally(T, v) \in Nat
  BY <1>6, TallyAppend
<1> QED
  BY <1>3, <1>4, <1>7, <1>9, <1>10

(* None is counted when none is in T.                                      *)
LEMMA TallyNone ==
    ASSUME NEW S, NEW s \in Seq(S), NEW T
    PROVE  Tally(T, s) = 0 <=> \A k \in DOMAIN s : s[k] \notin T
<1> DEFINE A == {k \in DOMAIN s : s[k] \in T}
<1>1. IsFiniteSet(A)
  <2>1. Len(s) \in Int /\ 1 \in Int /\ DOMAIN s = 1..Len(s)
    OBVIOUS
  <2>2. IsFiniteSet(1..Len(s))
    BY <2>1, FS_Interval
  <2>3. A \in SUBSET (1..Len(s))
    BY <2>1
  <2> HIDE DEF A
  <2> QED
    BY <2>2, <2>3, FS_Subset
<1>2. Tally(T, s) = Cardinality(A)
  BY DEF Tally
<1>3. A = {} <=> \A k \in DOMAIN s : s[k] \notin T
  OBVIOUS
<1> HIDE DEF A
<1> QED
  BY <1>1, <1>2, <1>3, FS_EmptySet

-----------------------------------------------------------------------------
(* The levels of entities: U has the entities and all that is in them *)

Closed(U) == \A e \in U : Contents(e) \in Seq(U)

(* What is in entities of U are entities of U.                             *)
LEMMA InsideType ==
    ASSUME NEW U, Closed(U), NEW s \in Seq(U)
    PROVE  [k \in DOMAIN s |-> Contents(s[k])] \in Seq(Seq(U)) /\ Inside(s) \in Seq(U)
<1> DEFINE u == [k \in DOMAIN s |-> Contents(s[k])]
<1>1. u \in Seq(Seq(U))
  <2>1. \A k \in 1..Len(s) : Contents(s[k]) \in Seq(U)
    BY DEF Closed
  <2>2. Len(s) \in Nat /\ DOMAIN s = 1..Len(s)
    OBVIOUS
  <2> QED
    BY <2>1, <2>2
<1>2. FlattenSeq(u) \in Seq(U)
  <2>1. << >> \in Seq(U)
    OBVIOUS
  <2> HIDE DEF u
  <2> QED
    BY <1>1, <2>1, FlattenAppend
<1> QED
  BY <1>1, <1>2 DEF Inside

(* A concatenation is known by its length and its elements.                *)
LEMMA ConcatIs ==
    ASSUME NEW S, NEW u \in Seq(S), NEW d \in Seq(S), NEW b \in Seq(S),
           Len(b) = Len(u) + Len(d),
           \A k \in 1..Len(b) : b[k] = IF k <= Len(u) THEN u[k] ELSE d[k - Len(u)]
    PROVE  b = u \o d
<1>1. u \o d \in Seq(S) /\ Len(u \o d) = Len(b)
  OBVIOUS
<1>2. \A k \in 1..Len(b) : (u \o d)[k] = b[k]
  OBVIOUS
<1> QED
  BY <1>1, <1>2, SeqEqual

(* What is in two sequences of entities, one after the other.              *)
LEMMA InsideConcat ==
    ASSUME NEW U, Closed(U), NEW s \in Seq(U), NEW t \in Seq(U)
    PROVE  Inside(s \o t) = Inside(s) \o Inside(t)
<1> DEFINE u == [k \in DOMAIN s |-> Contents(s[k])]
           d == [k \in DOMAIN t |-> Contents(t[k])]
           w == s \o t
           b == [k \in DOMAIN w |-> Contents(w[k])]
<1>1. u \in Seq(Seq(U)) /\ d \in Seq(Seq(U))
  BY InsideType
<1>15. b \in Seq(Seq(U))
  <2>1. w \in Seq(U)
    OBVIOUS
  <2> HIDE DEF w
  <2> QED
    BY <2>1, InsideType
<1>2. b = u \o d
  <2>1. /\ Len(w) = Len(s) + Len(t) /\ DOMAIN w = 1..Len(w)
        /\ \A k \in 1..Len(w) : w[k] = IF k <= Len(s) THEN s[k] ELSE t[k - Len(s)]
    OBVIOUS
  <2>2. /\ Len(s) \in Nat /\ DOMAIN s = 1..Len(s)
        /\ Len(t) \in Nat /\ DOMAIN t = 1..Len(t)
    OBVIOUS
  <2> HIDE DEF w
  <2>3. Len(u) = Len(s) /\ Len(d) = Len(t) /\ Len(b) = Len(s) + Len(t)
    BY <2>1, <2>2
  <2>4. \A k \in 1..(Len(s) + Len(t)) :
            b[k] = IF k <= Len(s) THEN u[k] ELSE d[k - Len(s)]
    BY <2>1, <2>2
  <2> DEFINE S == Seq(U)
  <2>5. u \in Seq(S) /\ d \in Seq(S) /\ b \in Seq(S)
    BY <1>1, <1>15
  <2> HIDE DEF b, u, d, S
  <2>6. Len(b) = Len(u) + Len(d)
    BY <2>3
  <2>7. \A k \in 1..Len(b) : b[k] = IF k <= Len(u) THEN u[k] ELSE d[k - Len(u)]
    BY <2>3, <2>4
  <2> QED
    BY <2>5, <2>6, <2>7, ConcatIs
<1> HIDE DEF b, u, d
<1>3. FlattenSeq(u \o d) = FlattenSeq(u) \o FlattenSeq(d)
  BY <1>1, FlattenConcat
<1> QED
  BY <1>2, <1>3 DEF Inside, b, u, d, w

(* What is in one entity, and in none.                                     *)
LEMMA InsideOne ==
    ASSUME NEW U, Closed(U), NEW e \in U
    PROVE  Inside(<<e>>) = Contents(e) /\ Inside(<< >>) = << >>
<1>1. Contents(e) \in Seq(U)
  BY DEF Closed
<1> DEFINE s == <<e>>
           x == Contents(e)
           u == [k \in DOMAIN s |-> Contents(s[k])]
           none == << >>
<1>2. u = Append(none, x)
  <2>1. DOMAIN s = 1..1 /\ s[1] = e
    OBVIOUS
  <2> HIDE DEF s
  <2>2. u = [k \in 1..1 |-> x]
    BY <2>1
  <2> HIDE DEF x
  <2>3. Append(none, x) = [k \in 1..1 |-> x]
    OBVIOUS
  <2> QED
    BY <2>2, <2>3
<1>3. x \in Seq(U) /\ none \in Seq(Seq(U)) /\ none \in Seq(U)
  BY <1>1
<1>4. FlattenSeq(none) = none
  BY FlattenEmpty
<1>5. Inside(s) = FlattenSeq(u)
  BY DEF Inside
<1>6. Inside(none) = none
  <2>1. [k \in DOMAIN none |-> Contents(none[k])] = none
    OBVIOUS
  <2> QED
    BY <2>1, <1>4 DEF Inside
<1> HIDE DEF x, u, none
<1>7. FlattenSeq(Append(none, x)) = none \o x
  BY <1>3, <1>4, FlattenAppend
<1>8. none \o x = x
  BY <1>3 DEF none
<1> QED
  BY <1>2, <1>5, <1>6, <1>7, <1>8 DEF x, none

(* The recursive function Levels is what its equations say.                *)
LEMMA LevelsAre ==
    ASSUME NEW U, Closed(U), NEW s \in Seq(U)
    PROVE  /\ Levels(s) \in [Nat -> Seq(U)]
           /\ Levels(s)[0] = s
           /\ \A n \in Nat : Levels(s)[n + 1] = Inside(Levels(s)[n])
<1> DEFINE g == [t \in Seq(U) |-> Inside(t)]
           Follows(level) == level = [n \in Nat |-> IF n = 0 THEN s ELSE Inside(level[n - 1])]
<1>1. g \in [Seq(U) -> Seq(U)]
  BY InsideType
<1>2. PICK f \in [Nat -> Seq(U)] : Iterate(f, g, s)
  <2> HIDE DEF g
  <2> QED
    BY <1>1, Iterates
<1>3. Follows(f)
  <2>1. ASSUME NEW n \in Nat
        PROVE  f[n] = IF n = 0 THEN s ELSE Inside(f[n - 1])
    <3>1. CASE n = 0
      BY <1>2, <3>1 DEF Iterate
    <3>2. CASE n # 0
      <4>1. n - 1 \in Nat /\ (n - 1) + 1 = n
        BY <3>2
      <4>2. f[n] = g[f[n - 1]]
        BY <1>2, <4>1 DEF Iterate
      <4> QED
        BY <3>2, <4>1, <4>2
    <3> QED
      BY <3>1, <3>2
  <2>2. f = [n \in Nat |-> f[n]]
    OBVIOUS
  <2> QED
    BY <2>1, <2>2
<1> DEFINE l == CHOOSE level : Follows(level)
<1>4. Levels(s) = l
  BY DEF Levels
<1>5. Follows(l)
  <2>1. \E level : Follows(level)
    BY <1>3
  <2> HIDE DEF Follows
  <2> QED
    BY <2>1
<1> HIDE DEF l
<1>6. l = [n \in Nat |-> l[n]]
  BY <1>5
<1>7. l[0] = s /\ \A n \in Nat : l[n + 1] = Inside(l[n])
  <2>1. \A n \in Nat : n + 1 \in Nat /\ n + 1 # 0 /\ (n + 1) - 1 = n
    OBVIOUS
  <2>2. \A n \in Nat : l[n] = IF n = 0 THEN s ELSE Inside(l[n - 1])
    BY <1>5
  <2> QED
    BY <2>1, <2>2
<1>8. \A n \in Nat : l[n] \in Seq(U)
  <2> DEFINE Bad == {n \in Nat : l[n] \notin Seq(U)}
  <2> SUFFICES ASSUME Bad # {} PROVE FALSE
    OBVIOUS
  <2>1. PICK k \in Bad : \A j \in Bad : k <= j
    BY Least
  <2>2. k # 0
    BY <1>7, <2>1
  <2>3. PICK j \in Nat : k = j + 1 /\ j \notin Bad
    BY <2>1, <2>2
  <2>4. l[k] = Inside(l[j]) /\ l[j] \in Seq(U)
    BY <1>7, <2>3
  <2>5. Inside(l[j]) \in Seq(U)
    BY <2>4, InsideType
  <2> QED
    BY <2>1, <2>4, <2>5
<1> QED
  BY <1>4, <1>6, <1>7, <1>8

(* The levels of two sequences are side by side.                           *)
LEMMA LevelsConcat ==
    ASSUME NEW U, Closed(U), NEW s \in Seq(U), NEW t \in Seq(U), NEW n \in Nat
    PROVE  Levels(s \o t)[n] = Levels(s)[n] \o Levels(t)[n]
<1> DEFINE w == s \o t
           a == Levels(s)
           b == Levels(t)
           u == Levels(w)
           Bad == {k \in Nat : u[k] # a[k] \o b[k]}
<1> SUFFICES ASSUME Bad # {} PROVE FALSE
  OBVIOUS
<1>1. PICK k \in Bad : \A j \in Bad : k <= j
  BY Least
<1>2. w \in Seq(U)
  OBVIOUS
<1>3. /\ a \in [Nat -> Seq(U)] /\ a[0] = s /\ \A j \in Nat : a[j + 1] = Inside(a[j])
      /\ b \in [Nat -> Seq(U)] /\ b[0] = t /\ \A j \in Nat : b[j + 1] = Inside(b[j])
  BY LevelsAre
<1>4. u[0] = w /\ \A j \in Nat : u[j + 1] = Inside(u[j])
  <2> HIDE DEF w
  <2> QED
    BY <1>2, LevelsAre
<1>5. k # 0
  BY <1>1, <1>3, <1>4
<1>6. PICK j \in Nat : k = j + 1 /\ j \notin Bad
  <2>1. k \in Nat
    BY <1>1
  <2>2. PICK j \in Nat : k = j + 1
    BY <1>5, <2>1
  <2>3. ~(k <= j)
    BY <2>1, <2>2
  <2>4. \A r \in Bad : k <= r
    BY <1>1
  <2> HIDE DEF Bad
  <2>5. j \notin Bad
    BY <2>3, <2>4
  <2> QED
    BY <2>2, <2>5
<1> HIDE DEF a, b, u
<1>7. u[j] = a[j] \o b[j] /\ a[j] \in Seq(U) /\ b[j] \in Seq(U)
  BY <1>3, <1>6
<1>8. Inside(a[j] \o b[j]) = Inside(a[j]) \o Inside(b[j])
  BY <1>7, InsideConcat
<1>9. u[k] = a[k] \o b[k]
  BY <1>3, <1>4, <1>6, <1>7, <1>8
<1> QED
  BY <1>1, <1>9

(* Below an entity is what is in it.                                       *)
LEMMA LevelsOne ==
    ASSUME NEW U, Closed(U), NEW e \in U, NEW n \in Nat
    PROVE  Levels(<<e>>)[n + 1] = Levels(Contents(e))[n]
<1> DEFINE s == <<e>>
           a == Levels(s)
           x == Contents(e)
           b == Levels(x)
           Bad == {k \in Nat : a[k + 1] # b[k]}
<1> SUFFICES ASSUME Bad # {} PROVE FALSE
  OBVIOUS
<1>1. PICK k \in Bad : \A j \in Bad : k <= j
  BY Least
<1>2. s \in Seq(U) /\ x \in Seq(U) /\ Inside(s) = x
  BY InsideOne DEF Closed
<1> HIDE DEF s, x
<1>3. a[0] = s /\ \A j \in Nat : a[j + 1] = Inside(a[j])
  BY <1>2, LevelsAre
<1>4. b[0] = x /\ \A j \in Nat : b[j + 1] = Inside(b[j])
  BY <1>2, LevelsAre
<1> HIDE DEF a, b
<1>5. a[1] = x
  <2>1. 0 \in Nat /\ 0 + 1 = 1
    OBVIOUS
  <2> QED
    BY <1>2, <1>3, <2>1
<1>6. k # 0
  BY <1>1, <1>4, <1>5
<1>7. PICK j \in Nat : k = j + 1 /\ j \notin Bad
  <2>1. k \in Nat
    BY <1>1
  <2>2. PICK j \in Nat : k = j + 1
    BY <1>6, <2>1
  <2>3. ~(k <= j)
    BY <2>1, <2>2
  <2>4. \A r \in Bad : k <= r
    BY <1>1
  <2> HIDE DEF Bad
  <2>5. j \notin Bad
    BY <2>3, <2>4
  <2> QED
    BY <2>2, <2>5
<1>8. a[j + 1] = b[j] /\ j + 1 \in Nat
  BY <1>7
<1>9. a[k + 1] = b[k]
  BY <1>3, <1>4, <1>7, <1>8
<1> QED
  BY <1>1, <1>9

(* Below an empty level there is none.                                     *)
LEMMA LevelsEnd ==
    ASSUME NEW U, Closed(U), NEW s \in Seq(U), NEW n \in Nat, Levels(s)[n] = <<>>
    PROVE  \A k \in Nat : n <= k => Levels(s)[k] = <<>>
<1> DEFINE Bad == {k \in Nat : n <= k /\ Levels(s)[k] # <<>>}
<1> SUFFICES ASSUME Bad # {} PROVE FALSE
  OBVIOUS
<1>1. PICK k \in Bad : \A j \in Bad : k <= j
  BY Least
<1>2. k # n
  BY <1>1
<1>3. PICK j \in Nat : k = j + 1 /\ j \notin Bad /\ n <= j
  BY <1>1, <1>2
<1>4. Levels(s)[j] = <<>>
  BY <1>3
<1>5. Levels(s)[k] = Inside(<<>>)
  <2>1. Levels(s)[j + 1] = Inside(Levels(s)[j])
    BY LevelsAre
  <2> QED
    BY <1>3, <1>4, <2>1
<1>6. Inside(<<>>) = <<>>
  <2>1. [k1 \in DOMAIN <<>> |-> Contents(<<>>[k1])] = <<>>
    OBVIOUS
  <2> QED
    BY <2>1, FlattenEmpty DEF Inside
<1> QED
  BY <1>1, <1>5, <1>6

-----------------------------------------------------------------------------
(* All that is in entities, and how much of it is in a set *)

Upto(s, n) == FlattenSeq([k \in 1..n |-> Levels(s)[k - 1]])

(* The first levels grow by one level.                                     *)
LEMMA UptoAre ==
    ASSUME NEW U, Closed(U), NEW s \in Seq(U), NEW n \in Nat
    PROVE  /\ Upto(s, 0) = <<>>
           /\ Upto(s, n) \in Seq(U)
           /\ Upto(s, n + 1) = Upto(s, n) \o Levels(s)[n]
<1> DEFINE l == Levels(s)
           a == [k \in 1..n |-> l[k - 1]]
           b == [k \in 1..(n + 1) |-> l[k - 1]]
           S == Seq(U)
<1>1. l \in [Nat -> S]
  BY LevelsAre
<1>2. Upto(s, n) = FlattenSeq(a) /\ Upto(s, n + 1) = FlattenSeq(b)
  BY DEF Upto
<1>3. Upto(s, 0) = <<>>
  <2>1. [k \in 1..0 |-> l[k - 1]] = <<>>
    OBVIOUS
  <2> QED
    BY <2>1, FlattenEmpty DEF Upto
<1> HIDE DEF l, S
<1>4. a \in Seq(S) /\ b \in Seq(S)
  <2>1. \A k \in 1..(n + 1) : k - 1 \in Nat
    OBVIOUS
  <2>2. \A k \in 1..(n + 1) : l[k - 1] \in S
    BY <1>1, <2>1
  <2> QED
    BY <2>2
<1>5. l[n] \in S
  BY <1>1
<1>6. b = Append(a, l[n])
  <2>1. Len(a) = n /\ Len(b) = n + 1 /\ Append(a, l[n]) \in Seq(S)
    BY <1>4, <1>5
  <2>2. \A k \in 1..(n + 1) : b[k] = Append(a, l[n])[k]
    <3> TAKE k \in 1..(n + 1)
    <3>1. CASE k = n + 1
      <4>1. b[k] = l[n]
        BY <3>1
      <4>2. Append(a, l[n])[k] = l[n]
        BY <2>1, <3>1
      <4> QED
        BY <4>1, <4>2
    <3>2. CASE k # n + 1
      <4>1. k \in 1..n
        BY <3>2
      <4>2. Append(a, l[n])[k] = a[k]
        BY <2>1, <4>1
      <4> QED
        BY <4>1, <4>2
    <3> QED
      BY <3>1, <3>2
  <2>3. Len(Append(a, l[n])) = n + 1
    BY <2>1, <1>4, <1>5
  <2> HIDE DEF a, b
  <2> QED
    BY <1>4, <2>1, <2>2, <2>3, SeqEqual
<1>7. FlattenSeq(a) \in S /\ FlattenSeq(b) = FlattenSeq(a) \o l[n]
  <2> HIDE DEF a, b
  <2>1. a \in Seq(Seq(U)) /\ l[n] \in Seq(U)
    BY <1>4, <1>5 DEF S
  <2>2. FlattenSeq(a) \in Seq(U) /\ FlattenSeq(Append(a, l[n])) = FlattenSeq(a) \o l[n]
    BY <2>1, FlattenAppend
  <2> QED
    BY <1>6, <2>2 DEF S
<1> QED
  BY <1>2, <1>3, <1>7 DEF S, l

TallyUpto(T, s, n) == Tally(T, Upto(s, n))

(* So does the number of the entities of T on them.                        *)
LEMMA TallyUptoAre ==
    ASSUME NEW U, Closed(U), NEW s \in Seq(U), NEW T
    PROVE  /\ TallyUpto(T, s, 0) = 0
           /\ \A n \in Nat : /\ TallyUpto(T, s, n) \in Nat
                             /\ Tally(T, Levels(s)[n]) \in Nat
                             /\ TallyUpto(T, s, n + 1) = TallyUpto(T, s, n) + Tally(T, Levels(s)[n])
<1>1. TallyUpto(T, s, 0) = 0
  <2>1. 0 \in Nat
    OBVIOUS
  <2> QED
    BY <2>1, UptoAre, TallyEmpty DEF TallyUpto
<1>2. ASSUME NEW n \in Nat
      PROVE  /\ TallyUpto(T, s, n) \in Nat
             /\ Tally(T, Levels(s)[n]) \in Nat
             /\ TallyUpto(T, s, n + 1) = TallyUpto(T, s, n) + Tally(T, Levels(s)[n])
  <2> DEFINE a == Upto(s, n)
             b == Levels(s)[n]
  <2>1. a \in Seq(U) /\ Upto(s, n + 1) = a \o b
    BY UptoAre
  <2>2. b \in Seq(U)
    BY LevelsAre
  <2> HIDE DEF a, b
  <2>3. Tally(T, a \o b) = Tally(T, a) + Tally(T, b) /\ Tally(T, a) \in Nat /\ Tally(T, b) \in Nat
    BY <2>1, <2>2, TallyConcat, TallyType
  <2>4. TallyUpto(T, s, n) = Tally(T, a) /\ TallyUpto(T, s, n + 1) = Tally(T, a \o b)
    BY <2>1 DEF TallyUpto, a
  <2> QED
    BY <2>3, <2>4 DEF b
<1> QED
  BY <1>1, <1>2

\* There is nothing on level n.
Ends(s, n) == Levels(s)[n] = <<>>

\* All that is in s, once s has an end.
Total(T, s) == TallyUpto(T, s, CHOOSE n \in Nat : Ends(s, n))

(* Behind the last level there is nothing to count.                        *)
LEMMA TallyUptoStays ==
    ASSUME NEW U, Closed(U), NEW s \in Seq(U), NEW T, NEW n \in Nat, Ends(s, n)
    PROVE  \A k \in Nat : n <= k => TallyUpto(T, s, k) = TallyUpto(T, s, n)
<1> DEFINE Bad == {k \in Nat : n <= k /\ TallyUpto(T, s, k) # TallyUpto(T, s, n)}
<1> SUFFICES ASSUME Bad # {} PROVE FALSE
  OBVIOUS
<1>1. PICK k \in Bad : \A j \in Bad : k <= j
  BY Least
<1>2. k # n
  BY <1>1
<1>3. PICK j \in Nat : k = j + 1 /\ j \notin Bad /\ n <= j
  BY <1>1, <1>2
<1>4. Levels(s)[j] = <<>>
  BY <1>3, LevelsEnd DEF Ends
<1>5. TallyUpto(T, s, j + 1) = TallyUpto(T, s, j) + Tally(T, Levels(s)[j]) /\ TallyUpto(T, s, j) \in Nat
  BY <1>3, TallyUptoAre
<1>6. Tally(T, Levels(s)[j]) = 0
  BY <1>4, TallyEmpty
<1>7. TallyUpto(T, s, k) = TallyUpto(T, s, j) /\ TallyUpto(T, s, j) = TallyUpto(T, s, n)
  BY <1>3, <1>5, <1>6
<1> QED
  BY <1>1, <1>7

(* The total can be counted over any number of levels that are enough.     *)
LEMMA TotalIs ==
    ASSUME NEW U, Closed(U), NEW s \in Seq(U), NEW T, NEW n \in Nat, Ends(s, n)
    PROVE  /\ Total(T, s) = TallyUpto(T, s, n)
           /\ Total(T, s) \in Nat
<1> DEFINE u == CHOOSE k \in Nat : Ends(s, k)
<1>1. u \in Nat /\ Ends(s, u)
  OBVIOUS
<1>2. Total(T, s) = TallyUpto(T, s, u)
  BY DEF Total
<1> HIDE DEF u
<1>3. u <= n \/ n <= u
  BY <1>1
<1>4. TallyUpto(T, s, u) = TallyUpto(T, s, n)
  <2>1. n <= u => TallyUpto(T, s, u) = TallyUpto(T, s, n)
    BY <1>1, TallyUptoStays
  <2>2. u <= n => TallyUpto(T, s, n) = TallyUpto(T, s, u)
    BY <1>1, TallyUptoStays
  <2> QED
    BY <1>3, <2>1, <2>2
<1>5. TallyUpto(T, s, n) \in Nat
  BY TallyUptoAre
<1> QED
  BY <1>2, <1>4, <1>5

(* Levels that have ended stay so.                                         *)
LEMMA EndsStays ==
    ASSUME NEW U, Closed(U), NEW s \in Seq(U), NEW n \in Nat, Ends(s, n),
           NEW k \in Nat, n <= k
    PROVE  Ends(s, k)
BY LevelsEnd DEF Ends

(* LevelsConcat, as Then.                                                  *)
LEMMA LevelsThen ==
    ASSUME NEW U, Closed(U), NEW s \in Seq(U), NEW t \in Seq(U)
    PROVE  /\ Then(s, t) \in Seq(U)
           /\ \A n \in Nat : /\ Levels(s)[n] \in Seq(U) /\ Levels(t)[n] \in Seq(U)
                            /\ Levels(Then(s, t))[n] = Then(Levels(s)[n], Levels(t)[n])
<1>1. Then(s, t) \in Seq(U)
  BY DEF Then
<1>2. ASSUME NEW n \in Nat
      PROVE  /\ Levels(s)[n] \in Seq(U) /\ Levels(t)[n] \in Seq(U)
             /\ Levels(Then(s, t))[n] = Then(Levels(s)[n], Levels(t)[n])
  <2> DEFINE a == Levels(s)[n]
             b == Levels(t)[n]
  <2>1. a \in Seq(U) /\ b \in Seq(U)
    BY LevelsAre
  <2>2. Levels(s \o t)[n] = a \o b
    BY LevelsConcat
  <2> QED
    BY <2>1, <2>2, Zenon DEF Then
<1> QED
  BY <1>1, <1>2

(* TallyConcat, as Then.                                                   *)
LEMMA TallyThen ==
    ASSUME NEW S, NEW s \in Seq(S), NEW t \in Seq(S), NEW T
    PROVE  Tally(T, Then(s, t)) = Tally(T, s) + Tally(T, t)
BY TallyConcat DEF Then

(* Two sequences end where both of them have.                              *)
LEMMA EndsThen ==
    ASSUME NEW U, Closed(U), NEW s \in Seq(U), NEW t \in Seq(U), NEW n \in Nat
    PROVE  Ends(Then(s, t), n) <=> Ends(s, n) /\ Ends(t, n)
<1> DEFINE a == Levels(s)[n]
           b == Levels(t)[n]
<1>1. a \in Seq(U) /\ b \in Seq(U)
  BY LevelsThen
<1>2. Levels(Then(s, t))[n] = Then(a, b)
  BY LevelsThen
<1>3. Ends(s, n) <=> a = <<>>
  BY DEF Ends
<1>4. Ends(t, n) <=> b = <<>>
  BY DEF Ends
<1> HIDE DEF a, b
<1>5. Then(a, b) = <<>> <=> a = <<>> /\ b = <<>>
  BY <1>1 DEF Then
<1> QED
  BY <1>2, <1>3, <1>4, <1>5 DEF Ends

(* An entity ends one level behind its contents.                           *)
LEMMA EndsOne ==
    ASSUME NEW U, Closed(U), NEW e \in U, NEW n \in Nat
    PROVE  Ends(<<e>>, n + 1) <=> Ends(Contents(e), n)
BY LevelsOne DEF Ends

(* The totals of two sequences add up.                                     *)
LEMMA TotalThen ==
    ASSUME NEW U, Closed(U), NEW s \in Seq(U), NEW t \in Seq(U), NEW T,
           NEW n \in Nat, Ends(s, n), Ends(t, n)
    PROVE  Total(T, Then(s, t)) = Total(T, s) + Total(T, t)
<1>0. \A k \in Nat : /\ Levels(s)[k] \in Seq(U) /\ Levels(t)[k] \in Seq(U)
                     /\ Levels(Then(s, t))[k] = Then(Levels(s)[k], Levels(t)[k])
  BY LevelsThen
<1> DEFINE w == Then(s, t)
           Bad == {k \in Nat : TallyUpto(T, w, k) # TallyUpto(T, s, k) + TallyUpto(T, t, k)}
<1>1. w \in Seq(U) /\ Ends(w, n)
  BY LevelsThen, EndsThen
<1>2. Bad = {}
  <2> SUFFICES ASSUME Bad # {} PROVE FALSE
    OBVIOUS
  <2>1. PICK k \in Bad : \A j \in Bad : k <= j
    BY Least
  <2>2. k # 0
    <3> HIDE DEF w
    <3>1. TallyUpto(T, w, 0) = 0 /\ TallyUpto(T, s, 0) = 0 /\ TallyUpto(T, t, 0) = 0
      BY <1>1, TallyUptoAre
    <3> QED
      BY <2>1, <3>1
  <2>3. PICK j \in Nat : k = j + 1 /\ j \notin Bad
    BY <2>1, <2>2
  <2> DEFINE a == Levels(s)[j]
             b == Levels(t)[j]
  <2>4. a \in Seq(U) /\ b \in Seq(U)
    BY <1>0
  <2>5. Levels(w)[j] = Then(a, b)
    BY <1>0
  <2>6. /\ TallyUpto(T, s, j) \in Nat /\ TallyUpto(T, s, j + 1) = TallyUpto(T, s, j) + Tally(T, a)
        /\ TallyUpto(T, t, j) \in Nat /\ TallyUpto(T, t, j + 1) = TallyUpto(T, t, j) + Tally(T, b)
    BY TallyUptoAre
  <2>7. TallyUpto(T, w, j + 1) = TallyUpto(T, w, j) + Tally(T, Levels(w)[j])
    <3> HIDE DEF w
    <3> QED
      BY <1>1, TallyUptoAre
  <2>8. TallyUpto(T, w, j) = TallyUpto(T, s, j) + TallyUpto(T, t, j)
    BY <2>3
  <2>9. TallyUpto(T, w, k) # TallyUpto(T, s, k) + TallyUpto(T, t, k)
    BY <2>1
  <2> HIDE DEF a, b, w, Bad
  <2>10. Tally(T, Then(a, b)) = Tally(T, a) + Tally(T, b) /\ Tally(T, a) \in Nat /\ Tally(T, b) \in Nat
    BY <2>4, TallyThen, TallyType
  <2> QED
    BY <2>3, <2>5, <2>6, <2>7, <2>8, <2>9, <2>10
<1>3. Total(T, s) = TallyUpto(T, s, n) /\ Total(T, t) = TallyUpto(T, t, n)
  BY TotalIs
<1>4. TallyUpto(T, w, n) = TallyUpto(T, s, n) + TallyUpto(T, t, n)
  BY <1>2
<1> HIDE DEF w
<1>5. Total(T, w) = TallyUpto(T, w, n)
  BY <1>1, TotalIs
<1> QED
  BY <1>3, <1>4, <1>5 DEF w

(* An entity is counted with what is in it.                                *)
LEMMA TotalOne ==
    ASSUME NEW U, Closed(U), NEW e \in U, NEW T, NEW n \in Nat, Ends(Contents(e), n)
    PROVE  /\ Ends(<<e>>, n + 1)
           /\ Total(T, <<e>>) = (IF e \in T THEN 1 ELSE 0) + Total(T, Contents(e))
<1> DEFINE s == <<e>>
           x == Contents(e)
           one == IF e \in T THEN 1 ELSE 0
           Bad == {k \in Nat : TallyUpto(T, s, k + 1) # one + TallyUpto(T, x, k)}
<1>1. s \in Seq(U) /\ x \in Seq(U) /\ Ends(s, n + 1) /\ n + 1 \in Nat
  BY EndsOne DEF Closed
<1>2. \A k \in Nat : Levels(s)[k + 1] = Levels(x)[k]
  BY LevelsOne
<1>3. Tally(T, s) = one
  <2> DEFINE none == << >>
  <2>1. none \in Seq(U) /\ s = Append(none, e)
    OBVIOUS
  <2>2. Tally(T, none) = 0
    BY TallyEmpty
  <2> HIDE DEF none, s
  <2>3. Tally(T, Append(none, e)) = Tally(T, none) + one
    BY <2>1, TallyAppend
  <2> QED
    BY <2>1, <2>2, <2>3
<1>4. one \in Nat
  OBVIOUS
<1> HIDE DEF s, x, one
<1>5. Levels(s)[0] = s
  BY <1>1, LevelsAre
<1>6. Bad = {}
  <2> SUFFICES ASSUME Bad # {} PROVE FALSE
    OBVIOUS
  <2>1. PICK k \in Bad : \A j \in Bad : k <= j
    BY Least
  <2>15. k \in Nat /\ TallyUpto(T, s, k + 1) # one + TallyUpto(T, x, k)
    BY <2>1
  <2>2. k # 0
    <3>1. TallyUpto(T, s, 0) = 0 /\ TallyUpto(T, x, 0) = 0
      BY <1>1, TallyUptoAre
    <3>2. TallyUpto(T, s, 0 + 1) = TallyUpto(T, s, 0) + Tally(T, Levels(s)[0])
      BY <1>1, TallyUptoAre
    <3> QED
      BY <1>3, <1>4, <1>5, <2>15, <3>1, <3>2
  <2>3. PICK j \in Nat : k = j + 1
    BY <2>15, <2>2
  <2>4. j \notin Bad
    <3>1. ~(k <= j)
      BY <2>3
    <3>2. \A r \in Bad : k <= r
      BY <2>1
    <3> HIDE DEF Bad
    <3> QED
      BY <3>1, <3>2
  <2>5. TallyUpto(T, s, k) = one + TallyUpto(T, x, j)
    BY <2>3, <2>4
  <2>6. TallyUpto(T, x, j + 1) = TallyUpto(T, x, j) + Tally(T, Levels(x)[j]) /\ TallyUpto(T, x, j) \in Nat
        /\ Tally(T, Levels(x)[j]) \in Nat
    BY <1>1, TallyUptoAre
  <2>7. TallyUpto(T, s, k + 1) = TallyUpto(T, s, k) + Tally(T, Levels(s)[k])
    BY <1>1, <2>15, TallyUptoAre
  <2>8. Levels(s)[k] = Levels(x)[j]
    BY <1>2, <2>3
  <2> QED
    BY <1>4, <2>15, <2>3, <2>5, <2>6, <2>7, <2>8
<1>7. Total(T, s) = TallyUpto(T, s, n + 1)
  BY <1>1, TotalIs
<1>8. Total(T, x) = TallyUpto(T, x, n)
  <2>1. Ends(x, n)
    BY DEF x
  <2> QED
    BY <1>1, <2>1, TotalIs
<1>9. TallyUpto(T, s, n + 1) = one + TallyUpto(T, x, n)
  BY <1>6
<1> QED
  BY <1>1, <1>7, <1>8, <1>9 DEF s, x, one

\* What there is in s and below.
Reach(s) == ToSet(Upto(s, CHOOSE n \in Nat : Ends(s, n)))

(* Sets that agree on the elements count the same.                         *)
LEMMA TallyAgree ==
    ASSUME NEW s, NEW T, NEW V, \A e \in ToSet(s) : e \in T <=> e \in V
    PROVE  Tally(T, s) = Tally(V, s)
<1>1. \A k \in DOMAIN s : s[k] \in ToSet(s)
  BY DEF ToSet
<1>2. {k \in DOMAIN s : s[k] \in T} = {k \in DOMAIN s : s[k] \in V}
  BY <1>1
<1> QED
  BY <1>2 DEF Tally

(* TallyNone, as a fact about the set of the elements.                     *)
LEMMA TallyZero ==
    ASSUME NEW S, NEW s \in Seq(S), NEW T
    PROVE  /\ ToSet(s) \subseteq S
           /\ Tally(T, s) = 0 <=> \A e \in ToSet(s) : e \notin T
<1>1. ToSet(s) \subseteq S
  BY DEF ToSet
<1>2. (\A k \in DOMAIN s : s[k] \notin T) <=> \A e \in ToSet(s) : e \notin T
  BY DEF ToSet
<1> QED
  BY <1>1, <1>2, TallyNone

(* Total and Reach are those of any prefix of the levels with all in it.   *)
LEMMA ReachIs ==
    ASSUME NEW U, Closed(U), NEW s \in Seq(U), NEW n \in Nat, Ends(s, n)
    PROVE  /\ Upto(s, n) \in Seq(U)
           /\ Reach(s) = ToSet(Upto(s, n))
           /\ Reach(s) \subseteq U
           /\ \A T : Total(T, s) = Tally(T, Upto(s, n))
<1> DEFINE u == CHOOSE k \in Nat : Ends(s, k)
           a == Upto(s, u)
           b == Upto(s, n)
<1>1. u \in Nat /\ Ends(s, u)
  OBVIOUS
<1>2. Reach(s) = ToSet(a)
  BY DEF Reach
<1>3. \A T : Total(T, s) = Tally(T, a)
  BY DEF Total, TallyUpto
<1> HIDE DEF u
<1>4. a \in Seq(U) /\ b \in Seq(U)
  BY <1>1, UptoAre
<1>5. \A T : Total(T, s) = Tally(T, b)
  <2> TAKE T
  <2>1. Total(T, s) = TallyUpto(T, s, n)
    BY TotalIs
  <2> QED
    BY <2>1 DEF TallyUpto
<1> HIDE DEF a, b
<1>6. \A T : Tally(T, a) = Tally(T, b)
  BY <1>3, <1>5
<1>7. \A T : (\A e \in ToSet(a) : e \notin T) <=> (\A e \in ToSet(b) : e \notin T)
  <2> TAKE T
  <2>1. Tally(T, a) = 0 <=> \A e \in ToSet(a) : e \notin T
    BY <1>4, TallyZero
  <2>2. Tally(T, b) = 0 <=> \A e \in ToSet(b) : e \notin T
    BY <1>4, TallyZero
  <2> QED
    BY <1>6, <2>1, <2>2
<1>8. ToSet(a) = ToSet(b)
  <2>1. ASSUME NEW x
        PROVE  x \in ToSet(a) <=> x \in ToSet(b)
    <3>1. (\A e \in ToSet(a) : e \notin {x}) <=> (\A e \in ToSet(b) : e \notin {x})
      BY <1>7
    <3> QED
      BY <3>1
  <2> QED
    BY <2>1
<1>9. ToSet(b) \subseteq U
  BY <1>4, TallyZero
<1> QED
  BY <1>2, <1>4, <1>5, <1>8, <1>9 DEF b

Ending(s) == \E n \in Nat : Ends(s, n)

(* A total, and when it is zero or that of another set.                    *)
LEMMA TotalFacts ==
    ASSUME NEW U, Closed(U), NEW s \in Seq(U), Ending(s), NEW T
    PROVE  /\ Total(T, s) \in Nat
           /\ Total(T, s) = 0 <=> \A e \in Reach(s) : e \notin T
           /\ Reach(s) \subseteq U
           /\ \A V : (\A e \in Reach(s) : e \in T <=> e \in V) => Total(T, s) = Total(V, s)
<1>1. PICK n \in Nat : Ends(s, n)
  BY DEF Ending
<1> DEFINE w == Upto(s, n)
<1>2. /\ w \in Seq(U) /\ Reach(s) = ToSet(w) /\ Reach(s) \subseteq U
      /\ \A V : Total(V, s) = Tally(V, w)
  BY <1>1, ReachIs
<1> HIDE DEF w
<1>3. Tally(T, w) \in Nat /\ (Tally(T, w) = 0 <=> \A e \in ToSet(w) : e \notin T)
  BY <1>2, TallyType, TallyZero
<1>4. \A V : (\A e \in ToSet(w) : e \in T <=> e \in V) => Tally(T, w) = Tally(V, w)
  BY TallyAgree
<1> QED
  BY <1>2, <1>3, <1>4

(* EndsThen without the number of levels.                                  *)
LEMMA EndingThen ==
    ASSUME NEW U, Closed(U), NEW s \in Seq(U), NEW t \in Seq(U)
    PROVE  /\ Ending(Then(s, t)) <=> Ending(s) /\ Ending(t)
           /\ Then(s, t) \in Seq(U)
<1>1. Then(s, t) \in Seq(U)
  BY DEF Then
<1>2. ASSUME Ending(s), Ending(t)
      PROVE  Ending(Then(s, t))
  <2>1. PICK n \in Nat, k \in Nat : Ends(s, n) /\ Ends(t, k)
    BY <1>2 DEF Ending
  <2>2. n + k \in Nat /\ n <= n + k /\ k <= n + k
    OBVIOUS
  <2>3. Ends(s, n + k) /\ Ends(t, n + k)
    BY <2>1, <2>2, EndsStays
  <2>4. Ends(Then(s, t), n + k)
    BY <2>2, <2>3, EndsThen
  <2> QED
    BY <2>2, <2>4 DEF Ending
<1>3. ASSUME Ending(Then(s, t))
      PROVE  Ending(s) /\ Ending(t)
  BY <1>3, EndsThen DEF Ending
<1> QED
  BY <1>1, <1>2, <1>3

(* Totals add up, and what is reached is reached by either.                *)
LEMMA Together ==
    ASSUME NEW U, Closed(U), NEW s \in Seq(U), NEW t \in Seq(U), Ending(s), Ending(t)
    PROVE  /\ \A T : Total(T, Then(s, t)) = Total(T, s) + Total(T, t)
           /\ Reach(Then(s, t)) = Reach(s) \cup Reach(t)
<1> DEFINE w == Then(s, t)
<1>1. \A T : Total(T, w) = Total(T, s) + Total(T, t)
  <2>1. PICK n \in Nat, k \in Nat : Ends(s, n) /\ Ends(t, k)
    BY DEF Ending
  <2>2. n + k \in Nat /\ n <= n + k /\ k <= n + k
    OBVIOUS
  <2>3. Ends(s, n + k) /\ Ends(t, n + k)
    BY <2>1, <2>2, EndsStays
  <2> QED
    BY <2>2, <2>3, TotalThen
<1>2. w \in Seq(U) /\ Ending(w)
  BY EndingThen
<1> HIDE DEF w
<1>3. ASSUME NEW x
      PROVE  x \in Reach(w) <=> x \in Reach(s) \/ x \in Reach(t)
  <2>1. Total({x}, w) = 0 <=> x \notin Reach(w)
    BY <1>2, TotalFacts
  <2>2. Total({x}, s) \in Nat /\ (Total({x}, s) = 0 <=> x \notin Reach(s))
    BY TotalFacts
  <2>3. Total({x}, t) \in Nat /\ (Total({x}, t) = 0 <=> x \notin Reach(t))
    BY TotalFacts
  <2> QED
    BY <1>1, <2>1, <2>2, <2>3
<1>4. Reach(w) = Reach(s) \cup Reach(t)
  BY <1>3
<1> QED
  BY <1>1, <1>4 DEF w

(* TotalOne without the number of levels.                                  *)
LEMMA Alone ==
    ASSUME NEW U, Closed(U), NEW e \in U, Ending(Contents(e))
    PROVE  /\ <<e>> \in Seq(U) /\ Ending(<<e>>)
           /\ \A T : Total(T, <<e>>) = (IF e \in T THEN 1 ELSE 0) + Total(T, Contents(e))
           /\ Reach(<<e>>) = {e} \cup Reach(Contents(e))
<1> DEFINE s == <<e>>
           x == Contents(e)
<1>1. s \in Seq(U) /\ x \in Seq(U)
  BY DEF Closed
<1>2. PICK n \in Nat : Ends(x, n)
  BY DEF Ending
<1>3. Ends(s, n + 1) /\ \A T : Total(T, s) = (IF e \in T THEN 1 ELSE 0) + Total(T, x)
  BY <1>2, TotalOne
<1>4. Ending(s) /\ Ending(x)
  <2>1. n + 1 \in Nat
    OBVIOUS
  <2> QED
    BY <1>3, <2>1 DEF Ending
<1> HIDE DEF s, x
<1>5. ASSUME NEW y
      PROVE  y \in Reach(s) <=> y = e \/ y \in Reach(x)
  <2>1. Total({y}, s) = 0 <=> y \notin Reach(s)
    BY <1>1, <1>4, TotalFacts
  <2>2. Total({y}, x) \in Nat /\ (Total({y}, x) = 0 <=> y \notin Reach(x))
    BY <1>1, <1>4, TotalFacts
  <2>3. Total({y}, s) = (IF e \in {y} THEN 1 ELSE 0) + Total({y}, x)
    BY <1>3
  <2> QED
    BY <2>1, <2>2, <2>3
<1>6. Reach(s) = {e} \cup Reach(x)
  BY <1>5
<1> QED
  BY <1>1, <1>3, <1>4, <1>6 DEF s, x

(* No entities at all.                                                     *)
LEMMA Nothing ==
    ASSUME NEW U, Closed(U)
    PROVE  /\ << >> \in Seq(U) /\ Ends(<< >>, 0) /\ Ending(<< >>)
           /\ \A T : Total(T, << >>) = 0
           /\ Reach(<< >>) = {}
<1> DEFINE s == << >>
<1>1. s \in Seq(U)
  OBVIOUS
<1>2. Levels(s)[0] = s /\ 0 \in Nat
  BY <1>1, LevelsAre
<1>3. Ends(s, 0)
  BY <1>2 DEF Ends
<1>4. Upto(s, 0) = << >>
  BY <1>1, <1>2, UptoAre
<1>5. /\ Reach(s) = ToSet(Upto(s, 0))
      /\ \A T : Total(T, s) = Tally(T, Upto(s, 0))
  BY <1>1, <1>2, <1>3, ReachIs
<1>6. ToSet(<< >>) = {}
  BY DEF ToSet
<1>7. \A T : Tally(T, << >>) = 0
  BY TallyEmpty
<1> QED
  BY <1>1, <1>2, <1>3, <1>4, <1>5, <1>6, <1>7 DEF Ending

-----------------------------------------------------------------------------
(* The nodes of a list that ends *)

Cells(mem) == {x \in DOMAIN mem : x > 0}

\* From l on the nodes are s, each once, and NULL is behind the last.
Chain(mem, l, s) ==
    /\ s \in Seq(Cells(mem))
    /\ \A a, b \in 1..Len(s) : s[a] = s[b] => a = b
    /\ l = IF s = <<>> THEN NULL ELSE s[1]
    /\ \A k \in 1..Len(s) : mem[s[k]] = IF k = Len(s) THEN NULL ELSE s[k + 1]

(* Following a list goes through its nodes, then stays at NULL.            *)
LEMMA AfterIs ==
    ASSUME NEW mem, DOMAIN mem \subseteq Int, NEW l, NEW s, Chain(mem, l, s)
    PROVE  \A n \in Nat : After(mem, l)[n] = IF n < Len(s) THEN s[n + 1] ELSE NULL
<1> DEFINE S == {NULL} \cup ToSet(s)
           g == [x \in S |-> NEXT(mem, x)]
           Follows(cell) == cell = [n \in Nat |-> IF n = 0 THEN l ELSE NEXT(mem, cell[n - 1])]
           u == After(mem, l)
<1>1. /\ Len(s) \in Nat /\ DOMAIN s = 1..Len(s)
      /\ \A k \in 1..Len(s) : s[k] \in Int /\ s[k] > 0
  BY DEF Chain, Cells
<1>0. s = <<>> <=> Len(s) = 0
  <2>1. s \in Seq(Cells(mem))
    BY DEF Chain
  <2> QED
    BY <2>1
<1>2. \A k \in 1..Len(s) : NEXT(mem, s[k]) = IF k < Len(s) THEN s[k + 1] ELSE NULL
  <2> TAKE k \in 1..Len(s)
  <2>1. s[k] # NULL
    BY <1>1 DEF NULL
  <2>2. mem[s[k]] = IF k = Len(s) THEN NULL ELSE s[k + 1]
    BY DEF Chain
  <2>3. k = Len(s) <=> ~(k < Len(s))
    <3> DEFINE len == Len(s)
    <3>1. len \in Nat /\ k \in 1..len
      BY <1>1
    <3> HIDE DEF len
    <3>2. k = len <=> ~(k < len)
      BY <3>1
    <3> QED
      BY <3>2 DEF len
  <2> QED
    BY <2>1, <2>2, <2>3 DEF NEXT
<1>3. g \in [S -> S]
  <2>1. ASSUME NEW x \in S
        PROVE  g[x] \in S
    <3>1. CASE x = NULL
      BY <3>1 DEF NEXT
    <3>2. CASE x # NULL
      <4>1. PICK k \in 1..Len(s) : x = s[k]
        BY <1>1, <3>2 DEF ToSet
      <4>2. g[x] = IF k < Len(s) THEN s[k + 1] ELSE NULL
        BY <1>2, <4>1
      <4>3. k < Len(s) => k + 1 \in 1..Len(s)
        BY <1>1
      <4>4. \A j \in 1..Len(s) : s[j] \in S
        BY <1>1 DEF ToSet
      <4> QED
        BY <4>2, <4>3, <4>4
    <3> QED
      BY <3>1, <3>2
  <2> QED
    BY <2>1
<1>4. l \in S
  <2>1. CASE s = <<>>
    BY <2>1 DEF Chain
  <2>2. CASE s # <<>>
    <3>1. 1 \in DOMAIN s
      BY <1>0, <1>1, <2>2
    <3> QED
      BY <2>2, <3>1 DEF Chain, ToSet
  <2> QED
    BY <2>1, <2>2
<1>5. PICK f \in [Nat -> S] : Iterate(f, g, l)
  <2> HIDE DEF g, S
  <2> QED
    BY <1>3, <1>4, Iterates
<1>6. Follows(f)
  <2>1. ASSUME NEW n \in Nat
        PROVE  f[n] = IF n = 0 THEN l ELSE NEXT(mem, f[n - 1])
    <3>1. CASE n = 0
      BY <1>5, <3>1 DEF Iterate
    <3>2. CASE n # 0
      <4>1. n - 1 \in Nat /\ (n - 1) + 1 = n
        BY <3>2
      <4>2. f[n] = g[f[n - 1]] /\ f[n - 1] \in S
        BY <1>5, <4>1 DEF Iterate
      <4>3. \A x \in S : g[x] = NEXT(mem, x)
        OBVIOUS
      <4> HIDE DEF g, S
      <4> QED
        BY <3>2, <4>2, <4>3
    <3> QED
      BY <3>1, <3>2
  <2>2. f = [n \in Nat |-> f[n]]
    OBVIOUS
  <2> QED
    BY <2>1, <2>2
<1>7. Follows(u)
  <2>1. u = CHOOSE cell : Follows(cell)
    BY DEF After
  <2>2. \E cell : Follows(cell)
    BY <1>6
  <2> HIDE DEF Follows
  <2> QED
    BY <2>1, <2>2
<1>8. u[0] = l /\ \A n \in Nat : u[n + 1] = NEXT(mem, u[n])
  <2> HIDE DEF u
  <2>1. \A n \in Nat : n + 1 \in Nat /\ n + 1 # 0 /\ (n + 1) - 1 = n
    OBVIOUS
  <2>2. \A n \in Nat : u[n] = IF n = 0 THEN l ELSE NEXT(mem, u[n - 1])
    BY <1>7
  <2> QED
    BY <2>1, <2>2
<1> DEFINE Bad == {n \in Nat : u[n] # IF n < Len(s) THEN s[n + 1] ELSE NULL}
<1>9. Bad = {}
  <2> SUFFICES ASSUME Bad # {} PROVE FALSE
    OBVIOUS
  <2>1. PICK k \in Bad : \A j \in Bad : k <= j
    BY Least
  <2>2. l = IF 0 < Len(s) THEN s[1] ELSE NULL
    <3>1. l = IF s = <<>> THEN NULL ELSE s[1]
      BY DEF Chain
    <3> QED
      BY <1>0, <1>1, <3>1
  <2> HIDE DEF u
  <2>3. k # 0
    BY <1>8, <2>1, <2>2
  <2>4. PICK j \in Nat : k = j + 1 /\ j \notin Bad
    BY <2>1, <2>3
  <2>5. u[k] = NEXT(mem, u[j]) /\ u[j] = IF j < Len(s) THEN s[j + 1] ELSE NULL
    BY <1>8, <2>4
  <2>6. CASE j < Len(s)
    <3>1. j + 1 \in 1..Len(s)
      BY <1>1, <2>6
    <3>2. NEXT(mem, s[j + 1]) = IF j + 1 < Len(s) THEN s[j + 2] ELSE NULL
      <4>1. (j + 1) + 1 = j + 2
        OBVIOUS
      <4> QED
        BY <1>2, <3>1, <4>1
    <3> QED
      BY <2>1, <2>4, <2>5, <2>6, <3>2
  <2>7. CASE ~(j < Len(s))
    <3>1. u[k] = NULL
      BY <2>5, <2>7 DEF NEXT
    <3>2. ~(k < Len(s))
      BY <1>1, <2>4, <2>7
    <3> QED
      BY <2>1, <3>1, <3>2
  <2> QED
    BY <2>6, <2>7
<1> QED
  BY <1>9

(* Nodes returns the nodes of a list that ends.                            *)
LEMMA NodesOfChain ==
    ASSUME NEW mem, DOMAIN mem \subseteq Int, IsFiniteSet(DOMAIN mem), NEW l, NEW s,
           Chain(mem, l, s)
    PROVE  Nodes(mem, l) = s
<1> DEFINE u   == After(mem, l)
           bnd == Cardinality(DOMAIN mem)
           T   == {n \in 0..bnd : u[n] = NULL}
           len == Len(s)
<1>1. \A n \in Nat : u[n] = IF n < len THEN s[n + 1] ELSE NULL
  BY AfterIs
<1>2. len \in Nat /\ DOMAIN s = 1..len /\ \A k \in 1..len : s[k] \in Int /\ s[k] > 0
  BY DEF Chain, Cells
<1>3. bnd \in Nat
  BY FS_CardinalityType
<1>4. len <= bnd
  <2>1. s \in Injection(1..len, DOMAIN mem)
    <3>1. s \in [1..len -> DOMAIN mem]
      <4>1. s \in Seq(Cells(mem)) /\ Cells(mem) \subseteq DOMAIN mem
        BY DEF Chain, Cells
      <4>2. s \in [1..len -> Cells(mem)]
        BY <4>1
      <4> QED
        BY <4>1, <4>2
    <3>2. \A a, b \in 1..len : s[a] = s[b] => a = b
      BY DEF Chain
    <3> QED
      BY <3>1, <3>2 DEF Injection, IsInjective
  <2>2. Cardinality(1..len) <= bnd
    BY <2>1, FS_Injection
  <2>3. Cardinality(1..len) = len
    <3>1. 1 \in Int /\ len \in Int
      BY <1>2
    <3>2. Cardinality(1..len) = IF 1 > len THEN 0 ELSE len - 1 + 1
      BY <3>1, FS_Interval
    <3> QED
      BY <1>2, <3>2
  <2> QED
    BY <2>2, <2>3
<1> HIDE DEF u, bnd, len
<1>5. len \in T
  BY <1>1, <1>2, <1>3, <1>4
<1>6. \A n \in T : len <= n
  <2> SUFFICES ASSUME NEW n \in T, n < len
               PROVE  FALSE
    BY <1>2, <1>3
  <2>1. n \in Nat /\ n + 1 \in 1..len
    BY <1>2, <1>3
  <2>2. u[n] = s[n + 1]
    BY <1>1, <2>1
  <2>3. u[n] = 0
    BY DEF NULL
  <2>4. s[n + 1] \in Int /\ s[n + 1] > 0
    BY <1>2, <2>1
  <2> QED
    BY <2>2, <2>3, <2>4
<1>7. Min(T) = len
  <2>1. T \subseteq Nat /\ T # {}
    BY <1>3, <1>5
  <2>2. Min(T) \in T /\ \A n \in T : Min(T) <= n
    <3> HIDE DEF T
    <3> QED
      BY <2>1, MinIs
  <2>3. Min(T) <= len /\ len <= Min(T) /\ Min(T) \in Nat
    BY <1>5, <1>6, <2>1, <2>2
  <2> QED
    BY <1>2, <2>3
<1>8. Nodes(mem, l) = [k \in 1..len |-> u[k - 1]]
  BY <1>7 DEF Nodes, bnd, u
<1>9. \A k \in 1..len : u[k - 1] = s[k]
  BY <1>1, <1>2
<1>10. s = [k \in 1..len |-> s[k]]
  BY <1>2 DEF Chain
<1> QED
  BY <1>8, <1>9, <1>10

(* Where its cells are the same, a list is the same.                       *)
LEMMA ChainKept ==
    ASSUME NEW mem, NEW next, NEW l, NEW s, Chain(mem, l, s),
           \A x \in ToSet(s) : x \in DOMAIN next /\ next[x] = mem[x]
    PROVE  Chain(next, l, s)
<1>1. DOMAIN s = 1..Len(s) /\ Len(s) \in Nat /\ s \in Seq(Cells(mem))
  BY DEF Chain
<1>2. \A k \in 1..Len(s) : s[k] \in Cells(mem) /\ s[k] \in DOMAIN next /\ next[s[k]] = mem[s[k]]
  BY <1>1 DEF ToSet
<1>3. \A k \in 1..Len(s) : s[k] \in Cells(next)
  BY <1>2 DEF Cells
<1>4. s \in Seq(Cells(next))
  <2>1. s = [k \in 1..Len(s) |-> s[k]]
    BY <1>1
  <2> QED
    BY <1>1, <1>3, <2>1
<1> QED
  BY <1>2, <1>4 DEF Chain

(* A node before a list is one more of it.                                 *)
LEMMA ChainPushed ==
    ASSUME NEW mem, NEW next, NEW l, NEW s, Chain(mem, l, s),
           NEW x, x \in Cells(next), x \notin ToSet(s), next[x] = l,
           \A y \in ToSet(s) : y \in DOMAIN next /\ next[y] = mem[y]
    PROVE  Chain(next, x, <<x>> \o s)
<1>1. Chain(next, l, s)
  BY ChainKept
<1> DEFINE n == Len(s)
           t == <<x>> \o s
<1>2. s \in Seq(Cells(next)) /\ n \in Nat /\ DOMAIN s = 1..n
  BY <1>1 DEF Chain
<1>3. t \in Seq(Cells(next)) /\ Len(t) = n + 1
  BY <1>2
<1>4. t[1] = x /\ \A k \in 1..n : t[k + 1] = s[k]
  BY <1>2
<1>45. \A k \in 1..(n + 1) : k = 1 \/ \E j \in 1..n : k = j + 1
  <2> TAKE k \in 1..(n + 1)
  <2>1. CASE k # 1
    <3>1. k - 1 \in 1..n /\ k = (k - 1) + 1
      BY <1>2, <2>1
    <3> QED
      BY <3>1
  <2> QED
    BY <2>1
<1>5. \A k \in 1..n : s[k] # x
  BY <1>2 DEF ToSet
<1>6. /\ \A a, b \in 1..n : s[a] = s[b] => a = b
      /\ l = IF s = <<>> THEN NULL ELSE s[1]
      /\ \A k \in 1..n : next[s[k]] = IF k = n THEN NULL ELSE s[k + 1]
  BY <1>1 DEF Chain
<1>7. s = <<>> <=> n = 0
  BY <1>2
<1>8. t # <<>>
  BY <1>2, <1>3
<1> HIDE DEF n, t
<1>9. ASSUME NEW a \in 1..Len(t), NEW b \in 1..Len(t), t[a] = t[b]
      PROVE  a = b
  <2>1. (a = 1 \/ \E j \in 1..n : a = j + 1) /\ (b = 1 \/ \E j \in 1..n : b = j + 1)
    BY <1>3, <1>45
  <2> QED
    BY <1>4, <1>5, <1>6, <1>9, <2>1
<1>10. ASSUME NEW k \in 1..Len(t)
       PROVE  next[t[k]] = IF k = Len(t) THEN NULL ELSE t[k + 1]
  <2>1. CASE k = 1
    <3>1. CASE n = 0
      BY <1>3, <1>4, <1>6, <1>7, <2>1, <3>1
    <3>2. CASE n # 0
      <4>1. 1 \in 1..n /\ k # n + 1
        BY <1>2, <2>1, <3>2
      <4>2. t[2] = s[1]
        BY <1>4, <4>1
      <4> QED
        BY <1>3, <1>4, <1>6, <1>7, <2>1, <3>2, <4>1, <4>2
    <3> QED
      BY <3>1, <3>2
  <2>2. CASE k # 1
    <3>1. PICK j \in 1..n : k = j + 1
      BY <1>3, <1>45, <2>2
    <3>2. t[k] = s[j]
      BY <1>4, <3>1
    <3>3. next[s[j]] = IF j = n THEN NULL ELSE s[j + 1]
      BY <1>6
    <3>4. j # n => j + 1 \in 1..n
      BY <1>2
    <3>5. j # n => t[k + 1] = s[j + 1]
      BY <1>4, <3>1, <3>4
    <3>6. k = Len(t) <=> j = n
      BY <1>2, <1>3, <3>1
    <3> QED
      BY <3>2, <3>3, <3>5, <3>6
  <2> QED
    BY <2>1, <2>2
<1>11. Chain(next, x, t)
  BY <1>3, <1>4, <1>8, <1>9, <1>10 DEF Chain
<1> QED
  BY <1>11 DEF t

-----------------------------------------------------------------------------
(* A set with all that the parser handles: entities, their members, frames *)

Valued(U) == {x \in U : Is("value", x)}

\* All that is in x is in U.
Fits(U, x) ==
    /\ Is("arr", x) => x.arr \in Seq(U)
    /\ Is("kvs", x) => x.kvs \in Seq(Valued(U)) /\ Allocated(x)
    /\ Is("value", x) => x.value \in U

Sane(U) == NoEntity \in U /\ \A x \in U : Fits(U, x)

(* A sequence over a set is one over a larger set.                         *)
LEMMA SeqWider ==
    ASSUME NEW U, NEW V, U \subseteq V, NEW s \in Seq(U)
    PROVE  s \in Seq(V)
OBVIOUS

(* What is in the entities of such a set is in the set.                    *)
LEMMA SaneClosed ==
    ASSUME NEW U, Sane(U)
    PROVE  Closed(U)
<1> SUFFICES ASSUME NEW e \in U
             PROVE  Contents(e) \in Seq(U)
  BY DEF Closed
<1>1. CASE Is("arr", e)
  BY <1>1 DEF Sane, Fits, Contents
<1>2. CASE ~Is("arr", e) /\ Is("kvs", e)
  <2> DEFINE s == e.kvs
             M == Valued(U)
  <2>1. s \in Seq(M)
    BY <1>2 DEF Sane, Fits
  <2>2. \A x \in M : x.value \in U
    BY DEF Sane, Fits, Valued
  <2>3. Contents(e) = [k \in DOMAIN s |-> s[k].value]
    BY <1>2 DEF Contents
  <2> HIDE DEF s, M
  <2>4. DOMAIN s = 1..Len(s) /\ Len(s) \in Nat /\ \A k \in 1..Len(s) : s[k] \in M
    BY <2>1
  <2>5. [k \in DOMAIN s |-> s[k].value] \in Seq(U)
    BY <2>2, <2>4
  <2> QED
    BY <2>3, <2>5
<1>3. CASE ~Is("arr", e) /\ ~Is("kvs", e)
  BY <1>3 DEF Contents
<1> QED
  BY <1>1, <1>2, <1>3

(* Such a set can grow by what is made of its elements.                    *)
LEMMA Grown ==
    ASSUME NEW U, Sane(U), NEW x, Fits(U, x)
    PROVE  Sane(U \cup {x})
<1> DEFINE V == U \cup {x}
<1>1. U \subseteq V /\ Valued(U) \subseteq Valued(V)
  BY DEF Valued
<1> SUFFICES ASSUME NEW e \in V
             PROVE  Fits(V, e)
  BY DEF Sane
<1>2. Fits(U, e)
  BY DEF Sane
<1> HIDE DEF V
<1>3. Is("arr", e) => e.arr \in Seq(V)
  BY <1>1, <1>2, SeqWider DEF Fits
<1>4. Is("kvs", e) => e.kvs \in Seq(Valued(V)) /\ Allocated(e)
  BY <1>1, <1>2, SeqWider DEF Fits
<1> QED
  BY <1>1, <1>2, <1>3, <1>4 DEF Fits

-----------------------------------------------------------------------------
(* The open calls *)

Frame(f) == Is("arr", f) <=> ~Is("kvs", f)

\* The entity that the call at depth k makes.
OpenEnt(f, k, mem) ==
    IF "kvs" \in DOMAIN f THEN json_new_obj(f.kvs, mem[KeysOf(k)]) ELSE json_new_arr(f.arr)

Opened(open, mem) == [k \in DOMAIN open |-> OpenEnt(open[k], k, mem)]

(* The entity that an open call is making.                                 *)
LEMMA OpenEntIs ==
    ASSUME NEW U, Sane(U), NEW f \in U, Frame(f), NEW k, NEW mem
    PROVE  LET e == OpenEnt(f, k, mem) IN
           /\ Fits(U, e)
           /\ Contents(e) = Contents(f)
           /\ Allocated(e)
           /\ Is("kvs", e) <=> Is("kvs", f)
           /\ Is("kvs", e) => e.keys = mem[KeysOf(k)]
<1> DEFINE e == OpenEnt(f, k, mem)
<1>1. CASE Is("kvs", f)
  <2>1. f.kvs \in Seq(Valued(U)) /\ ~Is("arr", f)
    BY <1>1 DEF Sane, Fits, Frame
  <2>2. e = [kvs |-> f.kvs, keys |-> mem[KeysOf(k)]]
    BY <1>1 DEF OpenEnt, json_new_obj, Is
  <2> HIDE DEF e
  <2>3. DOMAIN e = {"kvs", "keys"} /\ e.kvs = f.kvs /\ e.keys = mem[KeysOf(k)]
    BY <2>2
  <2>4. Is("kvs", e) /\ ~Is("arr", e) /\ ~Is("value", e) /\ Allocated(e)
    BY <2>3 DEF Is, Allocated
  <2>5. Contents(e) = Contents(f)
    BY <1>1, <2>1, <2>3, <2>4 DEF Contents
  <2> QED
    BY <1>1, <2>1, <2>3, <2>4, <2>5 DEF Fits, e
<1>2. CASE ~Is("kvs", f)
  <2>1. f.arr \in Seq(U) /\ Is("arr", f)
    BY <1>2 DEF Sane, Fits, Frame
  <2>2. e = [arr |-> f.arr]
    BY <1>2 DEF OpenEnt, json_new_arr, Is
  <2> HIDE DEF e
  <2>3. DOMAIN e = {"arr"} /\ e.arr = f.arr
    BY <2>2
  <2>4. ~Is("kvs", e) /\ Is("arr", e) /\ ~Is("value", e) /\ Allocated(e)
    BY <2>3 DEF Is, Allocated
  <2>5. Contents(e) = Contents(f)
    BY <2>1, <2>3, <2>4 DEF Contents
  <2> QED
    BY <1>2, <2>1, <2>3, <2>4, <2>5 DEF Fits, e
<1> QED
  BY <1>1, <1>2

\* What json_parse_value returns is put into the frame of the call around it.
Got(top, ent) ==
    IF "kvs" \in DOMAIN top
    THEN [top EXCEPT !.kvs = Append(@, [key |-> top.key, value |-> ent])]
    ELSE IF Is("none", ent) THEN top ELSE [top EXCEPT !.arr = Append(@, ent)]

(* The frame of a call that a value has been returned to.                  *)
LEMMA GotIs ==
    ASSUME NEW U, Sane(U), NEW f \in U, Frame(f), NEW e \in U
    PROVE  \E V : /\ U \subseteq V /\ Sane(V) /\ Got(f, e) \in V
                  /\ Frame(Got(f, e)) /\ (Is("kvs", Got(f, e)) <=> Is("kvs", f))
                  /\ Contents(Got(f, e)) = IF ~Is("kvs", f) /\ Is("none", e) THEN Contents(f)
                                           ELSE Then(Contents(f), <<e>>)
<1> DEFINE g == Got(f, e)
<1>1. CASE Is("kvs", f)
  <2> DEFINE x == [key |-> f.key, value |-> e]
             W == U \cup {x}
             V == W \cup {g}
             a == f.kvs
             b == Append(a, x)
  <2>1. Fits(U, x)
    BY DEF Fits, Is
  <2>2. Sane(W) /\ U \subseteq W /\ x \in W
    BY <2>1, Grown
  <2>3. x \in Valued(W) /\ x.value = e
    BY <2>2 DEF Valued, Is
  <2>4. a \in Seq(Valued(U)) /\ ~Is("arr", f) /\ Allocated(f)
    BY <1>1 DEF Sane, Fits, Frame
  <2>5. a \in Seq(Valued(W))
    <3>1. Valued(U) \subseteq Valued(W)
      BY <2>2 DEF Valued
    <3> HIDE DEF W, a
    <3> QED
      BY <2>4, <3>1, SeqWider
  <2>6. DOMAIN g = DOMAIN f /\ g.kvs = b /\ \A y \in DOMAIN f : y # "kvs" => g[y] = f[y]
    BY <1>1 DEF Got, Is
  <2> HIDE DEF g, x
  <2>7. b \in Seq(Valued(W))
    <3> HIDE DEF W, a
    <3> QED
      BY <2>3, <2>5
  <2>8. Is("kvs", g) /\ ~Is("arr", g) /\ Allocated(g) /\ (Is("value", g) => g.value \in W)
    <3>1. Is("value", f) => f.value \in W
      BY <2>2 DEF Sane, Fits
    <3> HIDE DEF W
    <3> QED
      BY <1>1, <2>4, <2>6, <3>1 DEF Is, Allocated
  <2>9. Fits(W, g)
    <3> HIDE DEF W, b
    <3> QED
      BY <2>6, <2>7, <2>8 DEF Fits
  <2>10. Sane(V) /\ U \subseteq V /\ g \in V
    <3> HIDE DEF W
    <3> QED
      BY <2>2, <2>9, Grown
  <2>11. Contents(g) = Then(Contents(f), <<e>>)
    <3> DEFINE u == [k \in DOMAIN a |-> a[k].value]
               d == [k \in DOMAIN b |-> b[k].value]
    <3>1. Contents(f) = u
      BY <1>1, <2>4 DEF Contents
    <3>2. Contents(g) = d
      BY <2>6, <2>8 DEF Contents
    <3>3. Closed(U) /\ u \in Seq(U)
      BY <3>1, SaneClosed DEF Closed
    <3> HIDE DEF a
    <3>4. DOMAIN a = 1..Len(a) /\ Len(a) \in Nat /\ Len(u) = Len(a)
      BY <2>5
    <3>5. DOMAIN b = 1..(Len(a) + 1) /\ \A k \in 1..(Len(a) + 1) : b[k] = IF k = Len(a) + 1 THEN x ELSE a[k]
      BY <2>5, <2>3
    <3> HIDE DEF b
    <3>6. /\ DOMAIN d = 1..(Len(a) + 1)
          /\ \A k \in 1..(Len(a) + 1) : d[k] = IF k = Len(a) + 1 THEN e ELSE u[k]
      BY <2>3, <3>4, <3>5
    <3>7. Append(u, e) \in Seq(U) /\ Len(Append(u, e)) = Len(a) + 1
      BY <3>3, <3>4
    <3>8. \A k \in 1..(Len(a) + 1) : Append(u, e)[k] = IF k = Len(a) + 1 THEN e ELSE u[k]
      <4> HIDE DEF u
      <4> QED
        BY <3>3, <3>4
    <3>9. d = [k \in 1..(Len(a) + 1) |-> d[k]]
      BY <3>6
    <3> HIDE DEF d, u
    <3>10. Append(u, e) = [k \in 1..(Len(a) + 1) |-> Append(u, e)[k]]
      <4> DEFINE q == Append(u, e)
      <4>1. q \in Seq(U) /\ Len(q) = Len(a) + 1
        BY <3>7
      <4> HIDE DEF q
      <4>2. q = [k \in 1..(Len(a) + 1) |-> q[k]]
        BY <4>1
      <4> QED
        BY <4>2 DEF q
    <3>11. d = Append(u, e)
      BY <3>6, <3>8, <3>9, <3>10
    <3>12. Append(u, e) = u \o <<e>>
      BY <3>3
    <3> QED
      BY <3>1, <3>2, <3>11, <3>12 DEF Then
  <2>12. Frame(g)
    BY <2>8 DEF Frame
  <2> QED
    BY <1>1, <2>8, <2>10, <2>11, <2>12 DEF g
<1>2. CASE ~Is("kvs", f) /\ Is("none", e)
  <2>1. g = f
    BY <1>2 DEF Got, Is
  <2> QED
    BY <1>2, <2>1
<1>3. CASE ~Is("kvs", f) /\ ~Is("none", e)
  <2> DEFINE a == f.arr
             b == Append(a, e)
             V == U \cup {g}
  <2>1. a \in Seq(U) /\ Is("arr", f)
    BY <1>3 DEF Sane, Fits, Frame
  <2>2. DOMAIN g = DOMAIN f /\ g.arr = b /\ \A y \in DOMAIN f : y # "arr" => g[y] = f[y]
    BY <1>3, <2>1 DEF Got, Is
  <2> HIDE DEF g, a
  <2>3. b \in Seq(U) /\ b = a \o <<e>>
    BY <2>1
  <2>4. Is("arr", g) /\ ~Is("kvs", g) /\ (Is("value", g) => g.value \in U)
    <3>1. Is("value", f) => f.value \in U
      BY DEF Sane, Fits
    <3> QED
      BY <1>3, <2>1, <2>2, <3>1 DEF Is
  <2> HIDE DEF b
  <2>5. Fits(U, g)
    BY <2>2, <2>3, <2>4 DEF Fits
  <2>6. Sane(V) /\ U \subseteq V /\ g \in V
    BY <2>5, Grown
  <2>7. Contents(g) = b /\ Contents(f) = a
    BY <2>1, <2>2, <2>4 DEF Contents, a
  <2>8. Frame(g)
    BY <2>4 DEF Frame
  <2> QED
    BY <1>3, <2>3, <2>4, <2>6, <2>7, <2>8 DEF g, Then
<1> QED
  BY <1>1, <1>2, <1>3

-----------------------------------------------------------------------------
(* Who owns what *)

Allocs(U) == {e \in U : Allocated(e)}

\* The objects with x in their list of keys, and those whose list is broken.
Having(U, mem, x) == {e \in U : Is("kvs", e) /\ x \in ToSet(Nodes(mem, e.keys))}
Lost(U, mem)      == {e \in U : Is("kvs", e) /\ ~\E s : Chain(mem, e.keys, s)}

\* Of n entities and the nodes each is there once, from R on.
Owned(U, R, mem, n) ==
    /\ Total(Allocs(U), R) = n
    /\ Total(Lost(U, mem), R) = 0
    /\ \A x \in Cells(mem) : Total(Having(U, mem, x), R) = 1

Memory(mem) == DOMAIN mem \subseteq Int /\ IsFiniteSet(DOMAIN mem)

\* The entities e and f own the same.
Like(e, f) ==
    /\ Allocated(e) /\ Allocated(f)
    /\ Is("kvs", e) <=> Is("kvs", f)
    /\ Is("kvs", e) => e.keys = f.keys

Fair(U, T) == T \subseteq Allocs(U) /\ \A e \in T, f \in U : Like(e, f) => f \in T

(* The three sets that Owned counts.                                       *)
LEMMA FairSets ==
    ASSUME NEW U, Sane(U), NEW mem
    PROVE  /\ Fair(U, Allocs(U))
           /\ Fair(U, Lost(U, mem))
           /\ \A x : Fair(U, Having(U, mem, x))
<1>1. \A e \in U : Is("kvs", e) => Allocated(e)
  BY DEF Sane, Fits
<1>2. Fair(U, Allocs(U))
  BY DEF Fair, Allocs, Like
<1>3. Fair(U, Lost(U, mem))
  BY <1>1 DEF Fair, Allocs, Lost, Like
<1>4. ASSUME NEW x
      PROVE  Fair(U, Having(U, mem, x))
  BY <1>1 DEF Fair, Allocs, Having, Like
<1> QED
  BY <1>2, <1>3, <1>4

(* TotalFacts, for every set.                                              *)
LEMMA ReachFacts ==
    ASSUME NEW U, Sane(U), NEW R \in Seq(U), Ending(R)
    PROVE  /\ Reach(R) \subseteq U
           /\ \A T : Total(T, R) \in Nat
           /\ \A T : Total(T, R) = 0 <=> \A e \in Reach(R) : e \notin T
           /\ \A T, V : (\A e \in Reach(R) : e \in T <=> e \in V) => Total(T, R) = Total(V, R)
<1>1. Closed(U)
  BY SaneClosed
<1> QED
  BY <1>1, TotalFacts

(* The larger set has the same owners.                                     *)
LEMMA OwnedWider ==
    ASSUME NEW U, NEW V, Sane(U), Sane(V), U \subseteq V, NEW R \in Seq(U), Ending(R),
           NEW mem, NEW n, Owned(U, R, mem, n)
    PROVE  Owned(V, R, mem, n)
<1>1. /\ Reach(R) \subseteq U
      /\ \A S, T : (\A e \in Reach(R) : e \in T <=> e \in S) => Total(T, R) = Total(S, R)
  BY ReachFacts
<1>2. Total(Allocs(V), R) = Total(Allocs(U), R)
  <2>1. \A e \in Reach(R) : e \in Allocs(V) <=> e \in Allocs(U)
    BY <1>1 DEF Allocs
  <2> QED
    BY <1>1, <2>1
<1>3. Total(Lost(V, mem), R) = Total(Lost(U, mem), R)
  <2>1. \A e \in Reach(R) : e \in Lost(V, mem) <=> e \in Lost(U, mem)
    BY <1>1 DEF Lost
  <2> QED
    BY <1>1, <2>1
<1>4. ASSUME NEW x
      PROVE  Total(Having(V, mem, x), R) = Total(Having(U, mem, x), R)
  <2>1. \A e \in Reach(R) : e \in Having(V, mem, x) <=> e \in Having(U, mem, x)
    BY <1>1 DEF Having
  <2> QED
    BY <1>1, <2>1
<1> QED
  BY <1>2, <1>3, <1>4 DEF Owned

\* R has what Q has and e.
Adds(U, R, Q, e) ==
    \A T : Fair(U, T) => Total(T, R) = Total(T, Q) + (IF e \in T THEN 1 ELSE 0)

(* NULL is the list without nodes.                                         *)
LEMMA EmptyList ==
    ASSUME NEW mem, Memory(mem)
    PROVE  Chain(mem, NULL, <<>>) /\ Nodes(mem, NULL) = <<>>
<1>1. Chain(mem, NULL, <<>>)
  BY DEF Chain
<1>2. Nodes(mem, NULL) = <<>>
  BY <1>1, NodesOfChain DEF Memory
<1> QED
  BY <1>1, <1>2

(* One entity more, that has no keys yet.                                  *)
LEMMA OwnedAdds ==
    ASSUME NEW U, Sane(U), NEW R, NEW Q, NEW e \in U, NEW mem, Memory(mem), NEW n \in Int,
           Adds(U, R, Q, e), Owned(U, Q, mem, n), Is("kvs", e) => e.keys = NULL
    PROVE  Owned(U, R, mem, n + (IF Allocated(e) THEN 1 ELSE 0))
<1>1. Chain(mem, NULL, <<>>) /\ Nodes(mem, NULL) = <<>>
  BY EmptyList
<1>2. e \in Allocs(U) <=> Allocated(e)
  BY DEF Allocs
<1>3. e \notin Lost(U, mem)
  BY <1>1 DEF Lost
<1>4. \A x : e \notin Having(U, mem, x)
  <2>1. ToSet(<<>>) = {}
    BY DEF ToSet
  <2> QED
    BY <1>1, <2>1 DEF Having
<1>5. Fair(U, Allocs(U)) /\ Fair(U, Lost(U, mem)) /\ \A x : Fair(U, Having(U, mem, x))
  BY FairSets
<1>6. Total(Allocs(U), R) = n + (IF Allocated(e) THEN 1 ELSE 0)
  BY <1>2, <1>5 DEF Adds, Owned
<1>7. Total(Lost(U, mem), R) = 0
  BY <1>3, <1>5 DEF Adds, Owned
<1>8. \A x \in Cells(mem) : Total(Having(U, mem, x), R) = 1
  BY <1>4, <1>5 DEF Adds, Owned
<1> QED
  BY <1>6, <1>7, <1>8 DEF Owned

(* ChainKept, for Nodes.                                                   *)
LEMMA Kept ==
    ASSUME NEW mem, Memory(mem), NEW next, Memory(next), NEW l, NEW s, Chain(mem, l, s),
           \A x \in ToSet(s) : x \in DOMAIN next /\ next[x] = mem[x]
    PROVE  Chain(next, l, s) /\ Nodes(next, l) = s /\ Nodes(mem, l) = s
           /\ ToSet(s) \subseteq Cells(mem)
<1>1. Chain(next, l, s)
  BY ChainKept
<1>2. Nodes(next, l) = s /\ Nodes(mem, l) = s
  BY <1>1, NodesOfChain DEF Memory
<1>3. ToSet(s) \subseteq Cells(mem)
  BY DEF Chain, ToSet
<1> QED
  BY <1>1, <1>2, <1>3

(* The nodes of a list are allocated.                                      *)
LEMMA ChainCells ==
    ASSUME NEW mem, NEW l, NEW s, Chain(mem, l, s)
    PROVE  ToSet(s) \subseteq Cells(mem)
BY DEF Chain, ToSet

(* Other cells than those of the lists do not matter.                      *)
LEMMA OwnedMemory ==
    ASSUME NEW U, Sane(U), NEW R \in Seq(U), Ending(R), NEW n,
           NEW mem, Memory(mem), NEW next, Memory(next),
           Owned(U, R, mem, n), Cells(next) = Cells(mem),
           \A x \in Cells(mem) : next[x] = mem[x]
    PROVE  Owned(U, R, next, n)
<1>1. /\ Reach(R) \subseteq U
      /\ \A T : Total(T, R) = 0 <=> \A e \in Reach(R) : e \notin T
      /\ \A T, V : (\A e \in Reach(R) : e \in T <=> e \in V) => Total(T, R) = Total(V, R)
  BY ReachFacts
<1>2. ASSUME NEW e \in Reach(R), Is("kvs", e)
      PROVE  (\E s : Chain(next, e.keys, s)) /\ Nodes(next, e.keys) = Nodes(mem, e.keys)
  <2>1. e \notin Lost(U, mem)
    BY <1>1 DEF Owned
  <2>2. PICK s : Chain(mem, e.keys, s)
    BY <1>1, <1>2, <2>1 DEF Lost
  <2>3. ToSet(s) \subseteq Cells(mem)
    BY <2>2, ChainCells
  <2>4. \A x \in ToSet(s) : x \in DOMAIN next /\ next[x] = mem[x]
    BY <2>3 DEF Cells
  <2>5. Chain(next, e.keys, s) /\ Nodes(next, e.keys) = s /\ Nodes(mem, e.keys) = s
    BY <2>2, <2>4, Kept
  <2> QED
    BY <2>5
<1>3. Total(Lost(U, next), R) = 0
  <2>1. \A e \in Reach(R) : e \notin Lost(U, next)
    BY <1>2 DEF Lost
  <2> QED
    BY <1>1, <2>1
<1>4. ASSUME NEW x \in Cells(next)
      PROVE  Total(Having(U, next, x), R) = 1
  <2>1. \A e \in Reach(R) : e \in Having(U, next, x) <=> e \in Having(U, mem, x)
    BY <1>2 DEF Having
  <2>2. Total(Having(U, next, x), R) = Total(Having(U, mem, x), R)
    BY <1>1, <2>1
  <2> QED
    BY <2>2 DEF Owned
<1> QED
  BY <1>3, <1>4 DEF Owned

(* A node is pushed to the list of one of the objects.                     *)
LEMMA OwnedPush ==
    ASSUME NEW U, Sane(U), NEW R, NEW P, NEW Q \in Seq(U), Ending(Q), NEW n,
           NEW mem, Memory(mem), NEW next, Memory(next),
           NEW d \in U, NEW e \in U, Adds(U, P, Q, d), Adds(U, R, Q, e),
           Is("kvs", d), Is("kvs", e), Owned(U, P, mem, n),
           NEW y, y \notin Cells(mem), e.keys = y, next[y] = d.keys,
           Cells(next) = Cells(mem) \cup {y}, \A x \in Cells(mem) : next[x] = mem[x]
    PROVE  Owned(U, R, next, n)
<1>1. /\ Reach(Q) \subseteq U
      /\ \A T : Total(T, Q) \in Nat
      /\ \A T : Total(T, Q) = 0 <=> \A x \in Reach(Q) : x \notin T
      /\ \A T, V : (\A x \in Reach(Q) : x \in T <=> x \in V) => Total(T, Q) = Total(V, Q)
  BY ReachFacts
<1>2. Fair(U, Allocs(U)) /\ Fair(U, Lost(U, mem)) /\ \A x : Fair(U, Having(U, mem, x))
  BY FairSets
<1>3. Fair(U, Lost(U, next)) /\ \A x : Fair(U, Having(U, next, x))
  BY FairSets
<1>4. d \in Allocs(U) /\ e \in Allocs(U)
  BY DEF Sane, Fits, Allocs
<1>5. Total(Allocs(U), R) = n
  BY <1>2, <1>4 DEF Adds, Owned
<1>6. Total(Lost(U, mem), Q) = 0 /\ d \notin Lost(U, mem)
  BY <1>1, <1>2 DEF Adds, Owned
<1>7. ASSUME NEW l, NEW s, Chain(mem, l, s)
      PROVE  /\ Chain(next, l, s) /\ Nodes(next, l) = s /\ Nodes(mem, l) = s
             /\ ToSet(s) \subseteq Cells(mem)
  <2>1. ToSet(s) \subseteq Cells(mem)
    BY <1>7, ChainCells
  <2>2. \A x \in ToSet(s) : x \in DOMAIN next /\ next[x] = mem[x]
    BY <2>1 DEF Cells
  <2> QED
    BY <1>7, <2>2, Kept
<1>8. ASSUME NEW x \in Reach(Q), Is("kvs", x)
      PROVE  \E s : Chain(mem, x.keys, s)
  BY <1>1, <1>6, <1>8 DEF Lost
<1>9. PICK s : Chain(mem, d.keys, s)
  BY <1>6 DEF Lost
<1> DEFINE t == <<y>> \o s
<1>10. Chain(next, y, t)
  <2>1. ToSet(s) \subseteq Cells(mem)
    BY <1>9, ChainCells
  <2>2. \A x \in ToSet(s) : x \in DOMAIN next /\ next[x] = mem[x]
    BY <2>1 DEF Cells
  <2>3. y \in Cells(next) /\ y \notin ToSet(s)
    BY <2>1
  <2> QED
    BY <1>9, <2>2, <2>3, ChainPushed
<1>11. Nodes(next, y) = t
  BY <1>10, NodesOfChain DEF Memory
<1>12. ToSet(t) = {y} \cup ToSet(s)
  <2>1. s \in Seq(Cells(mem))
    BY <1>9 DEF Chain
  <2> DEFINE len == Len(s)
  <2>2. len \in Nat /\ DOMAIN s = 1..len
    BY <2>1
  <2>3. DOMAIN t = 1..(len + 1) /\ t[1] = y /\ \A k \in 1..len : t[k + 1] = s[k]
    BY <2>1
  <2> HIDE DEF t, len
  <2>4. \A k \in 1..(len + 1) : k = 1 \/ \E j \in 1..len : k = j + 1
    <3> TAKE k \in 1..(len + 1)
    <3>1. CASE k # 1
      <4>1. k - 1 \in 1..len /\ k = (k - 1) + 1
        BY <2>2, <3>1
      <4> QED
        BY <4>1
    <3> QED
      BY <3>1
  <2>5. 1 \in 1..(len + 1) /\ \A j \in 1..len : j + 1 \in 1..(len + 1)
    BY <2>2
  <2>6. ASSUME NEW x
        PROVE  x \in ToSet(t) <=> x = y \/ x \in ToSet(s)
    <3>1. x \in ToSet(t) <=> \E k \in 1..(len + 1) : x = t[k]
      BY <2>3 DEF ToSet
    <3>2. x \in ToSet(s) <=> \E k \in 1..len : x = s[k]
      BY <2>2 DEF ToSet
    <3> QED
      BY <2>3, <2>4, <2>5, <3>1, <3>2
  <2> QED
    BY <2>6
<1> HIDE DEF t
<1>13. Total(Lost(U, next), R) = 0
  <2>1. \A x \in Reach(Q) : x \notin Lost(U, next)
    BY <1>7, <1>8 DEF Lost
  <2>2. e \notin Lost(U, next)
    BY <1>10 DEF Lost
  <2>3. Total(Lost(U, next), Q) = 0
    BY <1>1, <2>1
  <2> QED
    BY <1>3, <2>2, <2>3 DEF Adds
<1>14. ASSUME NEW x \in Cells(next)
       PROVE  Total(Having(U, next, x), R) = 1
  <2>1. \A f \in Reach(Q) : f \in Having(U, next, x) <=> f \in Having(U, mem, x)
    BY <1>7, <1>8 DEF Having
  <2>2. Total(Having(U, next, x), Q) = Total(Having(U, mem, x), Q)
    BY <1>1, <2>1
  <2>3. Total(Having(U, next, x), R)
            = Total(Having(U, next, x), Q) + (IF e \in Having(U, next, x) THEN 1 ELSE 0)
    BY <1>3 DEF Adds
  <2>4. e \in Having(U, next, x) <=> x = y \/ x \in ToSet(s)
    BY <1>11, <1>12 DEF Having
  <2>5. d \in Having(U, mem, x) <=> x \in ToSet(s)
    <3>1. Nodes(mem, d.keys) = s
      BY <1>7, <1>9
    <3> QED
      BY <3>1 DEF Having
  <2>6. CASE x = y
    <3>1. \A f \in Reach(Q) : f \notin Having(U, mem, x)
      BY <1>7, <1>8, <2>6 DEF Having
    <3>2. Total(Having(U, mem, x), Q) = 0
      BY <1>1, <3>1
    <3> QED
      BY <2>2, <2>3, <2>4, <2>6, <3>2
  <2>7. CASE x # y
    <3>1. x \in Cells(mem)
      BY <2>7
    <3>2. Total(Having(U, mem, x), P) = 1
      BY <3>1 DEF Owned
    <3>3. Total(Having(U, mem, x), P)
              = Total(Having(U, mem, x), Q) + (IF d \in Having(U, mem, x) THEN 1 ELSE 0)
      BY <1>2 DEF Adds
    <3> QED
      BY <2>2, <2>3, <2>4, <2>5, <2>7, <3>2, <3>3
  <2> QED
    BY <2>6, <2>7
<1> QED
  BY <1>5, <1>13, <1>14 DEF Owned

(* Of what P owns, F and its lists are freed, and Q is left.               *)
LEMMA OwnedFree ==
    ASSUME NEW U, Sane(U), NEW P, NEW Q \in Seq(U), Ending(Q), NEW F \in Seq(U), Ending(F),
           NEW n \in Int, NEW mem, Memory(mem), NEW next, Memory(next),
           \A T : Fair(U, T) => Total(T, P) = Total(T, Q) + Total(T, F),
           Owned(U, P, mem, n),
           NEW gone, \A x : x \in gone <=> \E e \in Reach(F) : Is("kvs", e) /\ x \in ToSet(Nodes(mem, e.keys)),
           DOMAIN next = DOMAIN mem \ gone, \A x \in DOMAIN next : next[x] = mem[x]
    PROVE  Owned(U, Q, next, n - Total(Allocs(U), F))
<1>1. /\ Reach(Q) \subseteq U
      /\ \A T : Total(T, Q) \in Nat
      /\ \A T : Total(T, Q) = 0 <=> \A x \in Reach(Q) : x \notin T
      /\ \A T, V : (\A x \in Reach(Q) : x \in T <=> x \in V) => Total(T, Q) = Total(V, Q)
  BY ReachFacts
<1>2. /\ Reach(F) \subseteq U
      /\ \A T : Total(T, F) \in Nat
      /\ \A T : Total(T, F) = 0 <=> \A x \in Reach(F) : x \notin T
  BY ReachFacts
<1>3. Fair(U, Allocs(U)) /\ Fair(U, Lost(U, mem)) /\ \A x : Fair(U, Having(U, mem, x))
  BY FairSets
<1>4. Total(Allocs(U), Q) = n - Total(Allocs(U), F)
  BY <1>1, <1>2, <1>3 DEF Owned
<1>5. Total(Lost(U, mem), Q) = 0
  <2>1. Total(Lost(U, mem), P) = Total(Lost(U, mem), Q) + Total(Lost(U, mem), F)
    BY <1>3
  <2>2. Total(Lost(U, mem), P) = 0
    BY DEF Owned
  <2>3. Total(Lost(U, mem), Q) \in Nat /\ Total(Lost(U, mem), F) \in Nat
    BY <1>1, <1>2
  <2> QED
    BY <2>1, <2>2, <2>3
<1>6. ASSUME NEW x \in Cells(mem)
      PROVE  /\ Total(Having(U, mem, x), Q) + Total(Having(U, mem, x), F) = 1
             /\ x \in gone <=> Total(Having(U, mem, x), F) # 0
  <2>1. Total(Having(U, mem, x), Q) + Total(Having(U, mem, x), F) = 1
    BY <1>3 DEF Owned
  <2>2. Total(Having(U, mem, x), F) = 0 <=> \A e \in Reach(F) : e \notin Having(U, mem, x)
    BY <1>2
  <2>3. x \in gone <=> \E e \in Reach(F) : e \in Having(U, mem, x)
    BY <1>2 DEF Having
  <2> QED
    BY <2>1, <2>2, <2>3
<1>7. ASSUME NEW e \in Reach(Q), Is("kvs", e)
      PROVE  (\E s : Chain(next, e.keys, s)) /\ Nodes(next, e.keys) = Nodes(mem, e.keys)
  <2>1. e \notin Lost(U, mem) /\ e \in U
    BY <1>1, <1>5
  <2>2. PICK s : Chain(mem, e.keys, s)
    BY <1>7, <2>1 DEF Lost
  <2>3. ToSet(s) \subseteq Cells(mem)
    BY <2>2, ChainCells
  <2>4. Nodes(mem, e.keys) = s
    BY <2>2, NodesOfChain DEF Memory
  <2>5. ASSUME NEW x \in ToSet(s)
        PROVE  x \in DOMAIN next /\ next[x] = mem[x]
    <3>1. x \in Cells(mem) /\ x \in DOMAIN mem
      BY <2>3 DEF Cells
    <3>2. e \in Having(U, mem, x)
      BY <1>7, <2>1, <2>4 DEF Having
    <3>3. Total(Having(U, mem, x), Q) # 0
      BY <1>1, <3>2
    <3>4. Total(Having(U, mem, x), F) = 0
      BY <1>1, <1>2, <1>6, <3>1, <3>3
    <3>5. x \notin gone
      BY <1>6, <3>1, <3>4
    <3> QED
      BY <3>1, <3>5
  <2>6. Chain(next, e.keys, s) /\ Nodes(next, e.keys) = s
    BY <2>2, <2>5, Kept
  <2> QED
    BY <2>4, <2>6
<1>8. Total(Lost(U, next), Q) = 0
  <2>1. \A e \in Reach(Q) : e \notin Lost(U, next)
    BY <1>7 DEF Lost
  <2> QED
    BY <1>1, <2>1
<1>9. ASSUME NEW x \in Cells(next)
      PROVE  Total(Having(U, next, x), Q) = 1
  <2>1. \A e \in Reach(Q) : e \in Having(U, next, x) <=> e \in Having(U, mem, x)
    BY <1>7 DEF Having
  <2>2. Total(Having(U, next, x), Q) = Total(Having(U, mem, x), Q)
    BY <1>1, <2>1
  <2>3. x \in Cells(mem) /\ x \notin gone
    BY DEF Cells
  <2>4. Total(Having(U, mem, x), F) = 0
    BY <1>6, <2>3
  <2> QED
    BY <1>1, <1>2, <1>6, <2>2, <2>3, <2>4
<1> QED
  BY <1>4, <1>8, <1>9 DEF Owned

-----------------------------------------------------------------------------
(* What the open calls, the callers and the variable ret hold *)

Roots(open, h, r, mem) == Then(Then(Opened(open, mem), h), <<r>>)

Shape(U, open, h, r, mem) ==
    /\ Sane(U) /\ open \in Seq(U) /\ Opened(open, mem) \in Seq(U) /\ h \in Seq(U) /\ r \in U
    /\ \A k \in DOMAIN open : Frame(open[k])

\* Nothing is more than n levels deep.
Bounds(open, h, r, n) ==
    /\ \A k \in DOMAIN open : Ends(Contents(open[k]), n)
    /\ Ends(h, n) /\ Ends(<<r>>, n)

(* A sequence ends where each of its entities does.                        *)
LEMMA EndsAll ==
    ASSUME NEW U, Closed(U), NEW s \in Seq(U), NEW n \in Nat,
           \A k \in DOMAIN s : Ends(<<s[k]>>, n)
    PROVE  Ends(s, n)
<1> DEFINE All(t) == \A k \in DOMAIN t : Ends(<<t[k]>>, n)
           Bad == {l \in Nat : \E t \in Seq(U) : Len(t) = l /\ All(t) /\ ~Ends(t, n)}
<1>1. SUFFICES ASSUME Bad # {} PROVE FALSE
  <2>1. Len(s) \in Nat /\ All(s)
    OBVIOUS
  <2> HIDE DEF All
  <2> QED
    BY <2>1
<1>2. PICK l \in Bad : \A k \in Bad : l <= k
  BY <1>1, Least
<1>3. PICK t \in Seq(U) : Len(t) = l /\ All(t) /\ ~Ends(t, n)
  BY <1>2
<1>4. t # <<>>
  <2>1. Ends(<< >>, 0)
    BY Nothing
  <2>2. Ends(<< >>, n)
    <3> DEFINE e == << >>
    <3>1. e \in Seq(U) /\ 0 \in Nat /\ 0 <= n
      OBVIOUS
    <3>2. Ends(e, 0)
      BY <2>1
    <3> HIDE DEF e
    <3>3. Ends(e, n)
      BY <3>1, <3>2, EndsStays
    <3> QED
      BY <3>3 DEF e
  <2> QED
    BY <1>3, <2>2
<1>5. PICK v \in Seq(U), x \in U : t = Append(v, x) /\ Len(t) = Len(v) + 1
  BY <1>4, AppendOrEmpty
<1>6. /\ DOMAIN v = 1..Len(v) /\ Len(v) \in Nat /\ DOMAIN t = 1..(Len(v) + 1)
      /\ t[Len(v) + 1] = x /\ \A k \in 1..Len(v) : t[k] = v[k]
  BY <1>5
<1>7. All(v) /\ Ends(<<x>>, n)
  <2>1. \A k \in 1..(Len(v) + 1) : Ends(<<t[k]>>, n)
    BY <1>3, <1>6
  <2>2. Len(v) + 1 \in 1..(Len(v) + 1) /\ \A k \in 1..Len(v) : k \in 1..(Len(v) + 1)
    BY <1>6
  <2>3. Ends(<<x>>, n)
    BY <1>6, <2>1, <2>2, Zenon
  <2>4. \A k \in 1..Len(v) : Ends(<<v[k]>>, n)
    BY <1>6, <2>1, <2>2, Zenon
  <2> QED
    BY <1>6, <2>3, <2>4, Zenon
<1>8. Ends(v, n)
  <2>1. Len(v) \in Nat /\ Len(v) < l /\ l \in Nat
    BY <1>3, <1>5
  <2>2. Len(v) \notin Bad
    BY <1>2, <2>1
  <2> QED
    BY <1>7, <2>1, <2>2
<1>9. <<x>> \in Seq(U) /\ t = Then(v, <<x>>)
  BY <1>5 DEF Then
<1>10. Ends(t, n)
  BY <1>7, <1>8, <1>9, EndsThen
<1> QED
  BY <1>3, <1>10

Summed(open, h, r, mem) ==
    \A T : Total(T, Roots(open, h, r, mem))
               = Total(T, Opened(open, mem)) + Total(T, h) + Total(T, <<r>>)

(* The totals of the open calls, of what is held and of ret add up.        *)
LEMMA RootsAre ==
    ASSUME NEW U, NEW open, NEW h, NEW r, NEW mem, Shape(U, open, h, r, mem),
           NEW n \in Nat, Bounds(open, h, r, n)
    PROVE  /\ Closed(U) /\ Roots(open, h, r, mem) \in Seq(U)
           /\ Ends(Roots(open, h, r, mem), n + 1) /\ Ending(Roots(open, h, r, mem))
           /\ Ending(Opened(open, mem)) /\ Ending(h) /\ Ending(<<r>>)
           /\ Summed(open, h, r, mem)
<1>1. Closed(U) /\ Sane(U)
  BY SaneClosed DEF Shape
<1> DEFINE o == Opened(open, mem)
           w == <<r>>
<1>2. o \in Seq(U) /\ h \in Seq(U) /\ w \in Seq(U) /\ n + 1 \in Nat /\ n <= n + 1
  BY DEF Shape
<1>3. Ends(o, n + 1)
  <2>1. DOMAIN o = DOMAIN open
    BY DEF Opened
  <2>2. ASSUME NEW k \in DOMAIN o
        PROVE  Ends(<<o[k]>>, n + 1)
    <3>1. k \in DOMAIN open /\ open[k] \in U /\ Frame(open[k])
      BY <2>1 DEF Shape
    <3>2. o[k] = OpenEnt(open[k], k, mem)
      BY <3>1 DEF Opened
    <3>3. Contents(o[k]) = Contents(open[k])
      BY <1>1, <3>1, <3>2, OpenEntIs
    <3>4. Ends(Contents(o[k]), n)
      BY <3>1, <3>3 DEF Bounds
    <3>5. o[k] \in U
      BY <1>2
    <3> HIDE DEF o
    <3> QED
      BY <1>1, <3>4, <3>5, EndsOne
  <2> HIDE DEF o
  <2> QED
    BY <1>1, <1>2, <2>2, EndsAll
<1> HIDE DEF o, w
<1>4. Ends(h, n) /\ Ends(w, n)
  BY DEF Bounds, w
<1>5. Ends(h, n + 1) /\ Ends(w, n + 1)
  BY <1>1, <1>2, <1>4, EndsStays
<1>6. Ending(o) /\ Ending(h) /\ Ending(w)
  BY <1>2, <1>3, <1>5 DEF Ending
<1> DEFINE a == Then(o, h)
           R == Then(a, w)
<1>7. a \in Seq(U) /\ Ending(a) /\ Ends(a, n + 1)
  BY <1>1, <1>2, <1>3, <1>5, <1>6, EndingThen, EndsThen
<1> HIDE DEF a
<1>8. R \in Seq(U) /\ Ending(R) /\ Ends(R, n + 1)
  BY <1>1, <1>2, <1>5, <1>6, <1>7, EndingThen, EndsThen
<1>9. \A T : Total(T, R) = Total(T, a) + Total(T, w)
  BY <1>1, <1>2, <1>6, <1>7, Together
<1>10. \A T : Total(T, a) = Total(T, o) + Total(T, h)
  BY <1>1, <1>2, <1>6, Together DEF a
<1>11. R = Roots(open, h, r, mem)
  BY DEF Roots, a, o, w
<1> HIDE DEF R
<1> QED
  BY <1>1, <1>6, <1>8, <1>9, <1>10, <1>11 DEF o, w, Summed

(* Append is a concatenation.                                              *)
LEMMA AppendIs ==
    ASSUME NEW S, NEW s \in Seq(S), NEW x \in S
    PROVE  Append(s, x) = Then(s, <<x>>)
BY DEF Then

(* One call more is open.                                                  *)
LEMMA OpenedAppend ==
    ASSUME NEW S, NEW F \in Seq(S), NEW top \in S, NEW mem
    PROVE  /\ Opened(Append(F, top), mem)
                  = Append(Opened(F, mem), OpenEnt(top, Len(F) + 1, mem))
           /\ \A U : Opened(F, mem) \in Seq(U) /\ OpenEnt(top, Len(F) + 1, mem) \in U
                     => Opened(Append(F, top), mem) \in Seq(U)
           /\ \A U : Opened(Append(F, top), mem) \in Seq(U)
                     => Opened(F, mem) \in Seq(U) /\ OpenEnt(top, Len(F) + 1, mem) \in U
<1> DEFINE G == Append(F, top)
           n == Len(F)
           a == Opened(F, mem)
           b == Opened(G, mem)
           e == OpenEnt(top, n + 1, mem)
<1>1. /\ n \in Nat /\ DOMAIN F = 1..n /\ DOMAIN G = 1..(n + 1)
      /\ G[n + 1] = top /\ \A k \in 1..n : G[k] = F[k]
  OBVIOUS
<1>2. a = [k \in 1..n |-> OpenEnt(F[k], k, mem)]
  BY <1>1 DEF Opened
<1> HIDE DEF G, n
<1>3. b = [k \in 1..(n + 1) |-> OpenEnt(G[k], k, mem)]
  BY <1>1 DEF Opened
<1> DEFINE T == {OpenEnt(G[k], k, mem) : k \in 1..(n + 1)}
<1>4. /\ \A k \in 1..n : a[k] = OpenEnt(G[k], k, mem) /\ a[k] = b[k]
      /\ b[n + 1] = e
      /\ \A k \in 1..(n + 1) : b[k] \in T
  BY <1>1, <1>2, <1>3
<1>6. DOMAIN a = 1..n /\ DOMAIN b = 1..(n + 1)
  BY <1>2, <1>3
<1>5. a \in Seq(T) /\ b \in Seq(T) /\ e \in T /\ Len(a) = n /\ Len(b) = n + 1
  <2>1. n + 1 \in 1..(n + 1) /\ \A k \in 1..n : k \in 1..(n + 1)
    BY <1>1
  <2>2. a = [k \in 1..n |-> a[k]] /\ b = [k \in 1..(n + 1) |-> b[k]]
    BY <1>2, <1>3
  <2> HIDE DEF a, b, e, T
  <2>3. (\A k \in 1..n : a[k] \in T) /\ e \in T
    BY <1>4, <2>1
  <2>4. a \in Seq(T) /\ Len(a) = n
    BY <1>1, <2>2, <2>3
  <2>5. b \in Seq(T) /\ Len(b) = n + 1
    <3>1. \A k \in 1..(n + 1) : b[k] \in T
      BY <1>4
    <3>2. n + 1 \in Nat
      BY <1>1
    <3>3. b = [k \in 1..(n + 1) |-> b[k]]
      BY <2>2
    <3> QED
      BY <3>1, <3>2, <3>3
  <2> QED
    BY <2>3, <2>4, <2>5
<1> HIDE DEF a, b, e, T
<1>7. b = Append(a, e)
  <2> DEFINE u == Append(a, e)
  <2>1. u \in Seq(T) /\ Len(u) = n + 1 /\ u[n + 1] = e /\ \A k \in 1..n : u[k] = a[k]
    BY <1>1, <1>5
  <2> HIDE DEF u
  <2>2. \A k \in 1..(n + 1) : b[k] = u[k]
    <3> TAKE k \in 1..(n + 1)
    <3>1. k = n + 1 \/ k \in 1..n
      BY <1>1
    <3> QED
      BY <1>4, <2>1, <3>1
  <2>3. b = u
    BY <1>1, <1>5, <2>1, <2>2, SeqEqual
  <2> QED
    BY <2>3 DEF u
<1>8. ASSUME NEW U, a \in Seq(U), e \in U
      PROVE  b \in Seq(U)
  BY <1>7, <1>8
<1>9. ASSUME NEW U, b \in Seq(U)
      PROVE  a \in Seq(U) /\ e \in U
  <2>1. \A k \in 1..(n + 1) : b[k] \in U
    <3>1. \A k \in DOMAIN b : b[k] \in U
      BY <1>9
    <3> QED
      BY <1>6, <3>1
  <2>2. n + 1 \in 1..(n + 1) /\ \A k \in 1..n : k \in 1..(n + 1)
    BY <1>1
  <2>3. a = [k \in 1..n |-> a[k]] /\ \A k \in 1..n : a[k] \in U
    BY <1>2, <1>4, <2>1, <2>2 DEF a
  <2> QED
    BY <1>1, <1>4, <2>1, <2>2, <2>3
<1> QED
  BY <1>7, <1>8, <1>9 DEF a, b, e, G, n

(* The open calls are the same while their variables keys are.             *)
LEMMA OpenedSame ==
    ASSUME NEW open, NEW mem, NEW next,
           \A k \in DOMAIN open : Is("kvs", open[k]) => next[KeysOf(k)] = mem[KeysOf(k)]
    PROVE  Opened(open, next) = Opened(open, mem)
<1>1. \A k \in DOMAIN open : OpenEnt(open[k], k, next) = OpenEnt(open[k], k, mem)
  BY DEF OpenEnt, Is
<1> QED
  BY <1>1 DEF Opened

(* A sequence is its front with its last element.                          *)
LEMMA FrontLast ==
    ASSUME NEW S, NEW s \in Seq(S), s # <<>>
    PROVE  /\ Front(s) \in Seq(S) /\ Last(s) \in S /\ s = Append(Front(s), Last(s))
           /\ Len(s) = Len(Front(s)) + 1 /\ Last(s) = s[Len(s)]
           /\ \A k \in DOMAIN Front(s) : k \in DOMAIN s /\ s[k] = Front(s)[k]
<1>1. PICK F \in Seq(S), x \in S : s = Append(F, x) /\ Len(s) = Len(F) + 1
  BY AppendOrEmpty
<1>2. Last(s) = x
  BY <1>1 DEF Last
<1>3. Front(s) = F
  <2> DEFINE n == Len(F)
             G == Front(s)
  <2>1. G = SubSeq(s, 1, n)
    BY <1>1 DEF Front
  <2>2. n \in Nat /\ n \in 0..Len(s) /\ s \in Seq(S)
    BY <1>1
  <2>3. G \in Seq(S) /\ Len(G) = n /\ \A k \in 1..n : G[k] = s[k]
    BY <2>1, <2>2
  <2>4. \A k \in 1..n : s[k] = F[k]
    BY <1>1
  <2> HIDE DEF G
  <2>5. Len(F) = Len(G) /\ \A k \in 1..Len(F) : F[k] = G[k]
    BY <2>3, <2>4
  <2>6. F = G
    BY <2>3, <2>5, SeqEqual
  <2> QED
    BY <2>6 DEF G
<1>4. \A k \in DOMAIN F : k \in DOMAIN s /\ s[k] = F[k]
  BY <1>1
<1>5. Last(s) = s[Len(s)]
  BY DEF Last
<1> QED
  BY <1>1, <1>2, <1>3, <1>4, <1>5

(* NULL, returned for an entity, counts nothing.                           *)
LEMMA NoEntityIs ==
    ASSUME NEW U, Sane(U)
    PROVE  /\ NoEntity \in U /\ Contents(NoEntity) = << >>
           /\ Is("none", NoEntity) /\ ~Is("kvs", NoEntity) /\ ~Allocated(NoEntity)
           /\ Ends(<<NoEntity>>, 1) /\ Ending(<<NoEntity>>)
           /\ \A T : Fair(U, T) => Total(T, <<NoEntity>>) = 0
<1>1. NoEntity \in U /\ DOMAIN NoEntity = {"none"}
  BY DEF Sane, NoEntity
<1>2. Is("none", NoEntity) /\ ~Is("kvs", NoEntity) /\ ~Is("arr", NoEntity) /\ ~Allocated(NoEntity)
  BY <1>1 DEF Is, Allocated
<1>3. Contents(NoEntity) = << >>
  BY <1>2 DEF Contents
<1>4. Closed(U)
  BY SaneClosed
<1> DEFINE e == NoEntity
           u == Contents(e)
<1>5. Ends(u, 0) /\ Ending(u) /\ \A T : Total(T, u) = 0
  BY <1>3, <1>4, Nothing
<1> HIDE DEF e, u
<1>6. Ending(<<e>>) /\ \A T : Total(T, <<e>>) = (IF e \in T THEN 1 ELSE 0) + Total(T, u)
  BY <1>1, <1>4, <1>5, Alone DEF e, u
<1>7. Ends(<<e>>, 1)
  <2>1. 0 \in Nat /\ 0 + 1 = 1 /\ e \in U
    BY <1>1 DEF e
  <2>2. Ends(<<e>>, 0 + 1)
    BY <1>4, <1>5, <2>1, EndsOne DEF u
  <2> QED
    BY <2>1, <2>2
<1>8. ASSUME NEW T, Fair(U, T)
      PROVE  Total(T, <<e>>) = 0
  <2>1. e \notin T
    BY <1>2, <1>8 DEF Fair, Allocs, e
  <2>2. Total(T, <<e>>) = (IF e \in T THEN 1 ELSE 0) + Total(T, u) /\ Total(T, u) = 0
    BY <1>5, <1>6
  <2> QED
    BY <2>1, <2>2
<1> QED
  BY <1>1, <1>2, <1>3, <1>6, <1>7, <1>8 DEF e

SumOf(R, P, Q) == \A T : Total(T, R) = Total(T, P) + Total(T, Q)

\* e is counted with what is in it.
Whole(e) == \A T : Total(T, <<e>>) = (IF e \in T THEN 1 ELSE 0) + Total(T, Contents(e))

(* Without the innermost call, what it made is missing.                    *)
LEMMA Popped ==
    ASSUME NEW U, NEW S, NEW F \in Seq(S), NEW top \in S, NEW h, NEW r, NEW mem,
           Shape(U, Append(F, top), h, r, mem),
           NEW n \in Nat, Bounds(Append(F, top), h, r, n)
    PROVE  LET e == OpenEnt(top, Len(F) + 1, mem) IN
           /\ Shape(U, F, h, r, mem) /\ Bounds(F, h, r, n)
           /\ top \in U /\ Frame(top) /\ Ends(Contents(top), n)
           /\ e \in U /\ Contents(e) = Contents(top)
           /\ Ends(<<e>>, n + 1) /\ Ending(<<e>>)
           /\ Whole(e)
           /\ SumOf(Roots(Append(F, top), h, r, mem), Roots(F, h, r, mem), <<e>>)
<1> DEFINE G == Append(F, top)
           len == Len(F)
           e == OpenEnt(top, len + 1, mem)
           o == Opened(F, mem)
<1>1. /\ len \in Nat /\ DOMAIN F = 1..len /\ DOMAIN G = 1..(len + 1)
      /\ G[len + 1] = top /\ \A k \in 1..len : G[k] = F[k]
  OBVIOUS
<1>2. Opened(G, mem) \in Seq(U) /\ G \in Seq(U) /\ Sane(U) /\ h \in Seq(U) /\ r \in U
  BY DEF Shape
<1>3. o \in Seq(U) /\ e \in U /\ Opened(G, mem) = Append(o, e)
  <2>1. /\ Opened(G, mem) = Append(o, e)
        /\ \A V : Opened(G, mem) \in Seq(V) => o \in Seq(V) /\ e \in V
    BY OpenedAppend
  <2> HIDE DEF G, o, e
  <2> QED
    BY <1>2, <2>1
<1>4. len + 1 \in 1..(len + 1) /\ \A k \in 1..len : k \in 1..(len + 1)
  BY <1>1
<1>5. /\ \A k \in 1..(len + 1) : G[k] \in U /\ Frame(G[k]) /\ Ends(Contents(G[k]), n)
  BY <1>1, <1>2 DEF Shape, Bounds
<1> HIDE DEF G, len
<1>6. F \in Seq(U) /\ top \in U
  <2>1. F = [k \in 1..len |-> F[k]] /\ \A k \in 1..len : F[k] \in U
    BY <1>1, <1>4, <1>5
  <2> QED
    BY <1>1, <1>4, <1>5, <2>1
<1>7. Shape(U, F, h, r, mem)
  <2>1. \A k \in DOMAIN F : Frame(F[k])
    BY <1>1, <1>4, <1>5
  <2> QED
    BY <1>2, <1>3, <1>6, <2>1 DEF Shape
<1>8. Bounds(F, h, r, n)
  <2>1. \A k \in DOMAIN F : Ends(Contents(F[k]), n)
    BY <1>1, <1>4, <1>5
  <2>2. Ends(h, n) /\ Ends(<<r>>, n)
    BY DEF Bounds
  <2> QED
    BY <2>1, <2>2 DEF Bounds
<1>9. Frame(top) /\ Ends(Contents(top), n)
  BY <1>1, <1>4, <1>5
<1>10. Contents(e) = Contents(top)
  BY <1>2, <1>6, <1>9, OpenEntIs
<1>11. /\ Closed(U)
       /\ \A T : Total(T, Roots(G, h, r, mem)) = Total(T, Opened(G, mem)) + Total(T, h) + Total(T, <<r>>)
  <2>1. Shape(U, G, h, r, mem) /\ Bounds(G, h, r, n)
    BY DEF G
  <2> HIDE DEF o, e
  <2>2. \A T : Total(T, Roots(G, h, r, mem)) = Total(T, Opened(G, mem)) + Total(T, h) + Total(T, <<r>>)
    <3>1. Summed(G, h, r, mem)
      BY <2>1, RootsAre
    <3> QED
      BY <3>1 DEF Summed
  <2> QED
    BY <1>2, <2>2, SaneClosed
<1>12. /\ Ending(o) /\ Ending(h) /\ Ending(<<r>>)
       /\ \A T : Total(T, Roots(F, h, r, mem)) = Total(T, o) + Total(T, h) + Total(T, <<r>>)
  <2>1. /\ Ending(Opened(F, mem)) /\ Ending(h) /\ Ending(<<r>>)
        /\ \A T : Total(T, Roots(F, h, r, mem)) = Total(T, Opened(F, mem)) + Total(T, h) + Total(T, <<r>>)
    <3> HIDE DEF o, e
    <3> QED
      <4>1. Summed(F, h, r, mem) /\ Ending(Opened(F, mem)) /\ Ending(h) /\ Ending(<<r>>)
        BY <1>7, <1>8, RootsAre
      <4> QED
        BY <4>1 DEF Summed
  <2> QED
    BY <2>1, Zenon
<1> HIDE DEF o, e
<1> DEFINE w == <<e>>
<1>13. Ends(w, n + 1)
  BY <1>3, <1>9, <1>10, <1>11, EndsOne
<1>14. Ending(Contents(e))
  BY <1>9, <1>10 DEF Ending
<1>15. w \in Seq(U) /\ Ending(w) /\ \A T : Total(T, w) = (IF e \in T THEN 1 ELSE 0) + Total(T, Contents(top))
  BY <1>3, <1>10, <1>11, <1>14, Alone
<1> HIDE DEF w
<1>16. Opened(G, mem) = Then(o, w)
  <2>1. Append(o, e) = Then(o, <<e>>)
    BY <1>3, AppendIs
  <2> QED
    BY <1>3, <2>1 DEF w
<1>17. ASSUME NEW T
       PROVE  Total(T, Roots(G, h, r, mem)) = Total(T, Roots(F, h, r, mem)) + Total(T, w)
  <2>1. Total(T, Then(o, w)) = Total(T, o) + Total(T, w)
    BY <1>3, <1>11, <1>12, <1>15, Together
  <2>2. /\ Total(T, Roots(G, h, r, mem)) = Total(T, Then(o, w)) + Total(T, h) + Total(T, <<r>>)
        /\ Total(T, Roots(F, h, r, mem)) = Total(T, o) + Total(T, h) + Total(T, <<r>>)
    BY <1>11, <1>12, <1>16
  <2>3. Total(T, o) \in Nat /\ Total(T, w) \in Nat
    BY <1>3, <1>11, <1>12, <1>15, TotalFacts
  <2>4. Total(T, h) \in Nat
    BY <1>2, <1>11, <1>12, TotalFacts
  <2>5. Total(T, <<r>>) \in Nat
    <3>1. <<r>> \in Seq(U)
      BY <1>2
    <3> QED
      BY <1>11, <1>12, <3>1, TotalFacts
  <2> HIDE DEF w
  <2> QED
    BY <2>1, <2>2, <2>3, <2>4, <2>5
<1>18. Whole(e)
  BY <1>10, <1>15 DEF Whole, w
<1>19. SumOf(Roots(G, h, r, mem), Roots(F, h, r, mem), <<e>>)
  BY <1>17 DEF SumOf, w
<1> QED
  BY <1>3, <1>6, <1>7, <1>8, <1>9, <1>10, <1>13, <1>15, <1>18, <1>19 DEF w, e, len, G

\* What json_parse_value makes of the open calls and of the variable ret.
Returned(open, ent, open2, r2) ==
    IF open = <<>> THEN open2 = open /\ r2 = ent
    ELSE open2 = Append(Front(open), Got(Last(open), ent)) /\ r2 = NoEntity

FairSum(U, R, P, Q) == \A T : Fair(U, T) => Total(T, R) = Total(T, P) + Total(T, Q)

(* A frame is put on the stack.                                            *)
LEMMA ShapeAppend ==
    ASSUME NEW U, NEW V, U \subseteq V, Sane(V), NEW F, NEW h, NEW r, NEW mem, Shape(U, F, h, r, mem),
           NEW f \in V, Frame(f), OpenEnt(f, Len(F) + 1, mem) \in V,
           NEW n \in Nat, Bounds(F, h, r, n), Ends(Contents(f), n)
    PROVE  Shape(V, Append(F, f), h, r, mem) /\ Bounds(Append(F, f), h, r, n)
<1> DEFINE G == Append(F, f)
           len == Len(F)
<1>1. F \in Seq(U) /\ Opened(F, mem) \in Seq(U) /\ h \in Seq(U) /\ r \in U
  BY DEF Shape
<1>2. F \in Seq(V) /\ h \in Seq(V) /\ r \in V
  BY <1>1, SeqWider
<1>3. Opened(F, mem) \in Seq(V)
  <2> DEFINE o == Opened(F, mem)
  <2>1. o \in Seq(U)
    BY <1>1
  <2> HIDE DEF o
  <2>2. o \in Seq(V)
    BY <2>1, SeqWider
  <2> QED
    BY <2>2 DEF o
<1>4. G \in Seq(V)
  BY <1>2
<1>5. Opened(G, mem) \in Seq(V)
  BY <1>2, <1>3, OpenedAppend
<1>6. /\ len \in Nat /\ DOMAIN F = 1..len /\ DOMAIN G = 1..(len + 1)
      /\ G[len + 1] = f /\ \A k \in 1..len : G[k] = F[k]
  BY <1>2
<1> HIDE DEF G, len
<1>7. \A k \in DOMAIN G : k = len + 1 \/ k \in DOMAIN F
  BY <1>6
<1>8. \A k \in DOMAIN G : Frame(G[k]) /\ Ends(Contents(G[k]), n)
  <2> TAKE k \in DOMAIN G
  <2>1. CASE k = len + 1
    <3>1. G[k] = f
      BY <1>6, <2>1
    <3> QED
      BY <3>1
  <2>2. CASE k \in DOMAIN F
    <3>1. G[k] = F[k]
      BY <1>6, <2>2
    <3> QED
      BY <2>2, <3>1 DEF Shape, Bounds
  <2> QED
    BY <1>7, <2>1, <2>2
<1>9. Shape(V, G, h, r, mem)
  BY <1>2, <1>4, <1>5, <1>8 DEF Shape
<1>10. Bounds(G, h, r, n)
  BY <1>8 DEF Bounds
<1> QED
  BY <1>9, <1>10 DEF G

(* A value is returned to the innermost of the open calls.                 *)
LEMMA Returning ==
    ASSUME NEW U, NEW open, NEW h, NEW mem, Shape(U, open, h, NoEntity, mem),
           NEW n \in Nat, n >= 1, Bounds(open, h, NoEntity, n),
           NEW ent \in U, Ends(<<ent>>, n), Is("none", ent) => ent = NoEntity,
           NEW open2, NEW r2, Returned(open, ent, open2, r2)
    PROVE  \E V : /\ U \subseteq V
                  /\ Shape(V, open2, h, r2, mem) /\ Bounds(open2, h, r2, n)
                  /\ FairSum(V, Roots(open2, h, r2, mem), Roots(open, h, NoEntity, mem), <<ent>>)
<1>1. Sane(U) /\ Closed(U)
  BY SaneClosed DEF Shape
<1>2. CASE open = <<>>
  <2>1. open2 = open /\ r2 = ent
    BY <1>2 DEF Returned
  <2>2. Shape(U, open, h, ent, mem) /\ Bounds(open, h, ent, n)
    BY DEF Shape, Bounds
  <2>3. Summed(open, h, ent, mem) /\ Summed(open, h, NoEntity, mem)
    BY <2>2, RootsAre
  <2>4. Ending(Opened(open, mem)) /\ Ending(h) /\ Ending(<<ent>>)
    BY <2>2, RootsAre
  <2>5. FairSum(U, Roots(open, h, ent, mem), Roots(open, h, NoEntity, mem), <<ent>>)
    <3> SUFFICES ASSUME NEW T, Fair(U, T)
                 PROVE  Total(T, Roots(open, h, ent, mem))
                            = Total(T, Roots(open, h, NoEntity, mem)) + Total(T, <<ent>>)
      BY DEF FairSum
    <3>1. Total(T, <<NoEntity>>) = 0
      BY <1>1, NoEntityIs
    <3> DEFINE o == Opened(open, mem)
    <3>2. o \in Seq(U) /\ h \in Seq(U) /\ Ending(o) /\ Ending(h)
      BY <2>4 DEF Shape
    <3>3. /\ Total(T, Roots(open, h, ent, mem)) = Total(T, o) + Total(T, h) + Total(T, <<ent>>)
          /\ Total(T, Roots(open, h, NoEntity, mem)) = Total(T, o) + Total(T, h) + Total(T, <<NoEntity>>)
      BY <2>3 DEF Summed
    <3> HIDE DEF o
    <3>4. Total(T, o) \in Nat /\ Total(T, h) \in Nat
      BY <1>1, <3>2, TotalFacts
    <3>5. Total(T, <<ent>>) \in Nat
      <4> DEFINE w == <<ent>>
      <4>1. w \in Seq(U) /\ Ending(w)
        BY <2>4
      <4> HIDE DEF w
      <4>2. Total(T, w) \in Nat
        BY <1>1, <4>1, TotalFacts
      <4> QED
        BY <4>2 DEF w
    <3> QED
      BY <3>1, <3>3, <3>4, <3>5
  <2> QED
    BY <2>1, <2>2, <2>5
<1>3. CASE open # <<>>
  <2> DEFINE F   == Front(open)
             top == Last(open)
             g   == Got(top, ent)
             len == Len(F)
             d   == OpenEnt(top, len + 1, mem)
             e   == OpenEnt(g, len + 1, mem)
             w   == <<ent>>
  <2>1. open2 = Append(F, g) /\ r2 = NoEntity
    BY <1>3 DEF Returned
  <2>2. F \in Seq(U) /\ top \in U /\ open = Append(F, top)
    <3>1. open \in Seq(U)
      BY DEF Shape
    <3> QED
      BY <1>3, <3>1, FrontLast
  <2>25. w \in Seq(U) /\ Ends(w, n)
    OBVIOUS
  <2> HIDE DEF F, top, g, d, e, len, w
  <2>3. Shape(U, Append(F, top), h, NoEntity, mem) /\ Bounds(Append(F, top), h, NoEntity, n)
    BY <2>2
  <2>4. /\ Shape(U, F, h, NoEntity, mem) /\ Bounds(F, h, NoEntity, n)
        /\ Frame(top) /\ Ends(Contents(top), n)
        /\ d \in U /\ Contents(d) = Contents(top)
        /\ Whole(d) /\ SumOf(Roots(Append(F, top), h, NoEntity, mem), Roots(F, h, NoEntity, mem), <<d>>)
    BY <2>2, <2>3, Popped DEF d, len
  <2>5. PICK W : /\ U \subseteq W /\ Sane(W) /\ g \in W
                 /\ Frame(g) /\ (Is("kvs", g) <=> Is("kvs", top))
                 /\ Contents(g) = IF ~Is("kvs", top) /\ Is("none", ent) THEN Contents(top)
                                  ELSE Then(Contents(top), <<ent>>)
    BY <1>1, <2>2, <2>4, GotIs DEF g
  <2>6. /\ Fits(W, e) /\ Contents(e) = Contents(g) /\ Allocated(e)
        /\ Is("kvs", e) <=> Is("kvs", g)
        /\ Is("kvs", e) => e.keys = mem[KeysOf(len + 1)]
    BY <2>5, OpenEntIs DEF e
  <2>7. /\ Allocated(d)
        /\ Is("kvs", d) <=> Is("kvs", top)
        /\ Is("kvs", d) => d.keys = mem[KeysOf(len + 1)]
    BY <1>1, <2>2, <2>4, OpenEntIs DEF d
  <2> DEFINE V == W \cup {e}
  <2>8. Sane(V) /\ U \subseteq V /\ g \in V /\ e \in V
    BY <2>5, <2>6, Grown
  <2> HIDE DEF V
  <2>9. Contents(top) \in Seq(U)
    BY <1>1, <2>2 DEF Closed
  <2>10. Ends(Contents(g), n)
    <3>1. CASE ~Is("kvs", top) /\ Is("none", ent)
      BY <2>4, <2>5, <3>1
    <3>2. CASE ~(~Is("kvs", top) /\ Is("none", ent))
      <4>1. Contents(g) = Then(Contents(top), w)
        BY <2>5, <3>2 DEF w
      <4>2. Ends(Then(Contents(top), w), n)
        BY <1>1, <2>4, <2>9, <2>25, EndsThen
      <4> QED
        BY <4>1, <4>2
    <3> QED
      BY <3>1, <3>2
  <2>11. Shape(V, Append(F, g), h, NoEntity, mem) /\ Bounds(Append(F, g), h, NoEntity, n)
    BY <2>4, <2>5, <2>8, <2>10, ShapeAppend DEF e, len
  <2>12. F \in Seq(V)
    BY <2>2, <2>8, SeqWider
  <2>13. Whole(e) /\ SumOf(Roots(Append(F, g), h, NoEntity, mem), Roots(F, h, NoEntity, mem), <<e>>)
    BY <2>8, <2>11, <2>12, Popped DEF e, len
  <2>14. FairSum(V, Roots(Append(F, g), h, NoEntity, mem), Roots(Append(F, top), h, NoEntity, mem), w)
    <3> SUFFICES ASSUME NEW T, Fair(V, T)
                 PROVE  Total(T, Roots(Append(F, g), h, NoEntity, mem))
                            = Total(T, Roots(Append(F, top), h, NoEntity, mem)) + Total(T, w)
      BY DEF FairSum
    <3>1. /\ Total(T, Roots(Append(F, g), h, NoEntity, mem)) = Total(T, Roots(F, h, NoEntity, mem)) + Total(T, <<e>>)
          /\ Total(T, <<e>>) = (IF e \in T THEN 1 ELSE 0) + Total(T, Contents(e))
      BY <2>13 DEF SumOf, Whole
    <3>2. /\ Total(T, Roots(Append(F, top), h, NoEntity, mem)) = Total(T, Roots(F, h, NoEntity, mem)) + Total(T, <<d>>)
          /\ Total(T, <<d>>) = (IF d \in T THEN 1 ELSE 0) + Total(T, Contents(d))
      BY <2>4 DEF SumOf, Whole
    <3>3. e \in T <=> d \in T
      <4>1. Like(d, e) /\ Like(e, d)
        BY <2>5, <2>6, <2>7 DEF Like
      <4>2. d \in V /\ e \in V
        BY <2>4, <2>8
      <4> QED
        BY <4>1, <4>2 DEF Fair
    <3>4. Ending(Contents(top)) /\ Ending(w)
      BY <2>4, <2>25 DEF Ending
    <3>5. Total(T, Contents(top)) \in Nat /\ Total(T, w) \in Nat
      BY <1>1, <2>9, <2>25, <3>4, TotalFacts
    <3>6. Total(T, Contents(e)) = Total(T, Contents(top)) + Total(T, w)
      <4>1. CASE ~Is("kvs", top) /\ Is("none", ent)
        <5>1. Total(T, w) = 0
          BY <2>8, <4>1, NoEntityIs DEF w
        <5> QED
          BY <2>5, <2>6, <3>5, <4>1, <5>1
      <4>2. CASE ~(~Is("kvs", top) /\ Is("none", ent))
        <5>1. Contents(g) = Then(Contents(top), w)
          BY <2>5, <4>2 DEF w
        <5>2. \A X : Total(X, Then(Contents(top), w)) = Total(X, Contents(top)) + Total(X, w)
          BY <1>1, <2>9, <2>25, <3>4, Together
        <5> QED
          BY <2>6, <5>1, <5>2
      <4> QED
        BY <4>1, <4>2
    <3>7. Total(T, Roots(F, h, NoEntity, mem)) \in Nat
      <4>1. Roots(F, h, NoEntity, mem) \in Seq(U) /\ Ending(Roots(F, h, NoEntity, mem))
        BY <2>4, RootsAre
      <4> QED
        BY <1>1, <4>1, TotalFacts
    <3>8. Contents(d) = Contents(top)
      BY <2>4
    <3> QED
      BY <3>1, <3>2, <3>3, <3>5, <3>6, <3>7, <3>8
  <2> QED
    BY <2>1, <2>2, <2>8, <2>11, <2>14 DEF w
<1> QED
  BY <1>2, <1>3

-----------------------------------------------------------------------------
(* The invariant *)

Variables == {KeysOf(k) : k \in {j \in DOMAIN stack : Is("kvs", stack[j])}}

Places ==
    /\ place \in Reading => ret = NoEntity
    /\ place \in {"key", "colon"} => stack # <<>> /\ Is("kvs", Last(stack))
    /\ place \in {"done", "freed"} => stack = <<>>
    /\ place = "freed" => held = <<>> /\ ret = NoEntity

Stored ==
    /\ Memory(m) /\ DOMAIN data = Cells(m)
    /\ {x \in DOMAIN m : ~(x > 0)} = Variables

\* U has all there is; no entity is made in fewer steps than its depth.
Accounted(U) ==
    /\ Shape(U, stack, held, ret, m)
    /\ Bounds(stack, held, ret, made + 1)
    /\ Owned(U, Roots(stack, held, ret, m), m, made - freed + Depth)

LeakInv ==
    /\ made \in Nat /\ freed \in Int
    /\ Places /\ Stored
    /\ \E U : Accounted(U)

-----------------------------------------------------------------------------
(* Each depth has a variable keys of its own, which is no node.            *)
LEMMA KeysOfIs ==
    /\ \A k \in Nat : KeysOf(k) \in Int /\ ~(KeysOf(k) > 0) /\ KeysOf(k) # NULL
    /\ \A j, k \in Nat : KeysOf(j) = KeysOf(k) => j = k
BY DEF KeysOf, VarA, NULL

(* made + 2 levels are all of them.                                        *)
LEMMA WithinIs ==
    ASSUME NEW U, Closed(U), NEW ents \in Seq(U), made \in Nat, Ends(ents, made + 2)
    PROVE  /\ Within(ents) \in Seq(U)
           /\ Reach(ents) = ToSet(Within(ents))
           /\ \A T : Total(T, ents) = Tally(T, Within(ents))
<1>1. Within(ents) = Upto(ents, made + 2)
  BY DEF Within, Upto
<1>2. made + 2 \in Nat
  OBVIOUS
<1> QED
  BY <1>1, <1>2, ReachIs

(* malloc returns a node that is free.                                     *)
LEMMA NewNodeIs ==
    ASSUME Memory(m)
    PROVE  NewNode \in Nat \ {0} /\ NewNode \notin DOMAIN m
<1> DEFINE n == Cardinality(DOMAIN m)
<1>1. IsFiniteSet(DOMAIN m) /\ n \in Nat
  BY FS_CardinalityType DEF Memory
<1>2. \E x \in 1..(n + 1) : x \notin DOMAIN m
  <2> SUFFICES ASSUME 1..(n + 1) \subseteq DOMAIN m
               PROVE  FALSE
    OBVIOUS
  <2>1. Cardinality(1..(n + 1)) <= n
    BY <1>1, FS_Subset
  <2>2. Cardinality(1..(n + 1)) = n + 1
    <3>1. PICK p \in Int : p = n + 1
      BY <1>1
    <3>2. Cardinality(1..p) = IF 1 > p THEN 0 ELSE p - 1 + 1
      <4>1. 1 \in Int
        OBVIOUS
      <4> QED
        BY <4>1, FS_Interval
    <3> QED
      BY <1>1, <3>1, <3>2
  <2> QED
    BY <1>1, <2>1, <2>2
<1>3. NewNode = CHOOSE x \in 1..(n + 1) : x \notin DOMAIN m
  BY DEF NewNode
<1> QED
  BY <1>1, <1>2, <1>3

(* What json_entity_free does to the counts and the nodes.                 *)
LEMMA FreeIs ==
    ASSUME NEW U, Sane(U), NEW F \in Seq(U), made \in Nat, Ends(F, made + 2),
           Memory(m), Total(Lost(U, m), F) = 0, Free(F)
    PROVE  /\ freed' = freed + Total(Allocs(U), F)
           /\ Memory(m')
           /\ DOMAIN data' = DOMAIN data \cap DOMAIN m'
           /\ \E gone : /\ gone \subseteq Cells(m)
                        /\ \A x : x \in gone <=> \E e \in Reach(F) :
                                                  Is("kvs", e) /\ x \in ToSet(Nodes(m, e.keys))
                        /\ DOMAIN m' = DOMAIN m \ gone
                        /\ \A x \in DOMAIN m' : m'[x] = m[x]
<1> DEFINE all     == Within(F)
           objects == {k \in DOMAIN all : Is("kvs", all[k])}
           lists   == {all[k].keys : k \in objects}
           gone    == UNION {ToSet(Nodes(m, l)) : l \in lists}
           n       == Cardinality({k \in DOMAIN all : Allocated(all[k])})
<1>1. Closed(U) /\ all \in Seq(U) /\ Reach(F) = ToSet(all) /\ \A T : Total(T, F) = Tally(T, all)
  BY SaneClosed, WithinIs
<1>2. /\ m' = Drop(m, gone) /\ freed' = freed + n
      /\ DOMAIN data' = DOMAIN data \cap DOMAIN m'
  BY DEF Free, json_entity_free, ll_free
<1>25. \A k \in DOMAIN all : all[k] \in U
  <2> HIDE DEF all
  <2> QED
    BY <1>1
<1>3. n = Total(Allocs(U), F)
  <2>1. {k \in DOMAIN all : Allocated(all[k])} = {k \in DOMAIN all : all[k] \in Allocs(U)}
    BY <1>25 DEF Allocs
  <2>2. n = Tally(Allocs(U), all)
    BY <2>1 DEF Tally
  <2> HIDE DEF all, n
  <2> QED
    BY <1>1, <2>2
<1>4. \A x : x \in gone <=> \E e \in Reach(F) : Is("kvs", e) /\ x \in ToSet(Nodes(m, e.keys))
  <2>1. Reach(F) = {all[k] : k \in DOMAIN all}
    BY <1>1 DEF ToSet
  <2> HIDE DEF all
  <2> QED
    BY <2>1
<1>5. gone \subseteq Cells(m)
  <2> SUFFICES ASSUME NEW e \in Reach(F), Is("kvs", e)
               PROVE  ToSet(Nodes(m, e.keys)) \subseteq Cells(m)
    <3> HIDE DEF gone
    <3> QED
      BY <1>4
  <2>1. Ending(F)
    <3>1. made + 2 \in Nat
      OBVIOUS
    <3> QED
      BY <3>1 DEF Ending
  <2>2. e \notin Lost(U, m) /\ e \in U
    BY <2>1, ReachFacts
  <2>3. PICK s : Chain(m, e.keys, s)
    BY <2>2 DEF Lost
  <2>4. Nodes(m, e.keys) = s
    BY <2>3, NodesOfChain DEF Memory
  <2> QED
    BY <2>3, <2>4, ChainCells
<1> HIDE DEF gone
<1>6. DOMAIN m' = DOMAIN m \ gone /\ \A x \in DOMAIN m' : m'[x] = m[x]
  BY <1>2 DEF Drop
<1>7. Memory(m')
  <2>1. DOMAIN m' \in SUBSET DOMAIN m /\ IsFiniteSet(DOMAIN m) /\ DOMAIN m \subseteq Int
    BY <1>6 DEF Memory
  <2>2. IsFiniteSet(DOMAIN m')
    BY <2>1, FS_Subset
  <2> QED
    BY <2>1, <2>2 DEF Memory
<1> QED
  BY <1>2, <1>3, <1>4, <1>5, <1>6, <1>7

-----------------------------------------------------------------------------
(* What the invariant is for *)

LEMMA OpenIs ==
    /\ Open = Opened(stack, m)
    /\ Open \o held \o <<ret>> = Roots(stack, held, ret, m)
<1>1. Open = Opened(stack, m)
  BY DEF Open, Opened, OpenEnt
<1> QED
  BY <1>1 DEF Roots, Then

(* The invariant implies the property.                                     *)
LEMMA NoneLeaks ==
    ASSUME LeakInv
    PROVE  NothingLeaks
<1> DEFINE R       == Roots(stack, held, ret, m)
           reached == Reached
           lists   == [k \in {x \in DOMAIN reached : Is("kvs", reached[x])} |->
                          ToSet(Nodes(m, reached[k].keys))]
           nodes   == {x \in DOMAIN m : x > 0}
<1>1. PICK U : Accounted(U)
  BY DEF LeakInv
<1>2. made \in Nat /\ freed \in Int /\ made + 1 \in Nat /\ (made + 1) + 1 = made + 2
  BY DEF LeakInv
<1>3. Sane(U) /\ Closed(U) /\ R \in Seq(U) /\ Ending(R) /\ Ends(R, made + 2)
  <2>1. Shape(U, stack, held, ret, m) /\ Bounds(stack, held, ret, made + 1)
    BY <1>1 DEF Accounted
  <2>2. Closed(U) /\ R \in Seq(U) /\ Ending(R) /\ Ends(R, (made + 1) + 1)
    BY <1>2, <2>1, RootsAre
  <2> QED
    BY <1>2, <2>1, <2>2 DEF Shape
<1>4. reached = Within(R)
  <2>1. Open \o held \o <<ret>> = R
    BY OpenIs
  <2> QED
    BY <2>1 DEF Reached
<1> HIDE DEF R, reached
<1>5. reached \in Seq(U) /\ Reach(R) = ToSet(reached) /\ \A T : Total(T, R) = Tally(T, reached)
  BY <1>2, <1>3, <1>4, WithinIs
<1>6. /\ Total(Allocs(U), R) = made - freed + Depth
      /\ Total(Lost(U, m), R) = 0
      /\ \A x \in Cells(m) : Total(Having(U, m, x), R) = 1
  BY <1>1 DEF Accounted, Owned, R
<1>7. \A k \in DOMAIN reached : reached[k] \in U
  BY <1>5
<1>8. made - freed + Depth = Cardinality({k \in DOMAIN reached : Allocated(reached[k])})
  <2>1. {k \in DOMAIN reached : Allocated(reached[k])} = {k \in DOMAIN reached : reached[k] \in Allocs(U)}
    BY <1>7 DEF Allocs
  <2> QED
    BY <1>5, <1>6, <2>1 DEF Tally
<1>9. nodes = Cells(m)
  BY DEF Cells
<1>10. \A k \in DOMAIN lists : lists[k] \subseteq nodes
  <2> TAKE k \in DOMAIN lists
  <2>1. k \in DOMAIN reached /\ Is("kvs", reached[k]) /\ lists[k] = ToSet(Nodes(m, reached[k].keys))
    OBVIOUS
  <2>2. reached[k] \in Reach(R)
    BY <1>5, <2>1 DEF ToSet
  <2>3. reached[k] \notin Lost(U, m)
    BY <1>3, <1>6, <2>2, ReachFacts
  <2>4. PICK s : Chain(m, reached[k].keys, s)
    BY <1>7, <2>1, <2>3 DEF Lost
  <2>5. Nodes(m, reached[k].keys) = s
    BY <2>4, NodesOfChain DEF Memory, LeakInv, Stored
  <2> QED
    BY <1>9, <2>1, <2>4, <2>5, ChainCells
<1>11. \A x \in nodes : Cardinality({k \in DOMAIN lists : x \in lists[k]}) = 1
  <2> TAKE x \in nodes
  <2>1. {k \in DOMAIN lists : x \in lists[k]} = {k \in DOMAIN reached : reached[k] \in Having(U, m, x)}
    BY <1>7 DEF Having
  <2> QED
    BY <1>5, <1>6, <1>9, <2>1 DEF Tally
<1>12. DOMAIN data = nodes
  BY <1>9 DEF LeakInv, Stored
<1>13. place = "freed" => made = freed /\ DOMAIN m = {}
  <2> SUFFICES ASSUME place = "freed"
               PROVE  made = freed /\ DOMAIN m = {}
    OBVIOUS
  <2>1. stack = <<>> /\ held = <<>> /\ ret = NoEntity
    BY DEF LeakInv, Places
  <2>2. Opened(stack, m) = << >>
    BY <2>1 DEF Opened
  <2>3. \A T : Total(T, << >>) = 0
    BY <1>3, Nothing
  <2>4. Summed(stack, held, ret, m)
    BY <1>1, <1>2, RootsAre DEF Accounted
  <2>5. \A T : Fair(U, T) => Total(T, R) = 0
    <3> TAKE T
    <3> HAVE Fair(U, T)
    <3>1. Total(T, <<NoEntity>>) = 0
      BY <1>3, NoEntityIs
    <3>2. Total(T, R) = Total(T, Opened(stack, m)) + Total(T, held) + Total(T, <<ret>>)
      BY <2>4 DEF Summed, R
    <3>3. Total(T, Opened(stack, m)) = 0 /\ Total(T, held) = 0 /\ Total(T, <<ret>>) = 0
      BY <2>1, <2>2, <2>3, <3>1
    <3> QED
      BY <3>2, <3>3
  <2>6. Fair(U, Allocs(U)) /\ \A x : Fair(U, Having(U, m, x))
    BY <1>3, FairSets
  <2>7. Depth = 0
    BY <2>1 DEF Depth
  <2>8. made = freed
    BY <1>2, <1>6, <2>5, <2>6, <2>7
  <2>9. Cells(m) = {}
    BY <1>6, <2>5, <2>6
  <2>10. {x \in DOMAIN m : ~(x > 0)} = {}
    BY <2>1 DEF LeakInv, Stored, Variables
  <2>11. DOMAIN m = {}
    BY <2>9, <2>10 DEF Cells
  <2> QED
    BY <2>8, <2>11
<1> QED
  BY <1>8, <1>10, <1>11, <1>12, <1>13 DEF NothingLeaks, reached

(* Levels that are enough stay enough.                                     *)
LEMMA BoundsMore ==
    ASSUME NEW U, NEW open, NEW h, NEW r, NEW mem, Shape(U, open, h, r, mem),
           NEW n \in Nat, Bounds(open, h, r, n), NEW k \in Nat, n <= k
    PROVE  Bounds(open, h, r, k)
<1>1. Closed(U) /\ h \in Seq(U) /\ r \in U
  BY SaneClosed DEF Shape
<1>2. ASSUME NEW x \in DOMAIN open
      PROVE  Ends(Contents(open[x]), k)
  <2>1. Contents(open[x]) \in Seq(U) /\ Ends(Contents(open[x]), n)
    <3>1. open[x] \in U
      BY DEF Shape
    <3> QED
      BY <1>1, <3>1 DEF Closed, Bounds
  <2> QED
    BY <1>1, <2>1, EndsStays
<1>3. Ends(h, k)
  BY <1>1, EndsStays DEF Bounds
<1>4. Ends(<<r>>, k)
  <2> DEFINE w == <<r>>
  <2>1. w \in Seq(U) /\ Ends(w, n)
    BY <1>1 DEF Bounds
  <2> HIDE DEF w
  <2>2. Ends(w, k)
    BY <1>1, <2>1, EndsStays
  <2> QED
    BY <2>2 DEF w
<1> QED
  BY <1>2, <1>3, <1>4 DEF Bounds

(* Owned depends on the totals of the three sets only.                     *)
LEMMA OwnedSame ==
    ASSUME NEW U, Sane(U), NEW P, NEW R, NEW mem, NEW n, Owned(U, P, mem, n),
           \A T : Fair(U, T) => Total(T, R) = Total(T, P)
    PROVE  Owned(U, R, mem, n)
<1>1. Fair(U, Allocs(U)) /\ Fair(U, Lost(U, mem)) /\ \A x : Fair(U, Having(U, mem, x))
  BY FairSets
<1> QED
  BY <1>1 DEF Owned

(* Return is Returned, with the place it leaves.                           *)
LEMMA ReturnIs ==
    ASSUME NEW open, NEW ent, Return(open, ent), ret = NoEntity
    PROVE  /\ Returned(open, ent, stack', ret')
           /\ place' \in {"done", "next"}
           /\ place' = "done" => stack' = <<>>
           /\ place' = "next" => ret' = NoEntity
BY DEF Return, Returned, Got

(* A returned value does not change what the calls are.                    *)
LEMMA FramesSame ==
    ASSUME NEW S, NEW open \in Seq(S), NEW ent, NEW open2, NEW r2, Returned(open, ent, open2, r2)
    PROVE  /\ DOMAIN open2 = DOMAIN open /\ Len(open2) = Len(open)
           /\ \A k \in DOMAIN open : Is("kvs", open2[k]) <=> Is("kvs", open[k])
<1>1. CASE open = <<>>
  BY <1>1 DEF Returned
<1>2. CASE open # <<>>
  <2> DEFINE F == Front(open)
             top == Last(open)
             g == Got(top, ent)
             n == Len(F)
             V == S \cup {g}
  <2>1. /\ F \in Seq(S) /\ top \in S /\ open = Append(F, top) /\ Len(open) = n + 1
    BY <1>2, FrontLast
  <2>2. open2 = Append(F, g)
    BY <1>2 DEF Returned
  <2>3. DOMAIN g = DOMAIN top
    BY DEF Got
  <2>4. Is("kvs", g) <=> Is("kvs", top)
    BY <2>3 DEF Is
  <2> HIDE DEF F, top, g
  <2>5. F \in Seq(V) /\ g \in V
    BY <2>1, SeqWider
  <2>6. n \in Nat /\ DOMAIN open = 1..(n + 1) /\ open[n + 1] = top /\ \A k \in 1..n : open[k] = F[k]
    BY <2>1
  <2> HIDE DEF V
  <2>7. DOMAIN open2 = 1..(n + 1) /\ open2[n + 1] = g /\ \A k \in 1..n : open2[k] = F[k]
    BY <2>2, <2>5
  <2>8. Len(open2) = n + 1
    BY <2>2, <2>5
  <2>9. \A k \in 1..(n + 1) : k = n + 1 \/ k \in 1..n
    BY <2>6
  <2> HIDE DEF n
  <2> QED
    BY <2>1, <2>4, <2>6, <2>7, <2>8, <2>9
<1> QED
  BY <1>1, <1>2

(* Nor which variables keys there are.                                     *)
LEMMA SameVariables ==
    ASSUME NEW S, stack \in Seq(S), NEW ent, Returned(stack, ent, stack', ret')
    PROVE  Variables' = Variables /\ Depth' = Depth
<1>1. /\ DOMAIN stack' = DOMAIN stack /\ Len(stack') = Len(stack)
      /\ \A k \in DOMAIN stack : Is("kvs", stack'[k]) <=> Is("kvs", stack[k])
  BY FramesSame
<1>2. {j \in DOMAIN stack' : Is("kvs", stack'[j])} = {j \in DOMAIN stack : Is("kvs", stack[j])}
  BY <1>1
<1> QED
  BY <1>1, <1>2 DEF Variables, Depth

(* A token that stands for an entity alone has nothing in it.              *)
LEMMA ScalarIs ==
    /\ ~Is("arr", Scalar) /\ ~Is("kvs", Scalar) /\ ~Is("value", Scalar)
    /\ Is("none", Scalar) => Scalar = NoEntity
    /\ Contents(Scalar) = << >>
<1>1. \/ \E x : Scalar = [num |-> x]
      \/ \E x : Scalar = [bool |-> x]
      \/ Scalar = [null |-> 0]
      \/ \E x : Scalar = [str |-> x]
      \/ Scalar = NoEntity
  <2>1. Scalar \in {json_new_num(atof[token]), json_new_bool(TRUE), json_new_bool(FALSE),
                    json_null_ent, json_new_str(token), NoEntity}
    BY ZenonT(60) DEF Scalar
  <2> DEFINE s == Scalar
  <2>2. s = Scalar
    OBVIOUS
  <2> HIDE DEF s
  <2>3. s \in {json_new_num(atof[token]), json_new_bool(TRUE), json_new_bool(FALSE),
               json_null_ent, json_new_str(token), NoEntity}
    BY <2>1, <2>2
  <2>4. \/ \E x : s = [num |-> x]
        \/ \E x : s = [bool |-> x]
        \/ s = [null |-> 0]
        \/ \E x : s = [str |-> x]
        \/ s = NoEntity
    BY <2>3 DEF json_new_num, json_new_bool, json_null_ent, json_new_str
  <2> QED
    BY <2>2, <2>4
<1>2. DOMAIN Scalar \in {{"num"}, {"bool"}, {"null"}, {"str"}, {"none"}}
      /\ ("none" \in DOMAIN Scalar => Scalar = NoEntity)
  <2> DEFINE s == Scalar
  <2>1. s = Scalar
    OBVIOUS
  <2> HIDE DEF s
  <2> QED
    BY <1>1, <2>1 DEF NoEntity
<1>3. ~Is("arr", Scalar) /\ ~Is("kvs", Scalar) /\ ~Is("value", Scalar)
  BY <1>2 DEF Is
<1> QED
  BY <1>2, <1>3 DEF Is, Contents

(* json_parse_value on a token that stands for a value alone.              *)
LEMMA ValueKeeps ==
    ASSUME LeakInv, json_parse_value
    PROVE  LeakInv'
<1> DEFINE s == Scalar
           n == IF Is("none", s) \/ Is("null", s) THEN 0 ELSE 1
           P == Roots(stack, held, ret, m)
           R == Roots(stack', held', ret', m')
<1>1. /\ place = "value" /\ held' = held /\ Return(stack, s) /\ made' = made + n
      /\ m' = m /\ data' = data /\ freed' = freed
  BY DEF json_parse_value, Take, given, memory
<1>2. ret = NoEntity
  BY <1>1 DEF LeakInv, Places, Reading
<1>3. /\ Returned(stack, s, stack', ret')
      /\ place' \in {"done", "next"} /\ (place' = "done" => stack' = <<>>)
      /\ (place' = "next" => ret' = NoEntity)
  BY <1>1, <1>2, ReturnIs
<1>4. /\ ~Is("arr", s) /\ ~Is("kvs", s) /\ ~Is("value", s)
      /\ Is("none", s) => s = NoEntity
      /\ Contents(s) = << >>
  BY ScalarIs
<1> HIDE DEF s
<1>5. PICK U : Accounted(U)
  BY DEF LeakInv
<1>6. made \in Nat /\ made' \in Nat /\ freed \in Int /\ n \in Nat /\ made <= made'
      /\ (Allocated(s) <=> n = 1) /\ n \in {0, 1}
  BY <1>1 DEF LeakInv, Allocated
<1>65. Shape(U, stack, held, NoEntity, m) /\ Bounds(stack, held, NoEntity, made + 1) /\ Sane(U)
  BY <1>2, <1>5 DEF Accounted, Shape
<1> DEFINE V == U \cup {s}
<1>7. Sane(V) /\ U \subseteq V /\ s \in V
  <2>1. Fits(U, s)
    BY <1>4 DEF Fits
  <2> QED
    BY <1>65, <2>1, Grown
<1> HIDE DEF V, n
<1>8. Shape(V, stack, held, NoEntity, m)
  <2> DEFINE o == Opened(stack, m)
  <2>1. stack \in Seq(U) /\ o \in Seq(U) /\ held \in Seq(U) /\ NoEntity \in U
    BY <1>65 DEF Shape
  <2>2. stack \in Seq(V) /\ held \in Seq(V) /\ NoEntity \in V
    BY <1>7, <2>1, SeqWider
  <2> HIDE DEF o
  <2>3. o \in Seq(V)
    BY <1>7, <2>1, SeqWider
  <2> QED
    BY <1>7, <1>65, <2>2, <2>3 DEF Shape, o
<1>9. /\ Closed(V) /\ Ends(<<s>>, made + 1) /\ Whole(s) /\ \A T : Total(T, Contents(s)) = 0
  <2>1. Closed(V)
    BY <1>7, SaneClosed
  <2>2. Ends(Contents(s), 0) /\ Ending(Contents(s)) /\ \A T : Total(T, Contents(s)) = 0
    BY <1>4, <2>1, Nothing
  <2>3. Contents(s) \in Seq(V)
    BY <1>7, <2>1 DEF Closed
  <2>4. Ends(Contents(s), made)
    BY <1>6, <2>1, <2>2, <2>3, EndsStays
  <2>5. Ends(<<s>>, made + 1)
    BY <1>6, <1>7, <2>1, <2>4, EndsOne
  <2>6. Whole(s)
    BY <1>7, <2>1, <2>2, Alone DEF Whole
  <2> QED
    BY <2>1, <2>2, <2>5, <2>6
<1>10. PICK W : /\ V \subseteq W
                /\ Shape(W, stack', held, ret', m) /\ Bounds(stack', held, ret', made + 1)
                /\ FairSum(W, Roots(stack', held, ret', m), Roots(stack, held, NoEntity, m), <<s>>)
  <2>1. made + 1 \in Nat /\ made + 1 >= 1
    BY <1>6
  <2> QED
    BY <1>3, <1>4, <1>7, <1>65, <1>8, <1>9, <2>1, Returning
<1>11. P \in Seq(U) /\ Ending(P) /\ Owned(U, P, m, made - freed + Depth)
  <2>1. made + 1 \in Nat /\ Shape(U, stack, held, ret, m) /\ Bounds(stack, held, ret, made + 1)
    BY <1>5, <1>6 DEF Accounted
  <2>2. P \in Seq(U) /\ Ending(P)
    BY <2>1, RootsAre
  <2> QED
    BY <1>5, <2>2 DEF Accounted
<1>12. R = Roots(stack', held, ret', m) /\ P = Roots(stack, held, NoEntity, m)
  BY <1>1, <1>2
<1> HIDE DEF P, R
<1>13. U \subseteq W /\ Sane(W) /\ Sane(U) /\ s \in W
  BY <1>7, <1>10, <1>65 DEF Shape
<1>14. Owned(W, P, m, made - freed + Depth)
  BY <1>11, <1>13, OwnedWider
<1>15. Adds(W, R, P, s)
  <2> SUFFICES ASSUME NEW T, Fair(W, T)
               PROVE  Total(T, R) = Total(T, P) + (IF s \in T THEN 1 ELSE 0)
    BY DEF Adds
  <2>1. Total(T, R) = Total(T, P) + Total(T, <<s>>)
    BY <1>10, <1>12 DEF FairSum
  <2>2. Total(T, <<s>>) = (IF s \in T THEN 1 ELSE 0) + Total(T, Contents(s)) /\ Total(T, Contents(s)) = 0
    BY <1>9 DEF Whole
  <2> QED
    BY <2>1, <2>2
<1>16. stack \in Seq(U) /\ Memory(m) /\ Depth \in Nat
  <2>1. stack \in Seq(U) /\ Memory(m)
    BY <1>65 DEF Shape, LeakInv, Stored
  <2> QED
    BY <2>1 DEF Depth
<1>17. Variables' = Variables /\ Depth' = Depth
  BY <1>3, <1>16, SameVariables
<1>18. Owned(W, R, m, made' - freed' + Depth')
  <2>1. made - freed + Depth \in Int
    BY <1>6, <1>16
  <2>2. Owned(W, R, m, (made - freed + Depth) + (IF Allocated(s) THEN 1 ELSE 0))
    BY <1>4, <1>13, <1>14, <1>15, <1>16, <2>1, OwnedAdds
  <2>3. made' - freed' + Depth' = (made - freed + Depth) + (IF Allocated(s) THEN 1 ELSE 0)
    BY <1>1, <1>6, <1>16, <1>17
  <2> QED
    BY <2>2, <2>3
<1>19. Accounted(W)'
  <2>1. Bounds(stack', held, ret', made' + 1)
    <3> DEFINE a == made + 1
               new == made'
               b == new + 1
    <3>0. made \in Nat /\ made' \in Nat /\ made <= made'
      BY <1>6
    <3>1. a \in Nat /\ b \in Nat /\ a <= b
      <4>1. made \in Nat /\ new \in Nat /\ made <= new
        BY <3>0
      <4> HIDE DEF new
      <4> QED
        BY <4>1
    <3>2. Bounds(stack', held, ret', a)
      BY <1>10
    <3> HIDE DEF a, b
    <3>3. Bounds(stack', held, ret', b)
      BY <1>10, <3>1, <3>2, BoundsMore
    <3> QED
      BY <3>3 DEF b, new
  <2>2. Shape(W, stack', held', ret', m') /\ Bounds(stack', held', ret', made' + 1)
    BY <1>1, <1>10, <2>1
  <2>3. Owned(W, R, m', made' - freed' + Depth')
    BY <1>1, <1>18
  <2> QED
    BY <2>2, <2>3 DEF Accounted, R
<1>20. Stored'
  BY <1>1, <1>17 DEF LeakInv, Stored, Memory, Cells
<1>21. Places'
  BY <1>3 DEF Places, Reading
<1>22. freed' \in Int
  BY <1>1, <1>6
<1> QED
  BY <1>6, <1>19, <1>20, <1>21, <1>22 DEF LeakInv

(* A call is opened that has made nothing yet.                             *)
LEMMA Opening ==
    ASSUME NEW U, NEW open, NEW h, NEW mem, Memory(mem), NEW next, Memory(next),
           Shape(U, open, h, NoEntity, mem),
           NEW n \in Nat, Bounds(open, h, NoEntity, n),
           Cells(next) = Cells(mem), \A x \in Cells(mem) : next[x] = mem[x],
           \A k \in DOMAIN open : Is("kvs", open[k]) => next[KeysOf(k)] = mem[KeysOf(k)],
           NEW f, Frame(f), Fits(U, f), Contents(f) = << >>,
           Is("kvs", f) => next[KeysOf(Len(open) + 1)] = NULL,
           NEW u \in Int, Owned(U, Roots(open, h, NoEntity, mem), mem, u)
    PROVE  \E W : /\ Shape(W, Append(open, f), h, NoEntity, next)
                  /\ Bounds(Append(open, f), h, NoEntity, n)
                  /\ Owned(W, Roots(Append(open, f), h, NoEntity, next), next, u + 1)
<1> DEFINE P == Roots(open, h, NoEntity, mem)
           R == Roots(Append(open, f), h, NoEntity, next)
           V == U \cup {f}
           k == Len(open) + 1
           e == OpenEnt(f, k, next)
           W == V \cup {e}
<1>1. Opened(open, next) = Opened(open, mem)
  BY OpenedSame
<1>2. Shape(U, open, h, NoEntity, next) /\ P = Roots(open, h, NoEntity, next)
  BY <1>1 DEF Shape, Roots
<1>3. Sane(U) /\ open \in Seq(U)
  BY DEF Shape
<1>4. Sane(V) /\ U \subseteq V /\ f \in V
  BY <1>3, Grown
<1> HIDE DEF V, k
<1>5. /\ Fits(V, e) /\ Contents(e) = << >> /\ Allocated(e)
      /\ Is("kvs", e) <=> Is("kvs", f)
      /\ Is("kvs", e) => e.keys = next[KeysOf(k)]
  BY <1>4, OpenEntIs
<1> HIDE DEF e
<1>6. Sane(W) /\ V \subseteq W /\ e \in W
  BY <1>4, <1>5, Grown
<1> HIDE DEF W
<1>7. Closed(W) /\ U \subseteq W /\ f \in W /\ open \in Seq(W)
  <2>1. U \subseteq W /\ f \in W
    BY <1>4, <1>6
  <2>2. open \in Seq(W)
    BY <1>3, <2>1, SeqWider
  <2> QED
    BY <1>6, <2>1, <2>2, SaneClosed
<1>8. Ends(Contents(f), n)
  <2> DEFINE s == << >>
  <2>1. s \in Seq(W) /\ 0 \in Nat /\ 0 <= n
    OBVIOUS
  <2>2. Ends(s, 0)
    BY <1>7, Nothing
  <2> HIDE DEF s
  <2>3. Ends(s, n)
    BY <1>7, <2>1, <2>2, EndsStays
  <2> QED
    BY <2>3 DEF s
<1>9. Shape(W, Append(open, f), h, NoEntity, next) /\ Bounds(Append(open, f), h, NoEntity, n)
  <2>1. OpenEnt(f, Len(open) + 1, next) \in W
    BY <1>6 DEF e, k
  <2> QED
    BY <1>2, <1>6, <1>7, <1>8, <2>1, ShapeAppend
<1>10. Whole(e) /\ SumOf(R, Roots(open, h, NoEntity, next), <<e>>)
  BY <1>7, <1>9, Popped DEF e, k
<1>11. P \in Seq(U) /\ Ending(P)
  BY <1>2, RootsAre
<1> HIDE DEF P, R
<1>12. Owned(U, P, next, u)
  <2>1. Owned(U, P, mem, u)
    BY DEF P
  <2> QED
    BY <1>3, <1>11, <2>1, OwnedMemory
<1>13. Owned(W, P, next, u)
  BY <1>3, <1>6, <1>7, <1>11, <1>12, OwnedWider
<1>14. Adds(W, R, P, e)
  <2> SUFFICES ASSUME NEW T, Fair(W, T)
               PROVE  Total(T, R) = Total(T, P) + (IF e \in T THEN 1 ELSE 0)
    BY DEF Adds
  <2>1. Total(T, R) = Total(T, P) + Total(T, <<e>>)
    BY <1>2, <1>10 DEF SumOf
  <2>2. Total(T, <<e>>) = (IF e \in T THEN 1 ELSE 0) + Total(T, Contents(e))
    BY <1>10 DEF Whole
  <2>3. Total(T, Contents(e)) = 0
    BY <1>5, <1>7, Nothing
  <2> QED
    BY <2>1, <2>2, <2>3
<1>15. Owned(W, R, next, u + 1)
  <2>1. Is("kvs", e) => e.keys = NULL
    BY <1>5 DEF k
  <2>2. Owned(W, R, next, u + (IF Allocated(e) THEN 1 ELSE 0))
    BY <1>6, <1>13, <1>14, <2>1, OwnedAdds
  <2> QED
    BY <1>5, <2>2
<1> QED
  BY <1>9, <1>15 DEF R

(* A call that is opened has its variable keys, if it makes an object.     *)
LEMMA VariablesMore ==
    ASSUME NEW S, stack \in Seq(S), NEW f, stack' = Append(stack, f)
    PROVE  /\ Depth' = Depth + 1 /\ Depth \in Nat
           /\ Variables' = Variables \cup (IF Is("kvs", f) THEN {KeysOf(Depth + 1)} ELSE {})
           /\ stack' # <<>> /\ Last(stack') = f
<1> DEFINE n == Len(stack)
           G == Append(stack, f)
<1>1. /\ n \in Nat /\ DOMAIN stack = 1..n /\ DOMAIN G = 1..(n + 1)
      /\ G[n + 1] = f /\ \A k \in 1..n : G[k] = stack[k]
      /\ Len(G) = n + 1 /\ G # <<>>
  <2> DEFINE V == S \cup {f}
  <2>1. stack \in Seq(V) /\ f \in V
    BY SeqWider
  <2> HIDE DEF V
  <2> QED
    BY <2>1
<1>2. Depth = n /\ Depth' = Len(G)
  BY DEF Depth
<1>3. Last(G) = G[n + 1]
  BY <1>1 DEF Last
<1> HIDE DEF G, n
<1>4. /\ n + 1 \in 1..(n + 1) /\ \A k \in 1..n : k \in 1..(n + 1)
      /\ \A k \in 1..(n + 1) : k = n + 1 \/ k \in 1..n
  BY <1>1
<1>5. {j \in DOMAIN G : Is("kvs", G[j])}
          = {j \in DOMAIN stack : Is("kvs", stack[j])} \cup (IF Is("kvs", f) THEN {n + 1} ELSE {})
  BY <1>1, <1>4
<1>6. Variables' = {KeysOf(k) : k \in {j \in DOMAIN G : Is("kvs", G[j])}}
  BY DEF Variables, G
<1>7. Variables' = Variables \cup (IF Is("kvs", f) THEN {KeysOf(n + 1)} ELSE {})
  BY <1>5, <1>6 DEF Variables
<1> QED
  BY <1>1, <1>2, <1>3, <1>7 DEF G

(* json_parse_array begins.                                                *)
LEMMA ArrayBegins ==
    ASSUME LeakInv, ArrayBegin
    PROVE  LeakInv'
<1> DEFINE f == [arr |-> << >>]
           n == made + 1
           u == made - freed + Depth
<1>1. /\ place = "value" /\ held' = held /\ stack' = Append(stack, f)
      /\ place' = place /\ ret' = ret /\ m' = m /\ data' = data /\ made' = made /\ freed' = freed
  BY DEF ArrayBegin, Take, given, memory, counts
<1>2. ret = NoEntity
  BY <1>1 DEF LeakInv, Places, Reading
<1>3. PICK U : Accounted(U)
  BY DEF LeakInv
<1>4. /\ Shape(U, stack, held, NoEntity, m) /\ Bounds(stack, held, NoEntity, n)
      /\ Owned(U, Roots(stack, held, NoEntity, m), m, u)
      /\ stack \in Seq(U)
  BY <1>2, <1>3 DEF Accounted, Shape
<1>5. /\ Depth' = Depth + 1 /\ Depth \in Nat
      /\ Variables' = Variables \cup (IF Is("kvs", f) THEN {KeysOf(Depth + 1)} ELSE {})
      /\ stack' # <<>> /\ Last(stack') = f
  BY <1>1, <1>4, VariablesMore
<1>6. n \in Nat /\ u \in Int /\ Memory(m)
  BY <1>5 DEF LeakInv, Stored
<1>7. Is("arr", f) /\ ~Is("kvs", f) /\ ~Is("value", f) /\ f.arr = << >>
  BY DEF Is
<1> HIDE DEF f
<1>8. Frame(f) /\ Fits(U, f) /\ Contents(f) = << >>
  <2>1. << >> \in Seq(U)
    OBVIOUS
  <2> QED
    BY <1>7, <2>1 DEF Frame, Fits, Contents
<1> HIDE DEF n, u
<1>9. PICK W : /\ Shape(W, Append(stack, f), held, NoEntity, m)
               /\ Bounds(Append(stack, f), held, NoEntity, n)
               /\ Owned(W, Roots(Append(stack, f), held, NoEntity, m), m, u + 1)
  BY <1>4, <1>6, <1>7, <1>8, Opening
<1>10. Accounted(W)'
  <2>1. u + 1 = made' - freed' + Depth' /\ made' + 1 = n
    BY <1>1, <1>5, <1>6 DEF u, n, LeakInv
  <2> QED
    BY <1>1, <1>2, <1>9, <2>1 DEF Accounted
<1>11. Stored'
  BY <1>1, <1>5, <1>7 DEF LeakInv, Stored, Memory, Cells
<1>12. Places'
  BY <1>1, <1>2 DEF Places, Reading
<1> QED
  BY <1>1, <1>10, <1>11, <1>12 DEF LeakInv

(* json_parse_object begins.                                               *)
LEMMA ObjectBegins ==
    ASSUME LeakInv, ObjectBegin
    PROVE  LeakInv'
<1> DEFINE f == [kvs |-> << >>, key |-> << >>]
           n == made + 1
           u == made - freed + Depth
           y == KeysOf(Depth + 1)
<1>1. /\ place = "value" /\ held' = held /\ stack' = Append(stack, f)
      /\ place' = "key" /\ ret' = ret /\ data' = data /\ made' = made /\ freed' = freed
      /\ m' = Store(m, y, NULL)
  BY DEF ObjectBegin, Take, given, counts
<1>2. ret = NoEntity
  BY <1>1 DEF LeakInv, Places, Reading
<1>3. PICK U : Accounted(U)
  BY DEF LeakInv
<1>4. /\ Shape(U, stack, held, NoEntity, m) /\ Bounds(stack, held, NoEntity, n)
      /\ Owned(U, Roots(stack, held, NoEntity, m), m, u)
      /\ stack \in Seq(U)
  BY <1>2, <1>3 DEF Accounted, Shape
<1>5. /\ Depth' = Depth + 1 /\ Depth \in Nat
      /\ Variables' = Variables \cup (IF Is("kvs", f) THEN {y} ELSE {})
      /\ stack' # <<>> /\ Last(stack') = f
  BY <1>1, <1>4, VariablesMore
<1>6. n \in Nat /\ u \in Int /\ Memory(m)
  BY <1>5 DEF LeakInv, Stored
<1>7. Is("kvs", f) /\ ~Is("arr", f) /\ ~Is("value", f) /\ ~Is("none", f) /\ ~Is("null", f) /\ f.kvs = << >>
  BY DEF Is
<1> HIDE DEF f
<1>8. Frame(f) /\ Fits(U, f) /\ Contents(f) = << >>
  <2>1. << >> \in Seq(Valued(U)) /\ [x \in DOMAIN << >> |-> << >>[x].value] = << >>
    OBVIOUS
  <2> QED
    BY <1>7, <2>1 DEF Frame, Fits, Contents, Allocated
<1>85. y \in Int /\ ~(y > 0)
  BY <1>5, KeysOfIs
<1> HIDE DEF n, u, y
<1>9. /\ DOMAIN m' = DOMAIN m \cup {y} /\ m'[y] = NULL
      /\ \A x \in DOMAIN m : x # y => m'[x] = m[x]
  BY <1>1 DEF Store
<1>10. /\ Memory(m') /\ Cells(m') = Cells(m) /\ \A x \in Cells(m) : m'[x] = m[x]
  <2>1. IsFiniteSet(DOMAIN m')
    BY <1>6, <1>9, FS_AddElement DEF Memory
  <2> QED
    BY <1>6, <1>85, <1>9, <2>1 DEF Memory, Cells
<1>11. {x \in DOMAIN m' : ~(x > 0)} = Variables \cup {y}
  BY <1>85, <1>9 DEF LeakInv, Stored
<1>12. \A k \in DOMAIN stack : Is("kvs", stack[k]) => m'[KeysOf(k)] = m[KeysOf(k)]
  <2> SUFFICES ASSUME NEW k \in DOMAIN stack, Is("kvs", stack[k])
               PROVE  m'[KeysOf(k)] = m[KeysOf(k)]
    OBVIOUS
  <2>1. k \in Nat /\ k # Depth + 1 /\ Depth + 1 \in Nat
    BY <1>4 DEF Depth
  <2>2. KeysOf(k) # y
    BY <2>1, KeysOfIs DEF y
  <2>3. KeysOf(k) \in Variables
    BY DEF Variables
  <2>4. KeysOf(k) \in DOMAIN m
    BY <2>3 DEF LeakInv, Stored
  <2> QED
    BY <1>9, <2>2, <2>4
<1>13. PICK W : /\ Shape(W, Append(stack, f), held, NoEntity, m')
                /\ Bounds(Append(stack, f), held, NoEntity, n)
                /\ Owned(W, Roots(Append(stack, f), held, NoEntity, m'), m', u + 1)
  <2>1. m'[KeysOf(Len(stack) + 1)] = NULL
    BY <1>9 DEF y, Depth
  <2> QED
    BY <1>4, <1>6, <1>8, <1>10, <1>12, <2>1, Opening
<1>14. Accounted(W)'
  <2>1. u + 1 = made' - freed' + Depth' /\ made' + 1 = n
    BY <1>1, <1>5, <1>6 DEF u, n, LeakInv
  <2> QED
    BY <1>1, <1>2, <1>13, <2>1 DEF Accounted
<1>15. Stored'
  <2>1. Variables' = Variables \cup {y}
    BY <1>5, <1>7
  <2>2. DOMAIN data' = Cells(m')
    BY <1>1, <1>10 DEF LeakInv, Stored
  <2>3. {x \in DOMAIN m' : ~(x > 0)} = Variables'
    BY <1>11, <2>1
  <2>4. Cells(m)' = Cells(m') /\ Memory(m)' /\ Memory(m')
    BY <1>10 DEF Cells, Memory
  <2> QED
    BY <2>2, <2>3, <2>4 DEF Stored
<1>16. Places'
  BY <1>1, <1>2, <1>5, <1>7 DEF Places, Reading
<1> QED
  BY <1>1, <1>14, <1>15, <1>16 DEF LeakInv

(* A node is pushed to the list of the innermost call.                     *)
LEMMA Pushing ==
    ASSUME NEW U, NEW F \in Seq(U), NEW top \in U, NEW h,
           NEW mem, Memory(mem), NEW next, Memory(next),
           Shape(U, Append(F, top), h, NoEntity, mem),
           NEW n \in Nat, Bounds(Append(F, top), h, NoEntity, n),
           NEW g, Frame(g), Fits(U, g), Contents(g) = Contents(top),
           Is("kvs", top), Is("kvs", g),
           NEW y, y \notin Cells(mem),
           next[KeysOf(Len(F) + 1)] = y, next[y] = mem[KeysOf(Len(F) + 1)],
           Cells(next) = Cells(mem) \cup {y}, \A x \in Cells(mem) : next[x] = mem[x],
           \A k \in DOMAIN F : Is("kvs", F[k]) => next[KeysOf(k)] = mem[KeysOf(k)],
           NEW u, Owned(U, Roots(Append(F, top), h, NoEntity, mem), mem, u)
    PROVE  \E W : /\ Shape(W, Append(F, g), h, NoEntity, next)
                  /\ Bounds(Append(F, g), h, NoEntity, n)
                  /\ Owned(W, Roots(Append(F, g), h, NoEntity, next), next, u)
<1> DEFINE P == Roots(Append(F, top), h, NoEntity, mem)
           R == Roots(Append(F, g), h, NoEntity, next)
           q == Roots(F, h, NoEntity, mem)
           k == Len(F) + 1
           v == KeysOf(k)
           d == OpenEnt(top, k, mem)
           e == OpenEnt(g, k, next)
           V == U \cup {g}
           W == V \cup {e}
           b == Contents(top)
           Q == Then(q, b)
<1>1. /\ Shape(U, F, h, NoEntity, mem) /\ Bounds(F, h, NoEntity, n)
      /\ top \in U /\ Frame(top) /\ Ends(b, n)
      /\ d \in U /\ Contents(d) = b
      /\ Whole(d) /\ SumOf(P, q, <<d>>)
  BY Popped
<1>2. Sane(U) /\ Closed(U) /\ F \in Seq(U) /\ b \in Seq(U)
  <2>1. Sane(U) /\ F \in Seq(U)
    BY <1>1 DEF Shape
  <2>2. Closed(U)
    BY <2>1, SaneClosed
  <2> QED
    BY <1>1, <2>1, <2>2 DEF Closed
<1>3. Is("kvs", d) /\ d.keys = mem[v]
  <2> HIDE DEF d
  <2>1. /\ Is("kvs", d) <=> Is("kvs", top)
        /\ Is("kvs", d) => d.keys = mem[KeysOf(k)]
    BY <1>1, <1>2, OpenEntIs DEF d
  <2> QED
    BY <2>1
<1>4. Shape(U, F, h, NoEntity, next) /\ q = Roots(F, h, NoEntity, next)
  <2>1. Opened(F, next) = Opened(F, mem)
    BY OpenedSame
  <2> QED
    BY <1>1, <2>1 DEF Shape, Roots
<1>5. Sane(V) /\ U \subseteq V /\ g \in V
  BY <1>2, Grown
<1> HIDE DEF V, k, d, b
<1>6. /\ Fits(V, e) /\ Contents(e) = b
      /\ Is("kvs", e) /\ e.keys = y
  <2> HIDE DEF e
  <2>1. /\ Fits(V, e) /\ Contents(e) = Contents(g)
        /\ Is("kvs", e) <=> Is("kvs", g)
        /\ Is("kvs", e) => e.keys = next[KeysOf(k)]
    BY <1>5, OpenEntIs DEF e
  <2> QED
    BY <2>1 DEF b, k
<1> HIDE DEF e
<1>7. Sane(W) /\ V \subseteq W /\ e \in W
  BY <1>5, <1>6, Grown
<1> HIDE DEF W
<1>8. Closed(W) /\ U \subseteq W /\ g \in W /\ F \in Seq(W)
  <2>1. U \subseteq W /\ g \in W
    BY <1>5, <1>7
  <2>2. F \in Seq(W)
    BY <1>2, <2>1, SeqWider
  <2> QED
    BY <1>7, <2>1, <2>2, SaneClosed
<1>9. Shape(W, Append(F, g), h, NoEntity, next) /\ Bounds(Append(F, g), h, NoEntity, n)
  <2>1. OpenEnt(g, Len(F) + 1, next) \in W
    BY <1>7 DEF e, k
  <2>2. Ends(Contents(g), n)
    BY <1>1 DEF b
  <2> QED
    BY <1>1, <1>4, <1>7, <1>8, <2>1, <2>2, ShapeAppend
<1>10. Whole(e) /\ SumOf(R, Roots(F, h, NoEntity, next), <<e>>)
  BY <1>8, <1>9, Popped DEF e, k
<1>11. q \in Seq(U) /\ Ending(q) /\ Ending(b)
  <2>1. q \in Seq(U) /\ Ending(q)
    BY <1>1, RootsAre
  <2> QED
    BY <1>1, <2>1 DEF Ending
<1>115. P \in Seq(U) /\ Ending(P)
  BY RootsAre
<1> HIDE DEF P, R, q
<1>12. Q \in Seq(U) /\ Ending(Q) /\ \A T : Total(T, Q) = Total(T, q) + Total(T, b)
  BY <1>2, <1>11, Together, EndingThen
<1>125. \A T : Total(T, q) \in Nat /\ Total(T, b) \in Nat
  <2>1. \A T : Total(T, q) \in Nat
    BY <1>2, <1>11, TotalFacts
  <2>2. \A T : Total(T, b) \in Nat
    BY <1>2, <1>11, TotalFacts
  <2> QED
    BY <2>1, <2>2
<1> HIDE DEF Q
<1>13. Adds(W, P, Q, d)
  <2> SUFFICES ASSUME NEW T, Fair(W, T)
               PROVE  Total(T, P) = Total(T, Q) + (IF d \in T THEN 1 ELSE 0)
    BY DEF Adds
  <2>1. Total(T, P) = Total(T, q) + Total(T, <<d>>)
    BY <1>1 DEF SumOf
  <2>2. Total(T, <<d>>) = (IF d \in T THEN 1 ELSE 0) + Total(T, b)
    BY <1>1 DEF Whole
  <2> QED
    BY <1>12, <1>125, <2>1, <2>2
<1>14. Adds(W, R, Q, e)
  <2> SUFFICES ASSUME NEW T, Fair(W, T)
               PROVE  Total(T, R) = Total(T, Q) + (IF e \in T THEN 1 ELSE 0)
    BY DEF Adds
  <2>1. Total(T, R) = Total(T, q) + Total(T, <<e>>)
    BY <1>4, <1>10 DEF SumOf
  <2>2. Total(T, <<e>>) = (IF e \in T THEN 1 ELSE 0) + Total(T, b)
    BY <1>6, <1>10 DEF Whole
  <2> QED
    BY <1>12, <1>125, <2>1, <2>2
<1>15. Owned(W, P, mem, u)
  <2>1. Owned(U, P, mem, u)
    BY DEF P
  <2> QED
    BY <1>2, <1>7, <1>8, <1>115, <2>1, OwnedWider
<1>16. Owned(W, R, next, u)
  <2>1. Q \in Seq(W)
    BY <1>8, <1>12, SeqWider
  <2>2. d \in W /\ e \in W /\ next[y] = d.keys
    BY <1>1, <1>3, <1>7, <1>8 DEF k
  <2> QED
    BY <1>3, <1>6, <1>7, <1>12, <1>13, <1>14, <1>15, <2>1, <2>2, OwnedPush
<1> QED
  BY <1>9, <1>16 DEF R

(* The innermost call changes.                                             *)
LEMMA VariablesTop ==
    ASSUME NEW S, stack \in Seq(S), stack # <<>>, NEW g, stack' = Append(Front(stack), g),
           Is("kvs", g) <=> Is("kvs", Last(stack))
    PROVE  /\ Depth' = Depth /\ Depth \in Nat /\ Depth = Len(Front(stack)) + 1
           /\ Variables' = Variables
           /\ stack' # <<>> /\ Last(stack') = g
<1> DEFINE F == Front(stack)
           top == Last(stack)
           n == Len(F)
           G == Append(F, g)
           V == S \cup {g}
<1>1. /\ F \in Seq(S) /\ top \in S /\ stack = Append(F, top) /\ Len(stack) = n + 1
  BY FrontLast
<1> HIDE DEF F, top
<1>2. F \in Seq(V) /\ g \in V
  BY <1>1, SeqWider
<1>3. n \in Nat /\ DOMAIN stack = 1..(n + 1) /\ stack[n + 1] = top /\ \A k \in 1..n : stack[k] = F[k]
  BY <1>1
<1> HIDE DEF V
<1>4. /\ DOMAIN G = 1..(n + 1) /\ G[n + 1] = g /\ \A k \in 1..n : G[k] = F[k]
      /\ Len(G) = n + 1 /\ G # <<>>
  BY <1>2
<1>5. Last(G) = g
  BY <1>4 DEF Last
<1>6. stack' = G
  BY DEF F
<1> HIDE DEF G, n
<1>7. \A k \in 1..(n + 1) : k = n + 1 \/ k \in 1..n
  BY <1>3
<1>8. {j \in DOMAIN G : Is("kvs", G[j])} = {j \in DOMAIN stack : Is("kvs", stack[j])}
  BY <1>3, <1>4, <1>7 DEF top
<1>9. Variables' = Variables
  BY <1>6, <1>8 DEF Variables
<1>10. Depth' = Depth /\ Depth \in Nat /\ Depth = n + 1
  BY <1>1, <1>3, <1>4, <1>6 DEF Depth
<1> QED
  BY <1>4, <1>5, <1>6, <1>9, <1>10 DEF n, F

(* The frame of an object with another key.                                *)
LEMMA KeyIs ==
    ASSUME NEW U, Sane(U), NEW f \in U, Frame(f), Is("kvs", f), NEW x
    PROVE  LET g == [f EXCEPT !.key = x] IN
           Frame(g) /\ Fits(U, g) /\ Contents(g) = Contents(f) /\ Is("kvs", g)
<1> DEFINE g == [f EXCEPT !.key = x]
<1>1. DOMAIN g = DOMAIN f /\ \A z \in DOMAIN f : z # "key" => g[z] = f[z]
  OBVIOUS
<1> HIDE DEF g
<1>2. "kvs" \in DOMAIN f /\ "arr" \notin DOMAIN f /\ "kvs" # "key" /\ "value" # "key"
  BY DEF Frame, Is
<1>3. g.kvs = f.kvs /\ ("value" \in DOMAIN f => g.value = f.value)
  BY <1>1, <1>2
<1>4. Is("kvs", g) /\ ~Is("arr", g) /\ (Is("value", g) <=> Is("value", f)) /\ (Allocated(g) <=> Allocated(f))
  BY <1>1, <1>2 DEF Is, Allocated
<1>5. Fits(U, f)
  BY DEF Sane
<1>6. Fits(U, g)
  BY <1>3, <1>4, <1>5 DEF Fits, Is
<1>7. Contents(g) = Contents(f)
  BY <1>1, <1>2, <1>3, <1>4 DEF Contents, Is
<1> QED
  BY <1>4, <1>6, <1>7 DEF g, Frame

(* A key of an object, pushed to its list.                                 *)
LEMMA ObjectKeeps ==
    ASSUME LeakInv, ObjectKey
    PROVE  LeakInv'
<1> DEFINE F == Front(stack)
           top == Last(stack)
           g == [top EXCEPT !.key = token]
           n == made + 1
           u == made - freed + Depth
           v == KeysOf(Depth)
           y == NewNode
<1>1. /\ place = "key" /\ held' = held /\ stack' = [stack EXCEPT ![Depth].key = token]
      /\ place' = "colon" /\ ret' = ret /\ made' = made /\ freed' = freed
      /\ m' = ll_push(Store(m, y, NULL), v, y)
      /\ data' = Store(data, y, token)
  BY DEF ObjectKey, Take, given, counts
<1>2. ret = NoEntity /\ stack # <<>> /\ Is("kvs", top)
  BY <1>1 DEF LeakInv, Places, Reading
<1>3. PICK U : Accounted(U)
  BY DEF LeakInv
<1>4. /\ Shape(U, stack, held, NoEntity, m) /\ Bounds(stack, held, NoEntity, n)
      /\ Owned(U, Roots(stack, held, NoEntity, m), m, u)
      /\ stack \in Seq(U)
  BY <1>2, <1>3 DEF Accounted, Shape
<1>5. /\ F \in Seq(U) /\ top \in U /\ stack = Append(F, top) /\ Len(stack) = Len(F) + 1
      /\ Depth = Len(F) + 1 /\ Depth \in Nat
  <2>1. /\ F \in Seq(U) /\ top \in U /\ stack = Append(F, top) /\ Len(stack) = Len(F) + 1
    BY <1>2, <1>4, FrontLast
  <2>2. Len(F) \in Nat
    BY <2>1
  <2> QED
    BY <2>1, <2>2 DEF Depth
<1>6. stack' = Append(F, g)
  <2> DEFINE len == Len(F)
  <2> HIDE DEF F, top
  <2>1. /\ len \in Nat /\ DOMAIN stack = 1..(len + 1) /\ stack[len + 1] = top
        /\ \A k \in 1..len : stack[k] = F[k]
    BY <1>5
  <2> DEFINE new == stack'
  <2>15. new = [stack EXCEPT ![len + 1] = g]
    BY <1>1, <1>5, <2>1
  <2> HIDE DEF new, g
  <2>2. /\ DOMAIN new = 1..(len + 1) /\ new[len + 1] = g
        /\ \A k \in 1..len : new[k] = F[k]
        /\ new = [k \in 1..(len + 1) |-> new[k]]
    <3>1. /\ len \in Nat /\ len + 1 \in 1..(len + 1) /\ DOMAIN stack = 1..(len + 1)
          /\ \A k \in 1..len : stack[k] = F[k] /\ k \in 1..(len + 1) /\ k # len + 1
      BY <2>1
    <3> HIDE DEF len
    <3>2. DOMAIN new = 1..(len + 1) /\ new[len + 1] = g
      BY <2>15, <3>1
    <3>3. \A k \in 1..len : new[k] = stack[k]
      BY <2>15, <3>1
    <3>4. new = [k \in 1..(len + 1) |-> new[k]]
      BY <2>15, <3>1
    <3> QED
      BY <3>1, <3>2, <3>3, <3>4
  <2> DEFINE X == U \cup {g}
             G == Append(F, g)
  <2>3. F \in Seq(X) /\ g \in X
    BY <1>5, SeqWider
  <2> HIDE DEF X
  <2>4. G \in Seq(X) /\ Len(G) = len + 1 /\ G[len + 1] = g /\ \A k \in 1..len : G[k] = F[k]
    BY <2>3
  <2> HIDE DEF G
  <2>5. G = [k \in 1..(len + 1) |-> G[k]]
    BY <2>4
  <2>6. \A k \in 1..(len + 1) : k = len + 1 \/ k \in 1..len
    BY <2>1
  <2>7. \A k \in 1..(len + 1) : G[k] = new[k]
    BY <2>2, <2>4, <2>6
  <2>8. G = new
    BY <2>2, <2>5, <2>7
  <2> QED
    BY <2>8 DEF G, new
<1>7. Sane(U) /\ Frame(top)
  <2>1. Len(stack) \in DOMAIN stack /\ stack[Len(stack)] = top
    BY <1>4, <1>5 DEF Last
  <2> QED
    BY <1>4, <2>1 DEF Shape
<1>8. Frame(g) /\ Fits(U, g) /\ Contents(g) = Contents(top) /\ Is("kvs", g)
  BY <1>2, <1>5, <1>7, KeyIs
<1> HIDE DEF g
<1>9. Depth' = Depth /\ Variables' = Variables /\ stack' # <<>> /\ Last(stack') = g
  BY <1>2, <1>4, <1>6, <1>8, VariablesTop
<1>10. n \in Nat /\ Memory(m) /\ v \in Int /\ ~(v > 0) /\ v # NULL
  BY <1>5, KeysOfIs DEF LeakInv, Stored
<1>11. y \in Nat \ {0} /\ y \notin DOMAIN m /\ y > 0 /\ y # v /\ y # NULL
  BY <1>10, NewNodeIs DEF NULL
<1>12. v \in DOMAIN m
  <2>1. Depth \in DOMAIN stack /\ Is("kvs", stack[Depth])
    BY <1>2, <1>4, <1>5 DEF Last
  <2>2. v \in Variables
    BY <2>1 DEF Variables
  <2> QED
    BY <2>2 DEF LeakInv, Stored
<1>125. \A k \in DOMAIN F : Is("kvs", F[k]) => KeysOf(k) \in DOMAIN m /\ KeysOf(k) # v
  <2> SUFFICES ASSUME NEW k \in DOMAIN F, Is("kvs", F[k])
               PROVE  KeysOf(k) \in DOMAIN m /\ KeysOf(k) # v
    OBVIOUS
  <2>1. k \in DOMAIN stack /\ stack[k] = F[k]
    BY <1>2, <1>4, FrontLast
  <2>2. KeysOf(k) \in Variables
    BY <2>1 DEF Variables
  <2>3. k \in Nat /\ k # Depth
    BY <1>5
  <2> QED
    BY <1>5, <2>2, <2>3, KeysOfIs DEF LeakInv, Stored
<1> HIDE DEF n, u, v, y, F
<1>13. /\ DOMAIN m' = DOMAIN m \cup {y} /\ m'[y] = m[v] /\ m'[v] = y
       /\ \A x \in DOMAIN m : x # v => m'[x] = m[x]
  <2> DEFINE s == Store(m, y, NULL)
  <2>1. /\ DOMAIN s = DOMAIN m \cup {y} /\ s[y] = NULL
        /\ \A x \in DOMAIN m : s[x] = m[x]
    BY <1>11 DEF Store
  <2>2. m' = [s EXCEPT ![y] = s[v], ![v] = y]
    BY <1>1, <1>10, <1>11 DEF ll_push
  <2> HIDE DEF s
  <2> QED
    BY <1>11, <1>12, <2>1, <2>2
<1>14. Memory(m') /\ Cells(m') = Cells(m) \cup {y} /\ \A x \in Cells(m) : m'[x] = m[x]
  <2>1. IsFiniteSet(DOMAIN m')
    BY <1>10, <1>13, FS_AddElement DEF Memory
  <2> QED
    BY <1>10, <1>11, <1>13, <2>1 DEF Memory, Cells
<1>15. {x \in DOMAIN m' : ~(x > 0)} = Variables
  BY <1>11, <1>13 DEF LeakInv, Stored
<1>16. PICK W : /\ Shape(W, Append(F, g), held, NoEntity, m')
                /\ Bounds(Append(F, g), held, NoEntity, n)
                /\ Owned(W, Roots(Append(F, g), held, NoEntity, m'), m', u)
  <2>1. y \notin Cells(m) /\ v = KeysOf(Len(F) + 1)
    BY <1>5, <1>11 DEF Cells, v
  <2>2. \A k \in DOMAIN F : Is("kvs", F[k]) => m'[KeysOf(k)] = m[KeysOf(k)]
    BY <1>125, <1>13
  <2>3. /\ Shape(U, Append(F, top), held, NoEntity, m) /\ Bounds(Append(F, top), held, NoEntity, n)
        /\ Owned(U, Roots(Append(F, top), held, NoEntity, m), m, u)
    BY <1>4, <1>5
  <2>4. Memory(m) /\ Memory(m') /\ n \in Nat /\ F \in Seq(U) /\ top \in U
    BY <1>5, <1>10, <1>14
  <2>5. Is("kvs", top) /\ Is("kvs", g)
    BY <1>2, <1>8
  <2>6. Frame(g) /\ Fits(U, g) /\ Contents(g) = Contents(top)
    BY <1>8
  <2>7. m'[KeysOf(Len(F) + 1)] = y /\ m'[y] = m[KeysOf(Len(F) + 1)]
    BY <1>13, <2>1
  <2>8. Cells(m') = Cells(m) \cup {y} /\ \A x \in Cells(m) : m'[x] = m[x]
    BY <1>14
  <2> HIDE DEF top
  <2> QED
    BY <2>1, <2>2, <2>3, <2>4, <2>5, <2>6, <2>7, <2>8, Pushing, SMTT(60)
<1>17. Accounted(W)'
  <2>1. u = made' - freed' + Depth' /\ made' + 1 = n
    BY <1>1, <1>9 DEF u, n
  <2> QED
    BY <1>1, <1>2, <1>6, <1>16, <2>1 DEF Accounted, F
<1>18. Stored'
  <2>1. DOMAIN data' = Cells(m')
    BY <1>1, <1>14 DEF LeakInv, Stored, Store
  <2>2. Cells(m)' = Cells(m') /\ Memory(m)' /\ Memory(m')
    BY <1>14 DEF Cells, Memory
  <2> QED
    BY <1>9, <1>15, <2>1, <2>2 DEF Stored
<1>19. Places'
  BY <1>1, <1>2, <1>8, <1>9 DEF Places, Reading
<1> QED
  BY <1>1, <1>17, <1>18, <1>19 DEF LeakInv

(* A call returns the entity that it has made to the call around it.       *)
LEMMA Closing ==
    ASSUME NEW U, NEW F \in Seq(U), NEW top \in U, NEW h,
           NEW mem, Memory(mem), NEW next, Memory(next),
           Shape(U, Append(F, top), h, NoEntity, mem),
           NEW n \in Nat, Bounds(Append(F, top), h, NoEntity, n),
           NEW open2, NEW r2, Returned(F, OpenEnt(top, Len(F) + 1, mem), open2, r2),
           Cells(next) = Cells(mem), \A x \in Cells(mem) : next[x] = mem[x],
           \A k \in DOMAIN F : Is("kvs", F[k]) => next[KeysOf(k)] = mem[KeysOf(k)],
           NEW u, Owned(U, Roots(Append(F, top), h, NoEntity, mem), mem, u)
    PROVE  \E W : /\ Shape(W, open2, h, r2, next)
                  /\ Bounds(open2, h, r2, n + 1)
                  /\ Owned(W, Roots(open2, h, r2, next), next, u)
<1> DEFINE P == Roots(Append(F, top), h, NoEntity, mem)
           R == Roots(open2, h, r2, mem)
           q == Roots(F, h, NoEntity, mem)
           e == OpenEnt(top, Len(F) + 1, mem)
           w == <<e>>
<1>1. /\ Shape(U, F, h, NoEntity, mem) /\ Bounds(F, h, NoEntity, n)
      /\ Frame(top) /\ e \in U /\ Ends(w, n + 1) /\ SumOf(P, q, w)
  BY Popped
<1>2. Sane(U)
  BY <1>1 DEF Shape
<1>3. ~Is("none", e)
  <2>1. Allocated(e)
    BY <1>1, <1>2, OpenEntIs
  <2> QED
    BY <2>1 DEF Allocated
<1>4. n + 1 \in Nat /\ n + 1 >= 1 /\ n <= n + 1
  OBVIOUS
<1>5. Bounds(F, h, NoEntity, n + 1)
  BY <1>1, <1>4, BoundsMore
<1>55. Returned(F, e, open2, r2)
  OBVIOUS
<1> HIDE DEF e
<1>6. PICK W : /\ U \subseteq W
               /\ Shape(W, open2, h, r2, mem) /\ Bounds(open2, h, r2, n + 1)
               /\ FairSum(W, Roots(open2, h, r2, mem), Roots(F, h, NoEntity, mem), <<e>>)
  BY <1>1, <1>3, <1>4, <1>5, <1>55, Returning
<1>7. Sane(W)
  BY <1>6 DEF Shape
<1>8. P \in Seq(U) /\ Ending(P)
  BY RootsAre
<1> DEFINE N == n + 1
<1>9. R \in Seq(W) /\ Ending(R)
  <2>1. N \in Nat /\ Bounds(open2, h, r2, N)
    BY <1>4, <1>6
  <2> HIDE DEF N
  <2> QED
    BY <1>6, <2>1, RootsAre
<1>10. Owned(U, P, mem, u)
  OBVIOUS
<1>11. FairSum(W, R, q, w)
  BY <1>6
<1> HIDE DEF P, R, q, w
<1>12. Owned(W, P, mem, u)
  BY <1>2, <1>6, <1>7, <1>8, <1>10, OwnedWider
<1>13. \A T : Fair(W, T) => Total(T, R) = Total(T, P)
  BY <1>1, <1>11 DEF FairSum, SumOf
<1>14. Owned(W, R, mem, u)
  BY <1>7, <1>12, <1>13, OwnedSame
<1>15. Owned(W, R, next, u)
  BY <1>7, <1>9, <1>14, OwnedMemory
<1>16. Opened(open2, next) = Opened(open2, mem)
  <2>1. /\ DOMAIN open2 = DOMAIN F
        /\ \A k \in DOMAIN F : Is("kvs", open2[k]) <=> Is("kvs", F[k])
    BY <1>55, FramesSame
  <2>2. \A k \in DOMAIN open2 : Is("kvs", open2[k]) => next[KeysOf(k)] = mem[KeysOf(k)]
    BY <2>1
  <2> QED
    BY <2>2, OpenedSame
<1>17. Shape(W, open2, h, r2, next) /\ R = Roots(open2, h, r2, next)
  BY <1>6, <1>16 DEF Shape, Roots, R
<1> QED
  BY <1>6, <1>15, <1>17

(* A call that ends gives up its variable keys.                            *)
LEMMA VariablesLess ==
    ASSUME NEW S, stack \in Seq(S), stack # <<>>, NEW ent, Returned(Front(stack), ent, stack', ret')
    PROVE  /\ Depth' = Depth - 1 /\ Depth \in Nat /\ Depth = Len(Front(stack)) + 1
           /\ Variables' = Variables \ (IF Is("kvs", Last(stack)) THEN {KeysOf(Depth)} ELSE {})
           /\ Is("kvs", Last(stack)) => KeysOf(Depth) \in Variables
           /\ \A k \in DOMAIN Front(stack) :
                  Is("kvs", Front(stack)[k]) => KeysOf(k) \in Variables /\ KeysOf(k) # KeysOf(Depth)
<1> DEFINE F == Front(stack)
           top == Last(stack)
           n == Len(F)
           new == stack'
<1>1. F \in Seq(S) /\ top \in S /\ stack = Append(F, top) /\ Len(stack) = n + 1
  BY FrontLast
<1> HIDE DEF F, top
<1>2. n \in Nat /\ DOMAIN F = 1..n /\ DOMAIN stack = 1..(n + 1) /\ stack[n + 1] = top /\ \A k \in 1..n : stack[k] = F[k]
  BY <1>1
<1>3. Returned(F, ent, new, ret')
  BY DEF F
<1> HIDE DEF new
<1>4. DOMAIN new = DOMAIN F /\ Len(new) = n /\ \A k \in DOMAIN F : Is("kvs", new[k]) <=> Is("kvs", F[k])
  BY <1>1, <1>3, FramesSame
<1> HIDE DEF n
<1>5. Depth = n + 1 /\ Depth' = n /\ Depth' = Depth - 1 /\ Depth \in Nat
  BY <1>1, <1>2, <1>4 DEF Depth, new
<1>6. /\ n + 1 \in 1..(n + 1) /\ \A k \in 1..n : k \in 1..(n + 1) /\ k # n + 1 /\ k \in Nat
      /\ \A k \in 1..(n + 1) : k = n + 1 \/ k \in 1..n
  BY <1>2
<1>7. \A k \in 1..n : KeysOf(k) # KeysOf(n + 1)
  BY <1>2, <1>6, KeysOfIs
<1> DEFINE I == {j \in 1..(n + 1) : Is("kvs", stack[j])}
           J == {j \in 1..n : Is("kvs", F[j])}
<1>8. Variables = {KeysOf(k) : k \in I}
  BY <1>2 DEF Variables
<1>9. Variables' = {KeysOf(k) : k \in J}
  <2>1. {j \in DOMAIN new : Is("kvs", new[j])} = J
    BY <1>2, <1>4
  <2>2. Variables' = {KeysOf(k) : k \in {j \in DOMAIN new : Is("kvs", new[j])}}
    BY DEF Variables, new
  <2> QED
    BY <2>1, <2>2
<1>10. \A k : k \in I <=> k \in J \/ (k = n + 1 /\ Is("kvs", top))
  BY <1>2, <1>6
<1>11. \A k \in J : KeysOf(k) # KeysOf(n + 1)
  BY <1>7
<1> HIDE DEF I, J
<1>12. Variables' = Variables \ (IF Is("kvs", top) THEN {KeysOf(n + 1)} ELSE {})
  BY <1>8, <1>9, <1>10, <1>11
<1>13. Is("kvs", top) => KeysOf(n + 1) \in Variables
  BY <1>8, <1>10
<1>14. \A k \in 1..n : Is("kvs", F[k]) => KeysOf(k) \in Variables /\ KeysOf(k) # KeysOf(n + 1)
  <2>1. \A k \in 1..n : Is("kvs", F[k]) => k \in J
    BY DEF J
  <2> QED
    BY <1>7, <1>8, <1>10, <2>1
<1> QED
  BY <1>2, <1>5, <1>12, <1>13, <1>14 DEF F, top, n

(* The innermost call ends and returns what it has made.                   *)
LEMMA EndKeeps ==
    ASSUME LeakInv, stack # <<>>, place \in Reading,
           Return(Front(stack), OpenEnt(Last(stack), Depth, m)),
           held' = held, made' = made + 1, freed' = freed, data' = data,
           DOMAIN m' = DOMAIN m \ (IF Is("kvs", Last(stack)) THEN {KeysOf(Depth)} ELSE {}),
           \A x \in DOMAIN m' : m'[x] = m[x]
    PROVE  LeakInv'
<1> DEFINE F == Front(stack)
           top == Last(stack)
           n == made + 1
           u == made - freed + Depth
<1>2. ret = NoEntity
  BY DEF LeakInv, Places
<1>3. PICK U : Accounted(U)
  BY DEF LeakInv
<1>4. /\ Shape(U, stack, held, NoEntity, m) /\ Bounds(stack, held, NoEntity, n)
      /\ Owned(U, Roots(stack, held, NoEntity, m), m, u)
      /\ stack \in Seq(U)
  BY <1>2, <1>3 DEF Accounted, Shape
<1>5. F \in Seq(U) /\ top \in U /\ stack = Append(F, top) /\ Depth = Len(F) + 1
  <2>1. /\ F \in Seq(U) /\ top \in U /\ stack = Append(F, top) /\ Len(stack) = Len(F) + 1
    BY <1>4, FrontLast
  <2> QED
    BY <2>1 DEF Depth
<1>6. /\ Returned(F, OpenEnt(top, Depth, m), stack', ret')
      /\ place' \in {"done", "next"}
      /\ place' = "done" => stack' = <<>>
      /\ place' = "next" => ret' = NoEntity
  BY <1>2, ReturnIs
<1>7. /\ Depth' = Depth - 1 /\ Depth \in Nat
      /\ Variables' = Variables \ (IF Is("kvs", top) THEN {KeysOf(Depth)} ELSE {})
      /\ Is("kvs", top) => KeysOf(Depth) \in Variables
      /\ \A k \in DOMAIN F : Is("kvs", F[k]) => KeysOf(k) \in Variables /\ KeysOf(k) # KeysOf(Depth)
  BY <1>4, <1>6, VariablesLess
<1>8. n \in Nat /\ Memory(m) /\ KeysOf(Depth) \in Int /\ ~(KeysOf(Depth) > 0)
      /\ made \in Nat /\ freed \in Int /\ Stored
  BY <1>7, KeysOfIs DEF LeakInv, Stored
<1>9. Memory(m') /\ Cells(m') = Cells(m) /\ \A x \in Cells(m) : m'[x] = m[x]
  <2>1. DOMAIN m' \in SUBSET DOMAIN m /\ IsFiniteSet(DOMAIN m) /\ DOMAIN m \subseteq Int
    BY <1>8 DEF Memory
  <2>2. IsFiniteSet(DOMAIN m')
    BY <2>1, FS_Subset
  <2>3. Memory(m')
    BY <2>1, <2>2 DEF Memory
  <2>4. Cells(m') = Cells(m)
    BY <1>8 DEF Cells
  <2>5. \A x \in Cells(m) : x \in DOMAIN m'
    BY <2>4 DEF Cells
  <2> QED
    BY <2>3, <2>4, <2>5
<1>10. \A k \in DOMAIN F : Is("kvs", F[k]) => m'[KeysOf(k)] = m[KeysOf(k)]
  <2>1. \A k \in DOMAIN F : Is("kvs", F[k]) => KeysOf(k) \in DOMAIN m
    BY <1>7, <1>8 DEF Stored
  <2>2. \A k \in DOMAIN F : Is("kvs", F[k]) => KeysOf(k) \in DOMAIN m'
    BY <1>7, <2>1
  <2> QED
    BY <2>2
<1> DEFINE N == n + 1
<1> HIDE DEF n, u, F, top
<1>11. PICK W : /\ Shape(W, stack', held, ret', m')
                /\ Bounds(stack', held, ret', N)
                /\ Owned(W, Roots(stack', held, ret', m'), m', u)
  <2>1. /\ Shape(U, Append(F, top), held, NoEntity, m)
        /\ Bounds(Append(F, top), held, NoEntity, n)
        /\ Owned(U, Roots(Append(F, top), held, NoEntity, m), m, u)
    BY <1>4, <1>5
  <2>2. Returned(F, OpenEnt(top, Len(F) + 1, m), stack', ret')
    BY <1>5, <1>6
  <2>3. \E W : /\ Shape(W, stack', held, ret', m')
               /\ Bounds(stack', held, ret', n + 1)
               /\ Owned(W, Roots(stack', held, ret', m'), m', u)
    BY <1>5, <1>8, <1>9, <1>10, <2>1, <2>2, Closing
  <2> QED
    BY <2>3
<1>12. Accounted(W)'
  <2>1. u = made' - freed' + Depth' /\ made' + 1 = N
    BY <1>7, <1>8 DEF u, n
  <2> QED
    BY <1>11, <2>1 DEF Accounted
<1>13. Stored'
  <2>1. {x \in DOMAIN m' : ~(x > 0)} = Variables'
    BY <1>7, <1>8 DEF Stored, top
  <2>2. DOMAIN data' = Cells(m')
    BY <1>8, <1>9 DEF Stored
  <2>3. Cells(m)' = Cells(m') /\ Memory(m)' /\ Memory(m')
    BY <1>9 DEF Cells, Memory
  <2> QED
    BY <2>1, <2>2, <2>3 DEF Stored
<1>14. Places'
  BY <1>6 DEF Places, Reading
<1>15. made' \in Nat /\ freed' \in Int
  BY <1>8
<1> QED
  BY <1>12, <1>13, <1>14, <1>15 DEF LeakInv

(* json_parse_object returns the object.                                   *)
LEMMA ObjectEnds ==
    ASSUME LeakInv, ObjectEnd
    PROVE  LeakInv'
<1>1. /\ place \in Reading /\ held' = held /\ In("kvs")
      /\ Return(Front(stack), json_new_obj(Top.kvs, m[KeysOf(Depth)]))
      /\ m' = Drop(m, {KeysOf(Depth)}) /\ made' = made + 1 /\ data' = data /\ freed' = freed
  BY DEF ObjectEnd, Take, given, Reading
<1>2. stack # <<>> /\ Top = Last(stack) /\ Is("kvs", Last(stack))
  <2>1. stack # <<>>
    BY <1>1 DEF In, Depth
  <2>2. Top = Last(stack)
    BY DEF Top, Depth, Last
  <2> QED
    BY <1>1, <2>1, <2>2 DEF In, Is
<1>3. OpenEnt(Last(stack), Depth, m) = json_new_obj(Top.kvs, m[KeysOf(Depth)])
  BY <1>2 DEF OpenEnt, Is
<1>4. DOMAIN m' = DOMAIN m \ {KeysOf(Depth)} /\ \A x \in DOMAIN m' : m'[x] = m[x]
  BY <1>1 DEF Drop
<1> QED
  BY <1>1, <1>2, <1>3, <1>4, EndKeeps

(* json_parse_array returns the array.                                     *)
LEMMA ArrayEnds ==
    ASSUME LeakInv, ArrayEnd, token = <<"]">>
    PROVE  LeakInv'
<1>1. /\ place \in Reading /\ held' = held /\ In("arr")
      /\ Return(Front(stack), json_new_arr(Top.arr))
      /\ m' = m /\ made' = made + 1 /\ data' = data /\ freed' = freed
  BY DEF ArrayEnd, Take, given, memory, Reading
<1>2. stack # <<>> /\ Top = Last(stack) /\ Is("arr", Last(stack))
  <2>1. stack # <<>>
    BY <1>1 DEF In, Depth
  <2>2. Top = Last(stack)
    BY DEF Top, Depth, Last
  <2> QED
    BY <1>1, <2>1, <2>2 DEF In, Is
<1>3. ~Is("kvs", Last(stack))
  <2>1. PICK U : stack \in Seq(U) /\ \A k \in DOMAIN stack : Frame(stack[k])
    BY DEF LeakInv, Accounted, Shape
  <2>2. Len(stack) \in DOMAIN stack
    BY <1>2, <2>1
  <2> QED
    BY <1>2, <2>1, <2>2 DEF Last, Frame
<1>4. OpenEnt(Last(stack), Depth, m) = json_new_arr(Top.arr)
  BY <1>2, <1>3 DEF OpenEnt, Is
<1> QED
  BY <1>1, <1>2, <1>3, <1>4, EndKeeps

(* Of what P owns, json_entity_free of F leaves q.                         *)
LEMMA Freeing ==
    ASSUME NEW U, Sane(U), NEW P, NEW q \in Seq(U), Ending(q),
           NEW F \in Seq(U), made \in Nat, Ends(F, made + 2), Stored,
           NEW u \in Int, Owned(U, P, m, u),
           \A T : Fair(U, T) => Total(T, P) = Total(T, q) + Total(T, F),
           Free(F), Variables' = Variables
    PROVE  /\ Total(Allocs(U), F) \in Nat
           /\ Owned(U, q, m', u - Total(Allocs(U), F))
           /\ freed' = freed + Total(Allocs(U), F)
           /\ Stored'
           /\ \A x \in Variables : m'[x] = m[x]
<1>1. Memory(m) /\ DOMAIN data = Cells(m) /\ {x \in DOMAIN m : ~(x > 0)} = Variables
  BY DEF Stored
<1>2. Ending(F)
  <2>1. made + 2 \in Nat
    OBVIOUS
  <2> QED
    BY <2>1 DEF Ending
<1>3. /\ \A T : Total(T, F) \in Nat
      /\ \A T : Total(T, q) \in Nat
  BY <1>2, ReachFacts
<1>4. Total(Lost(U, m), F) = 0
  <2>1. Fair(U, Lost(U, m))
    BY FairSets
  <2>2. Total(Lost(U, m), P) = 0
    BY DEF Owned
  <2>3. Total(Lost(U, m), P) = Total(Lost(U, m), q) + Total(Lost(U, m), F)
    BY <2>1
  <2> QED
    BY <1>3, <2>2, <2>3
<1>5. /\ freed' = freed + Total(Allocs(U), F)
      /\ Memory(m')
      /\ DOMAIN data' = DOMAIN data \cap DOMAIN m'
      /\ \E gone : /\ gone \subseteq Cells(m)
                   /\ \A x : x \in gone <=> \E e \in Reach(F) :
                                             Is("kvs", e) /\ x \in ToSet(Nodes(m, e.keys))
                   /\ DOMAIN m' = DOMAIN m \ gone
                   /\ \A x \in DOMAIN m' : m'[x] = m[x]
  BY <1>1, <1>4, FreeIs
<1>6. PICK gone : /\ gone \subseteq Cells(m)
                  /\ \A x : x \in gone <=> \E e \in Reach(F) :
                                            Is("kvs", e) /\ x \in ToSet(Nodes(m, e.keys))
                  /\ DOMAIN m' = DOMAIN m \ gone
                  /\ \A x \in DOMAIN m' : m'[x] = m[x]
  BY <1>5
<1>7. Owned(U, q, m', u - Total(Allocs(U), F))
  BY <1>1, <1>2, <1>5, <1>6, OwnedFree
<1>8. \A x \in Variables : x \in DOMAIN m' /\ m'[x] = m[x]
  BY <1>1, <1>6 DEF Cells
<1>9. Stored'
  <2>1. {x \in DOMAIN m' : ~(x > 0)} = Variables'
    BY <1>1, <1>6 DEF Cells
  <2>2. DOMAIN data' = Cells(m')
    BY <1>1, <1>5, <1>6 DEF Cells
  <2>3. Cells(m)' = Cells(m') /\ Memory(m)' /\ Memory(m')
    BY <1>5 DEF Cells, Memory
  <2> QED
    BY <2>1, <2>2, <2>3 DEF Stored
<1> QED
  BY <1>3, <1>5, <1>7, <1>8, <1>9

(* An array is freed that ends with another token than its bracket.        *)
LEMMA ArrayLost ==
    ASSUME LeakInv, ArrayEnd, token # <<"]">>
    PROVE  LeakInv'
<1> DEFINE F == Front(stack)
           top == Last(stack)
           e == OpenEnt(top, Depth, m)
           w == <<e>>
           n == made + 1
           N == n + 1
           u == made - freed + Depth
           P == Roots(stack, held, NoEntity, m)
           q == Roots(F, held, NoEntity, m)
<1>1. /\ place \in Reading /\ held' = held /\ In("arr")
      /\ Return(F, NoEntity) /\ Free(<<json_new_arr(Top.arr)>>)
      /\ made' = made + 1
  BY DEF ArrayEnd, Take, given, Reading
<1>2. ret = NoEntity
  BY <1>1 DEF LeakInv, Places
<1>3. PICK U : Accounted(U)
  BY DEF LeakInv
<1>4. /\ Shape(U, stack, held, NoEntity, m) /\ Bounds(stack, held, NoEntity, n)
      /\ Owned(U, P, m, u)
      /\ stack \in Seq(U) /\ Sane(U)
  BY <1>2, <1>3 DEF Accounted, Shape
<1>5. stack # <<>> /\ Top = top /\ Is("arr", top)
  <2>1. stack # <<>>
    BY <1>1 DEF In, Depth
  <2>2. Top = top
    BY DEF Top, Depth, Last
  <2> QED
    BY <1>1, <2>1, <2>2 DEF In, Is
<1>6. F \in Seq(U) /\ top \in U /\ stack = Append(F, top) /\ Depth = Len(F) + 1
  <2>1. /\ F \in Seq(U) /\ top \in U /\ stack = Append(F, top) /\ Len(stack) = Len(F) + 1
    BY <1>4, <1>5, FrontLast
  <2> QED
    BY <2>1 DEF Depth
<1>7. /\ Returned(F, NoEntity, stack', ret')
      /\ place' \in {"done", "next"}
      /\ place' = "done" => stack' = <<>>
      /\ place' = "next" => ret' = NoEntity
  BY <1>1, <1>2, ReturnIs
<1>8. n \in Nat /\ n >= 1 /\ N \in Nat /\ N = made + 2 /\ made \in Nat /\ freed \in Int /\ Stored
      /\ n <= N
  BY DEF LeakInv
<1>9. /\ Shape(U, F, held, NoEntity, m) /\ Bounds(F, held, NoEntity, n)
      /\ Frame(top) /\ e \in U /\ Ends(w, n + 1) /\ SumOf(P, q, w)
  <2>1. Shape(U, Append(F, top), held, NoEntity, m) /\ Bounds(Append(F, top), held, NoEntity, n)
    BY <1>4, <1>6
  <2> HIDE DEF F, top, n
  <2> QED
    BY <1>6, <1>8, <2>1, Popped
<1>10. ~Is("kvs", top) /\ w = <<json_new_arr(Top.arr)>>
  <2>1. ~Is("kvs", top)
    BY <1>5, <1>9 DEF Frame
  <2> QED
    BY <1>5, <2>1 DEF OpenEnt, Is
<1>11. /\ Depth' = Depth - 1 /\ Depth \in Nat /\ Variables' = Variables
       /\ \A k \in DOMAIN F : Is("kvs", F[k]) => KeysOf(k) \in Variables
  <2>1. /\ Depth' = Depth - 1 /\ Depth \in Nat
        /\ Variables' = Variables \ (IF Is("kvs", top) THEN {KeysOf(Depth)} ELSE {})
        /\ \A k \in DOMAIN F : Is("kvs", F[k]) => KeysOf(k) \in Variables /\ KeysOf(k) # KeysOf(Depth)
    BY <1>4, <1>5, <1>7, VariablesLess
  <2> QED
    BY <1>10, <2>1
<1>12. u \in Int
  BY <1>8, <1>11
<1>13. q \in Seq(U) /\ Ending(q)
  <2> HIDE DEF n, F
  <2> QED
    BY <1>8, <1>9, RootsAre
<1>14. Free(w)
  BY <1>1, <1>10
<1>15. w \in Seq(U) /\ Ends(w, made + 2)
  <2>1. w \in Seq(U)
    BY <1>9
  <2> QED
    BY <1>8, <1>9, <2>1
<1> HIDE DEF F, top, e, w, n, u, P, q, N
<1>16. \A T : Fair(U, T) => Total(T, P) = Total(T, q) + Total(T, w)
  BY <1>9 DEF SumOf
<1>17. /\ Total(Allocs(U), w) \in Nat
       /\ Owned(U, q, m', u - Total(Allocs(U), w))
       /\ freed' = freed + Total(Allocs(U), w)
       /\ Stored'
       /\ \A x \in Variables : m'[x] = m[x]
  BY <1>4, <1>8, <1>11, <1>12, <1>13, <1>14, <1>15, <1>16, Freeing
<1>18. PICK W : /\ U \subseteq W
                /\ Shape(W, stack', held, ret', m) /\ Bounds(stack', held, ret', n)
                /\ FairSum(W, Roots(stack', held, ret', m), q, <<NoEntity>>)
  <2>1. NoEntity \in U /\ Ends(<<NoEntity>>, 1)
    BY <1>4, NoEntityIs
  <2>2. Ends(<<NoEntity>>, n)
    <3> DEFINE z == <<NoEntity>>
    <3>1. z \in Seq(U) /\ Ends(z, 1) /\ 1 \in Nat /\ 1 <= n
      BY <1>8, <2>1
    <3> HIDE DEF z
    <3>2. Ends(z, n)
      BY <1>4, <1>8, <3>1, SaneClosed, EndsStays
    <3> QED
      BY <3>2 DEF z
  <2> QED
    BY <1>7, <1>8, <1>9, <2>1, <2>2, Returning DEF q
<1> DEFINE R == Roots(stack', held, ret', m)
<1>19. Sane(W)
  BY <1>18 DEF Shape
<1>20. /\ \A T : Fair(W, T) => Total(T, R) = Total(T, q)
  <2>1. \A T : Fair(W, T) => Total(T, <<NoEntity>>) = 0
    BY <1>19, NoEntityIs
  <2>2. \A T : Fair(W, T) => Total(T, R) = Total(T, q) + Total(T, <<NoEntity>>)
    BY <1>18 DEF FairSum
  <2>3. \A T : Total(T, q) \in Nat
    BY <1>4, <1>13, ReachFacts
  <2> HIDE DEF R
  <2> QED
    BY <2>1, <2>2, <2>3
<1>21. Opened(stack', m') = Opened(stack', m)
  <2> DEFINE new == stack'
  <2>1. Returned(F, NoEntity, new, ret')
    BY <1>7
  <2> HIDE DEF new
  <2>2. /\ DOMAIN new = DOMAIN F
        /\ \A k \in DOMAIN F : Is("kvs", new[k]) <=> Is("kvs", F[k])
    BY <1>6, <2>1, FramesSame
  <2>3. \A k \in DOMAIN new : Is("kvs", new[k]) => m'[KeysOf(k)] = m[KeysOf(k)]
    BY <1>11, <1>17, <2>2
  <2>4. Opened(new, m') = Opened(new, m)
    BY <2>3, OpenedSame
  <2> QED
    BY <2>4 DEF new
<1>22. Shape(W, stack', held, ret', m') /\ R = Roots(stack', held, ret', m')
  BY <1>18, <1>21 DEF Shape, Roots
<1> HIDE DEF R
<1> DEFINE k == u - Total(Allocs(U), w)
<1>23. Owned(W, R, m', k)
  <2>1. Owned(U, q, m', k)
    BY <1>17
  <2> HIDE DEF k
  <2>2. Owned(W, q, m', k)
    BY <1>4, <1>13, <1>18, <1>19, <2>1, OwnedWider
  <2> QED
    BY <1>19, <1>20, <2>2, OwnedSame
<1>24. Accounted(W)'
  <2>1. k = made' - freed' + Depth'
    BY <1>1, <1>8, <1>11, <1>17 DEF u
  <2>2. made' + 1 = N
    BY <1>1, <1>8
  <2>3. Bounds(stack', held, ret', N)
    BY <1>8, <1>18, BoundsMore
  <2> QED
    BY <1>1, <1>22, <1>23, <2>1, <2>2, <2>3 DEF Accounted
<1>25. Places'
  BY <1>7 DEF Places, Reading
<1>26. made' \in Nat /\ freed' \in Int
  BY <1>1, <1>8, <1>17
<1> QED
  BY <1>17, <1>24, <1>25, <1>26 DEF LeakInv

(* A step that changes only the place and the text.                        *)
LEMMA PlaceKeeps ==
    ASSUME LeakInv, stack' = stack, held' = held, ret' = ret, m' = m, data' = data,
           made' = made, freed' = freed, Places'
    PROVE  LeakInv'
<1>1. PICK U : Accounted(U)
  BY DEF LeakInv
<1>2. Accounted(U)'
  BY <1>1 DEF Accounted, Depth
<1>3. Stored'
  BY DEF LeakInv, Stored, Variables, Memory, Cells
<1> QED
  BY <1>2, <1>3 DEF LeakInv

(* A step that changes nothing.                                            *)
LEMMA StutterKeeps ==
    ASSUME LeakInv, UNCHANGED parser_vars
    PROVE  LeakInv'
BY PlaceKeeps DEF parser_vars, memory, counts, given, LeakInv, Places

(* The assertion of a colon.                                               *)
LEMMA ColonKeeps ==
    ASSUME LeakInv, ObjectColon
    PROVE  LeakInv'
<1>1. place = "colon" /\ place' \in {"value", "aborted"} /\ UNCHANGED <<stack, ret, memory, counts, given>>
  BY DEF ObjectColon, Take, Goto
<1>2. Places'
  BY <1>1 DEF LeakInv, Places, Reading
<1> QED
  BY <1>1, <1>2, PlaceKeeps DEF memory, counts, given

(* What stands behind a value.                                             *)
LEMMA CommaKeeps ==
    ASSUME LeakInv, ObjectNext \/ ArrayNext
    PROVE  LeakInv'
<1>1. /\ place = "next" /\ place' \in {"key", "value", "aborted"}
      /\ UNCHANGED <<stack, ret, memory, counts, given>>
      /\ place' = "key" => In("kvs")
  BY DEF ObjectNext, ArrayNext, Take, Goto
<1>2. In("kvs") => stack # <<>> /\ Is("kvs", Last(stack))
  BY DEF In, Depth, Top, Last, Is
<1>3. Places'
  BY <1>1, <1>2 DEF LeakInv, Places, Reading
<1> QED
  BY <1>1, <1>3, PlaceKeeps DEF memory, counts, given

(* No token is left.                                                       *)
LEMMA NoTokenKeeps ==
    ASSUME LeakInv, NoToken
    PROVE  LeakInv'
<1>1. place' \in {"hung", "crashed"} /\ UNCHANGED <<stack, ret, memory, counts, given>>
  BY DEF NoToken, Goto
<1>2. Places'
  BY <1>1 DEF Places, Reading
<1> QED
  BY <1>1, <1>2, PlaceKeeps DEF memory, counts, given

(* What json_entity_free of all the callers' entities frees.               *)
LEMMA HeldIs ==
    ASSUME NEW U, Shape(U, <<>>, held, ret, m), NEW n \in Nat, n >= 1,
           Bounds(<<>>, held, ret, n)
    PROVE  /\ Sane(U) /\ Closed(U) /\ Append(held, ret) \in Seq(U)
           /\ Ends(Append(held, ret), n) /\ Ending(Append(held, ret))
           /\ SumOf(Append(held, ret), held, <<ret>>)
           /\ Ends(<<NoEntity>>, n) /\ Ends(<< >>, n)
           /\ \A mem : Opened(<<>>, mem) = << >>
<1> DEFINE w == <<ret>>
           z == <<NoEntity>>
           s == << >>
<1>1. Sane(U) /\ Closed(U) /\ held \in Seq(U) /\ w \in Seq(U) /\ ret \in U
  BY SaneClosed DEF Shape
<1>2. Ends(held, n) /\ Ends(w, n)
  BY DEF Bounds
<1>3. Append(held, ret) = Then(held, w)
  BY <1>1 DEF Then
<1>4. z \in Seq(U) /\ Ends(z, 1) /\ 1 \in Nat /\ s \in Seq(U) /\ Ends(s, 0) /\ 0 \in Nat /\ 0 <= n
  BY <1>1, NoEntityIs, Nothing
<1> HIDE DEF w, z, s
<1>5. Ends(Then(held, w), n)
  BY <1>1, <1>2, EndsThen
<1>6. Ending(held) /\ Ending(w)
  BY <1>2 DEF Ending
<1>7. Then(held, w) \in Seq(U) /\ Ending(Then(held, w))
  BY <1>1, <1>6, EndingThen
<1>8. SumOf(Then(held, w), held, w)
  <2>1. \A T : Total(T, Then(held, w)) = Total(T, held) + Total(T, w)
    BY <1>1, <1>6, Together
  <2> QED
    BY <2>1 DEF SumOf
<1>9. Ends(z, n)
  BY <1>1, <1>4, EndsStays
<1>10. Ends(s, n)
  BY <1>1, <1>4, EndsStays
<1>11. \A mem : Opened(<<>>, mem) = << >>
  BY DEF Opened
<1> QED
  BY <1>1, <1>3, <1>5, <1>7, <1>8, <1>9, <1>10, <1>11 DEF w, z, s

(* What a caller holds counts like what was returned to it.                *)
LEMMA AgainKeeps ==
    ASSUME LeakInv, NEW next, ParseAgain(next)
    PROVE  LeakInv'
<1> DEFINE n == made + 1
           K == Append(held, ret)
           P == Roots(<<>>, held, ret, m)
           R == Roots(<<>>, K, NoEntity, m)
<1>1. /\ place = "done" /\ place' = "value" /\ held' = K /\ ret' = NoEntity
      /\ stack' = stack /\ m' = m /\ data' = data /\ made' = made /\ freed' = freed
  BY DEF ParseAgain, memory, counts
<1>2. stack = <<>> /\ n \in Nat /\ n >= 1
  BY <1>1 DEF LeakInv, Places
<1>3. PICK U : Accounted(U)
  BY DEF LeakInv
<1>4. /\ Shape(U, <<>>, held, ret, m) /\ Bounds(<<>>, held, ret, n)
      /\ Owned(U, P, m, made - freed + Depth)
  BY <1>2, <1>3 DEF Accounted
<1>5. /\ Sane(U) /\ Closed(U) /\ K \in Seq(U) /\ Ends(K, n) /\ SumOf(K, held, <<ret>>)
      /\ Ends(<<NoEntity>>, n)
  BY <1>2, <1>4, HeldIs
<1> HIDE DEF K, n
<1>6. Shape(U, <<>>, K, NoEntity, m) /\ Bounds(<<>>, K, NoEntity, n)
  BY <1>4, <1>5, NoEntityIs DEF Shape, Bounds
<1>7. Summed(<<>>, held, ret, m) /\ Summed(<<>>, K, NoEntity, m)
  BY <1>2, <1>4, <1>6, RootsAre
<1>8. \A T : Fair(U, T) => Total(T, R) = Total(T, P)
  <2> SUFFICES ASSUME NEW T, Fair(U, T)
               PROVE  Total(T, R) = Total(T, P)
    OBVIOUS
  <2> DEFINE o == Opened(<<>>, m)
             w == <<ret>>
             z == <<NoEntity>>
  <2>1. Total(T, P) = Total(T, o) + Total(T, held) + Total(T, w)
    BY <1>7 DEF Summed
  <2>2. Total(T, R) = Total(T, o) + Total(T, K) + Total(T, z)
    BY <1>7 DEF Summed
  <2>3. Total(T, K) = Total(T, held) + Total(T, w)
    BY <1>5 DEF SumOf
  <2>4. Total(T, z) = 0
    BY <1>5, NoEntityIs
  <2>5. Total(T, o) \in Nat /\ Total(T, held) \in Nat /\ Total(T, w) \in Nat
    <3>1. o \in Seq(U) /\ held \in Seq(U) /\ w \in Seq(U)
      BY <1>4 DEF Shape
    <3>2. Ending(o) /\ Ending(held) /\ Ending(w)
      BY <1>2, <1>4, RootsAre
    <3> HIDE DEF o, w
    <3>3. Total(T, o) \in Nat
      BY <1>5, <3>1, <3>2, ReachFacts
    <3>4. Total(T, held) \in Nat
      BY <1>5, <3>1, <3>2, ReachFacts
    <3>5. Total(T, w) \in Nat
      BY <1>5, <3>1, <3>2, ReachFacts
    <3> QED
      BY <3>3, <3>4, <3>5
  <2> HIDE DEF o, w, z, P, R
  <2> QED
    BY <2>1, <2>2, <2>3, <2>4, <2>5
<1>9. Owned(U, R, m, made - freed + Depth)
  <2> HIDE DEF P, R
  <2> QED
    BY <1>4, <1>5, <1>8, OwnedSame
<1>10. Accounted(U)'
  <2>1. Depth' = Depth
    BY <1>1 DEF Depth
  <2> QED
    BY <1>1, <1>2, <1>6, <1>9, <2>1 DEF Accounted, n
<1>11. Stored'
  BY <1>1 DEF LeakInv, Stored, Variables, Memory, Cells
<1>12. Places'
  BY <1>1 DEF Places, Reading
<1> QED
  BY <1>1, <1>10, <1>11, <1>12 DEF LeakInv

(* With nothing held and nothing open there is nothing to count.           *)
LEMMA NoRoots ==
    ASSUME NEW U, Sane(U), NEW mem
    PROVE  /\ Shape(U, <<>>, <<>>, NoEntity, mem)
           /\ \A n \in Nat : n >= 1 => Bounds(<<>>, <<>>, NoEntity, n)
           /\ Ending(Roots(<<>>, <<>>, NoEntity, mem))
           /\ \A T : Fair(U, T) => Total(T, Roots(<<>>, <<>>, NoEntity, mem)) = 0
<1> DEFINE s == << >>
           z == <<NoEntity>>
           q == Roots(<<>>, <<>>, NoEntity, mem)
<1>1. Opened(<<>>, mem) = << >>
  BY DEF Opened
<1>2. /\ Closed(U) /\ NoEntity \in U /\ Ends(z, 1) /\ \A T : Fair(U, T) => Total(T, z) = 0
  BY SaneClosed, NoEntityIs
<1>3. Shape(U, <<>>, <<>>, NoEntity, mem)
  <2>1. << >> \in Seq(U) /\ DOMAIN << >> = {}
    OBVIOUS
  <2> QED
    BY <1>1, <1>2, <2>1 DEF Shape
<1>4. Ends(s, 0) /\ \A T : Total(T, s) = 0
  BY <1>2, Nothing
<1>5. ASSUME NEW n \in Nat, n >= 1
      PROVE  Bounds(<<>>, <<>>, NoEntity, n)
  <2>1. z \in Seq(U) /\ s \in Seq(U) /\ 0 \in Nat /\ 0 <= n /\ 1 \in Nat /\ 1 <= n
    BY <1>2, <1>5
  <2> HIDE DEF s, z
  <2>2. Ends(s, n)
    BY <1>2, <1>4, <2>1, EndsStays
  <2>3. Ends(z, n)
    BY <1>2, <2>1, EndsStays
  <2> QED
    BY <2>2, <2>3 DEF Bounds, s, z
<1>6. Summed(<<>>, <<>>, NoEntity, mem) /\ Ending(q)
  <2>1. 1 \in Nat /\ Bounds(<<>>, <<>>, NoEntity, 1)
    BY <1>5
  <2> QED
    BY <1>3, <2>1, RootsAre
<1>7. ASSUME NEW T, Fair(U, T)
      PROVE  Total(T, q) = 0
  <2>1. Total(T, q) = Total(T, s) + Total(T, s) + Total(T, z)
    BY <1>1, <1>6 DEF Summed
  <2>2. Total(T, s) = 0 /\ Total(T, z) = 0
    BY <1>2, <1>4, <1>7
  <2> HIDE DEF s, z, q
  <2> QED
    BY <2>1, <2>2
<1> QED
  BY <1>3, <1>5, <1>6, <1>7

(* All is freed.                                                           *)
LEMMA FreeKeeps ==
    ASSUME LeakInv, FreeEntities
    PROVE  LeakInv'
<1> DEFINE n == made + 1
           u == made - freed + Depth
           K == Append(held, ret)
           P == Roots(<<>>, held, ret, m)
           q == Roots(<<>>, <<>>, NoEntity, m)
<1>1. /\ place = "done" /\ place' = "freed" /\ held' = <<>> /\ ret' = NoEntity
      /\ stack' = stack /\ made' = made /\ Free(K)
  BY DEF FreeEntities
<1>2. /\ stack = <<>> /\ n \in Nat /\ n >= 1 /\ Depth = 0 /\ u \in Int /\ Stored
      /\ made \in Nat /\ freed \in Int
  BY <1>1 DEF LeakInv, Places, Depth
<1>3. PICK U : Accounted(U)
  BY DEF LeakInv
<1>4. Shape(U, <<>>, held, ret, m) /\ Bounds(<<>>, held, ret, n) /\ Owned(U, P, m, u)
  BY <1>2, <1>3 DEF Accounted
<1>5. /\ Sane(U) /\ Closed(U) /\ K \in Seq(U) /\ Ends(K, n) /\ Ending(K) /\ SumOf(K, held, <<ret>>)
      /\ \A mem : Opened(<<>>, mem) = << >>
  BY <1>2, <1>4, HeldIs
<1>6. Summed(<<>>, held, ret, m)
  <2> HIDE DEF n
  <2> QED
    BY <1>2, <1>4, RootsAre
<1>7. /\ \A mem : Shape(U, <<>>, <<>>, NoEntity, mem)
      /\ Bounds(<<>>, <<>>, NoEntity, n)
      /\ Ending(q) /\ \A T : Fair(U, T) => Total(T, q) = 0
  <2> HIDE DEF n
  <2> QED
    BY <1>2, <1>5, NoRoots
<1>8. q \in Seq(U)
  <2> HIDE DEF n
  <2> QED
    BY <1>2, <1>7, RootsAre
<1>9. ASSUME NEW T, Fair(U, T)
      PROVE  Total(T, P) = Total(T, q) + Total(T, K)
  <2> DEFINE w == <<ret>>
             o == Opened(<<>>, m)
  <2>1. Total(T, P) = Total(T, o) + Total(T, held) + Total(T, w)
    BY <1>6 DEF Summed
  <2>2. Total(T, o) = 0
    BY <1>5, Nothing
  <2>3. Total(T, K) = Total(T, held) + Total(T, w)
    BY <1>5 DEF SumOf
  <2>4. Total(T, q) = 0 /\ Total(T, K) \in Nat
    BY <1>5, <1>7, <1>9, ReachFacts
  <2>5. Total(T, held) \in Nat /\ Total(T, w) \in Nat
    <3>1. held \in Seq(U) /\ w \in Seq(U)
      BY <1>4 DEF Shape
    <3>2. Ending(held) /\ Ending(w)
      <4> HIDE DEF n
      <4> QED
        BY <1>2, <1>4, RootsAre
    <3> HIDE DEF w
    <3>3. Total(T, held) \in Nat
      BY <1>5, <3>1, <3>2, ReachFacts
    <3>4. Total(T, w) \in Nat
      BY <1>5, <3>1, <3>2, ReachFacts
    <3> QED
      BY <3>3, <3>4
  <2> HIDE DEF P, q, K, w, o
  <2> QED
    BY <2>1, <2>2, <2>3, <2>4, <2>5
<1>10. Ends(K, made + 2)
  <2> DEFINE N == made + 2
  <2>1. n \in Nat /\ N \in Nat /\ n <= N
    BY <1>2
  <2> HIDE DEF n, N, K
  <2>2. Ends(K, N)
    BY <1>5, <2>1, EndsStays
  <2> QED
    BY <2>2 DEF N
<1>11. Variables' = Variables /\ Depth' = Depth
  BY <1>1 DEF Variables, Depth
<1> HIDE DEF P, q, K, n, u
<1>12. /\ Total(Allocs(U), K) \in Nat
       /\ Owned(U, q, m', u - Total(Allocs(U), K))
       /\ freed' = freed + Total(Allocs(U), K)
       /\ Stored'
  BY <1>1, <1>2, <1>4, <1>5, <1>7, <1>8, <1>9, <1>10, <1>11, Freeing
<1>13. q = Roots(<<>>, <<>>, NoEntity, m')
  BY <1>5 DEF q, Roots
<1>14. u - Total(Allocs(U), K) = made' - freed' + Depth'
  BY <1>1, <1>2, <1>11, <1>12 DEF u
<1>15. Accounted(U)'
  <2>1. Bounds(<<>>, <<>>, NoEntity, made' + 1)
    BY <1>1, <1>7 DEF n
  <2>2. Owned(U, q, m', made' - freed' + Depth')
    BY <1>12, <1>14
  <2>3. stack' = <<>> /\ held' = <<>> /\ ret' = NoEntity
    BY <1>1, <1>2
  <2>4. Shape(U, <<>>, <<>>, NoEntity, m')
    BY <1>7
  <2> QED
    BY <1>13, <2>1, <2>2, <2>3, <2>4 DEF Accounted
<1>16. Places'
  BY <1>1, <1>2 DEF Places, Reading
<1>17. made' \in Nat /\ freed' \in Int
  BY <1>1, <1>2, <1>12
<1> QED
  BY <1>12, <1>15, <1>16, <1>17 DEF LeakInv

(* The invariant holds of the first state of a parser.                     *)
LEMMA LeakInit ==
    ASSUME InitParser
    PROVE  LeakInv
<1> DEFINE U == {NoEntity}
           q == Roots(<<>>, <<>>, NoEntity, << >>)
<1>1. stack = <<>> /\ held = <<>> /\ ret = NoEntity /\ place = "value"
      /\ m = << >> /\ data = << >> /\ made = 0 /\ freed = 0
  BY DEF InitParser
<1>2. Sane(U)
  <2>1. DOMAIN NoEntity = {"none"}
    BY DEF NoEntity
  <2>2. Fits(U, NoEntity)
    BY <2>1 DEF Fits, Is
  <2> QED
    BY <2>2 DEF Sane
<1> HIDE DEF U
<1>3. /\ Shape(U, <<>>, <<>>, NoEntity, << >>)
      /\ Bounds(<<>>, <<>>, NoEntity, 1)
      /\ \A T : Fair(U, T) => Total(T, q) = 0
  BY <1>2, NoRoots
<1>4. Cells(<< >>) = {} /\ DOMAIN << >> = {}
  BY DEF Cells
<1>5. Owned(U, q, << >>, 0)
  <2>1. Fair(U, Allocs(U)) /\ Fair(U, Lost(U, << >>))
    BY <1>2, FairSets
  <2> QED
    BY <1>3, <1>4, <2>1 DEF Owned
<1>6. Depth = 0 /\ Variables = {}
  BY <1>1 DEF Depth, Variables
<1>7. Accounted(U)
  <2>1. made + 1 = 1 /\ made - freed + Depth = 0
    BY <1>1, <1>6
  <2> QED
    BY <1>1, <1>3, <1>5, <2>1 DEF Accounted
<1>8. Stored
  <2>1. IsFiniteSet({})
    BY FS_EmptySet
  <2> QED
    BY <1>1, <1>4, <1>6, <2>1 DEF Stored, Memory
<1>9. Places
  BY <1>1 DEF Places, Reading
<1> QED
  BY <1>1, <1>7, <1>8, <1>9 DEF LeakInv

(* Every step of the parser keeps the invariant.                           *)
LEMMA ParseKeeps ==
    ASSUME LeakInv, Parse
    PROVE  LeakInv'
<1>1. CASE ArrayEnd
  BY <1>1, ArrayEnds, ArrayLost
<1> QED
  BY <1>1, ValueKeeps, ObjectBegins, ObjectKeeps, ColonKeeps, CommaKeeps, ObjectEnds,
     ArrayBegins, NoTokenKeeps DEF Parse

-----------------------------------------------------------------------------
(* The vocabulary *)

Entry == [position : Int, count : Nat \ {0}, idf : Int]

VocabularyTypes ==
    /\ phase \in {"read", "collect", "count", "remove", "vectors", "export", "user", "done"}
    /\ DOMAIN json_dict \subseteq Specs
    /\ \A s \in DOMAIN json_dict : json_dict[s].kept \subseteq Words
    /\ train \subseteq Specs /\ todo \subseteq train
    /\ json_bow_set \subseteq Words
    /\ DOMAIN vocabulary \subseteq Words
    /\ vocabulary \in [DOMAIN vocabulary -> Entry]
    /\ i \in Int /\ c \in Int
    /\ phase = "read" => train = {} /\ json_bow_set = {} /\ DOMAIN vocabulary = {}
    /\ phase # "read" => DOMAIN json_dict = Specs
    /\ phase = "remove" => ahead \subseteq DOMAIN vocabulary

\* A word that is in the set for the next count comes in one more file.
Counted ==
    /\ \A w \in DOMAIN vocabulary :
          vocabulary[w].count + (IF w \in json_bow_set THEN 1 ELSE 0)
              <= Cardinality(FilesWith(w))
    /\ \A w \in json_bow_set : Cardinality(FilesWith(w)) >= 1
    /\ phase \notin {"read", "collect", "count"} => json_bow_set = {}
    /\ phase \in {"read", "collect", "count"} =>
          DOMAIN vocabulary \cup json_bow_set = UNION {json_dict[s].kept : s \in Taken}

CountInv == VocabularyTypes /\ Counted

\* A numbering of S from 0.
Numbers(dict, S) ==
    /\ \A v, w \in S : dict[v].position = dict[w].position => v = w
    /\ \A w \in S : dict[w].position \in 0..(Cardinality(S) - 1)

\* The words that ml_idf_remove has come by and kept are numbered.
Numbered ==
    IF phase = "remove"
    THEN /\ i - c = Cardinality(DOMAIN vocabulary \ ahead)
         /\ Numbers(vocabulary, DOMAIN vocabulary \ ahead)
    ELSE Numbers(vocabulary, DOMAIN vocabulary)

PositionInv == VocabularyTypes /\ Numbered

-----------------------------------------------------------------------------
(* There are finitely many specs, and each set of words is finite.         *)
LEMMA Finite ==
    /\ IsFiniteSet(Specs)
    /\ \A S \in SUBSET Words : IsFiniteSet(S) /\ Cardinality(S) \in Nat
<1>1. IsFiniteSet(Specs) /\ IsFiniteSet(Words)
    BY VocabularyAssumption
<1> QED
    BY <1>1, FS_Subset, FS_CardinalityType

\* What a turn of ml_init_vocabulary_from_json_bow_set does to the table.
LEMMA CountTable ==
    ASSUME VocabularyTypes, NEW w \in Words, Count(w)
    PROVE  /\ DOMAIN vocabulary' = DOMAIN vocabulary \cup {w}
           /\ vocabulary' \in [DOMAIN vocabulary \cup {w} -> Entry]
           /\ \A x \in DOMAIN vocabulary \ {w} : vocabulary'[x] = vocabulary[x]
           /\ w \in DOMAIN vocabulary =>
                 /\ vocabulary'[w].count = vocabulary[w].count + 1
                 /\ vocabulary'[w].position = vocabulary[w].position
           /\ w \notin DOMAIN vocabulary =>
                 vocabulary'[w].count = 1 /\ vocabulary'[w].position = bow_sz
<1> DEFINE new == IF w \in DOMAIN vocabulary
                  THEN [vocabulary[w] EXCEPT !.count = @ + 1]
                  ELSE [position |-> bow_sz, count |-> 1, idf |-> 0]
<1>1. vocabulary' = [x \in DOMAIN vocabulary \cup {w} |-> IF x = w THEN new ELSE vocabulary[x]]
    BY DEF Count, With
<1>2. bow_sz \in Int
    BY Finite DEF bow_sz, VocabularyTypes
<1>3. \A x \in DOMAIN vocabulary : vocabulary[x] \in Entry
    BY DEF VocabularyTypes
<1>4. CASE w \in DOMAIN vocabulary
    <2>1. new \in Entry /\ new.count = vocabulary[w].count + 1
          /\ new.position = vocabulary[w].position
        BY <1>3, <1>4 DEF Entry
    <2> HIDE DEF new
    <2> QED
        BY <1>1, <1>3, <1>4, <2>1
<1>5. CASE w \notin DOMAIN vocabulary
    <2>1. new \in Entry /\ new.count = 1 /\ new.position = bow_sz
        BY <1>2, <1>5 DEF Entry
    <2> HIDE DEF new
    <2> QED
        BY <1>1, <1>3, <1>5, <2>1
<1> QED
    BY <1>4, <1>5

\* What a turn of ml_idf_remove does to it.
LEMMA RemoveTable ==
    ASSUME VocabularyTypes, NEW w \in Words, RemoveWord(w)
    PROVE  \/ /\ DOMAIN vocabulary' = DOMAIN vocabulary \ {w}
              /\ vocabulary' \in [DOMAIN vocabulary \ {w} -> Entry]
              /\ \A x \in DOMAIN vocabulary \ {w} : vocabulary'[x] = vocabulary[x]
              /\ c' = c + 1
           \/ /\ DOMAIN vocabulary' = DOMAIN vocabulary
              /\ vocabulary' \in [DOMAIN vocabulary -> Entry]
              /\ \A x \in DOMAIN vocabulary \ {w} : vocabulary'[x] = vocabulary[x]
              /\ vocabulary'[w].count = vocabulary[w].count
              /\ vocabulary'[w].position = i - c
              /\ c' = c
<1>1. w \in DOMAIN vocabulary
    BY DEF RemoveWord, VocabularyTypes
<1>2. \A x \in DOMAIN vocabulary : vocabulary[x] \in Entry
    BY DEF VocabularyTypes
<1>3. CASE Idf(w) > IdfLimit
    BY <1>2, <1>3 DEF RemoveWord, Without
<1>4. CASE ~(Idf(w) > IdfLimit)
    <2> DEFINE new == [vocabulary[w] EXCEPT !.idf = Idf(w), !.position = i - c]
    <2>1. vocabulary' = [vocabulary EXCEPT ![w] = new] /\ c' = c
        BY <1>4 DEF RemoveWord
    <2>2. Idf(w) \in Int
        <3>1. vocabulary[w].count \in Nat \ {0}
            BY <1>1, <1>2 DEF Entry
        <3>2. json_ht_load \in Nat
            BY Finite, FS_Subset, FS_CardinalityType DEF VocabularyTypes, json_ht_load
        <3> QED
            BY <3>1, <3>2 DEF Idf
    <2>3. new \in Entry /\ new.count = vocabulary[w].count /\ new.position = i - c
        <3>1. vocabulary[w] \in Entry /\ i - c \in Int
            BY <1>1, <1>2 DEF VocabularyTypes
        <3> QED
            BY <2>2, <3>1 DEF Entry
    <2> HIDE DEF new
    <2> QED
        BY <1>1, <1>2, <2>1, <2>3 DEF VocabularyTypes
<1> QED
    BY <1>3, <1>4

(* The types hold at the start.                                            *)
LEMMA TypesInit == Init => VocabularyTypes
BY DEF Init, VocabularyTypes

(* Every step of the vocabulary keeps them.                                *)
LEMMA TypesNext == VocabularyTypes /\ [Next]_vars => VocabularyTypes'
<1> SUFFICES ASSUME VocabularyTypes, [Next]_vars PROVE VocabularyTypes'
    OBVIOUS
<1> USE DEF VocabularyTypes
<1>1. ASSUME NEW s \in Specs, ReadFile(s) PROVE VocabularyTypes'
    <2>1. /\ DOMAIN json_dict' = DOMAIN json_dict \cup {s}
          /\ \A x \in DOMAIN json_dict \ {s} : json_dict'[x] = json_dict[x]
        BY <1>1 DEF ReadFile, PutFile, With
    <2>2. json_dict'[s].kept \subseteq Words
        BY <1>1 DEF ReadFile, Files
    <2> QED
        BY <1>1, <2>1, <2>2 DEF ReadFile, PutFile, loop
<1>2. CASE init_json_train_set
    BY <1>2 DEF init_json_train_set, loop
<1>3. ASSUME NEW s \in Specs, Collect(s) PROVE VocabularyTypes'
    <2>1. json_dict[s].kept \subseteq Words
        BY <1>3 DEF Collect
    <2> QED
        BY <1>3, <2>1 DEF Collect
<1>4. ASSUME NEW w \in Words, Count(w) PROVE VocabularyTypes'
    <2>1. /\ DOMAIN vocabulary' = DOMAIN vocabulary \cup {w}
          /\ vocabulary' \in [DOMAIN vocabulary \cup {w} -> Entry]
        BY <1>4, CountTable
    <2> QED
        BY <1>4, <2>1 DEF Count
<1>5. ASSUME NEW w \in Words, RemoveWord(w) PROVE VocabularyTypes'
    <2>1. /\ DOMAIN vocabulary \ {w} \subseteq DOMAIN vocabulary'
          /\ DOMAIN vocabulary' \subseteq DOMAIN vocabulary
          /\ vocabulary' \in [DOMAIN vocabulary' -> Entry] /\ c' \in {c, c + 1}
        <3> HIDE DEF VocabularyTypes
        <3> QED
            BY <1>5, RemoveTable
    <2> QED
        BY <1>5, <2>1 DEF RemoveWord
<1>6. CASE CountEnd
    BY <1>6 DEF CountEnd, loop
<1>7. CASE CollectEnd
    BY <1>7 DEF CollectEnd
<1>8. CASE RemoveEnd
    BY <1>8 DEF RemoveEnd, loop
<1>9. CASE init_vectors_dict
    BY <1>9 DEF init_vectors_dict, loop
<1>10. CASE Export
    BY <1>10 DEF Export, loop
<1>11. CASE Predict
    BY <1>11 DEF Predict, loop
<1>12. CASE UNCHANGED vars
    BY <1>12 DEF vars, loop
<1> QED
    BY <1>1, <1>2, <1>3, <1>4, <1>5, <1>6, <1>7, <1>8, <1>9, <1>10, <1>11, <1>12 DEF Next

-----------------------------------------------------------------------------
\* The file that is taken is one more for each of its words.
LEMMA FilesTaken ==
    ASSUME VocabularyTypes, NEW s \in Specs, Collect(s), NEW w
    PROVE  /\ IsFiniteSet(FilesWith(w)) /\ Cardinality(FilesWith(w)) \in Nat
           /\ Cardinality(FilesWith(w))' =
                 IF w \in json_dict[s].kept THEN Cardinality(FilesWith(w)) + 1
                 ELSE Cardinality(FilesWith(w))
<1>1. FilesWith(w) \subseteq Specs /\ s \notin FilesWith(w)
    BY DEF FilesWith, Taken, Collect, VocabularyTypes
<1>2. IsFiniteSet(FilesWith(w)) /\ Cardinality(FilesWith(w)) \in Nat
    BY <1>1, Finite, FS_Subset, FS_CardinalityType
<1>3. Taken' = Taken \cup {s} /\ json_dict' = json_dict
    BY DEF Taken, Collect, VocabularyTypes
<1>4. FilesWith(w)' = IF w \in json_dict[s].kept THEN FilesWith(w) \cup {s} ELSE FilesWith(w)
    BY <1>3 DEF FilesWith
<1>5. Cardinality(FilesWith(w) \cup {s}) = Cardinality(FilesWith(w)) + 1
    BY <1>1, <1>2, FS_AddElement
<1> QED
    BY <1>2, <1>4, <1>5

(* Finitely many files have a word.                                        *)
LEMMA FilesFinite ==
    ASSUME VocabularyTypes, NEW w
    PROVE  IsFiniteSet(FilesWith(w)) /\ Cardinality(FilesWith(w)) \in Nat
<1>1. FilesWith(w) \subseteq Specs
    BY DEF FilesWith, Taken, VocabularyTypes
<1> QED
    BY <1>1, Finite, FS_Subset, FS_CardinalityType

(* The counts are right at the start.                                      *)
LEMMA CountInit == Init => CountInv
<1> SUFFICES ASSUME Init PROVE Counted
    BY TypesInit DEF CountInv
<1>1. DOMAIN vocabulary = {} /\ json_bow_set = {} /\ Taken = {} /\ phase = "read"
    BY DEF Init, Taken
<1> QED
    BY <1>1 DEF Counted

(* Every step keeps them right.                                            *)
LEMMA CountNext == CountInv /\ [Next]_vars => CountInv'
<1> SUFFICES ASSUME VocabularyTypes, Counted, [Next]_vars PROVE Counted'
    BY TypesNext DEF CountInv
<1>1. ASSUME UNCHANGED <<json_dict, train, todo, json_bow_set, vocabulary>>,
             \/ phase' = phase
             \/ phase = "count" /\ phase' = "collect"
             \/ phase' \in {"vectors", "export", "user", "done"} /\ json_bow_set = {}
      PROVE  Counted'
    <2>1. Taken' = Taken /\ \A w : FilesWith(w)' = FilesWith(w)
        BY <1>1 DEF Taken, FilesWith
    <2> QED
        BY <1>1, <2>1 DEF Counted
<1>2. ASSUME NEW s \in Specs, ReadFile(s) PROVE Counted'
    <2>1. Taken = {} /\ Taken' = {} /\ DOMAIN vocabulary = {} /\ json_bow_set = {}
        BY <1>2 DEF ReadFile, PutFile, VocabularyTypes, Taken
    <2>2. UNCHANGED <<phase, vocabulary, json_bow_set>>
        BY <1>2 DEF ReadFile, PutFile
    <2>3. phase' = "read"
        BY <1>2 DEF ReadFile, PutFile
    <2> QED
        BY <2>1, <2>2, <2>3 DEF Counted
<1>3. CASE init_json_train_set
    <2>1. Taken' = {} /\ DOMAIN vocabulary = {} /\ json_bow_set = {}
        BY <1>3 DEF init_json_train_set, VocabularyTypes, Taken
    <2>2. phase' = "collect" /\ UNCHANGED <<vocabulary, json_bow_set>>
        BY <1>3 DEF init_json_train_set
    <2> QED
        BY <2>1, <2>2 DEF Counted
<1>4. ASSUME NEW s \in Specs, Collect(s) PROVE Counted'
    <2>1. /\ Taken' = Taken \cup {s} /\ phase = "collect" /\ phase' = "count"
          /\ json_bow_set' = json_bow_set \cup json_dict[s].kept
          /\ UNCHANGED <<json_dict, vocabulary>>
        BY <1>4 DEF Collect, Taken, VocabularyTypes
    <2>2. \A w : /\ Cardinality(FilesWith(w)) \in Nat
                 /\ Cardinality(FilesWith(w))' =
                        IF w \in json_dict[s].kept THEN Cardinality(FilesWith(w)) + 1
                        ELSE Cardinality(FilesWith(w))
        BY <1>4, FilesTaken
    <2>3. \A w \in DOMAIN vocabulary : vocabulary[w].count \in Nat
        BY DEF VocabularyTypes, Entry
    <2>4. ASSUME NEW w \in DOMAIN vocabulary
          PROVE  vocabulary[w].count + (IF w \in json_bow_set' THEN 1 ELSE 0)
                    <= Cardinality(FilesWith(w))'
        BY <2>1, <2>2, <2>3 DEF Counted
    <2>5. ASSUME NEW w \in json_bow_set' PROVE Cardinality(FilesWith(w))' >= 1
        BY <2>1, <2>2 DEF Counted
    <2>6. DOMAIN vocabulary \cup json_bow_set' = UNION {json_dict[x].kept : x \in Taken'}
        BY <2>1 DEF Counted
    <2> QED
        BY <2>1, <2>4, <2>5, <2>6 DEF Counted
<1>5. ASSUME NEW w \in Words, Count(w) PROVE Counted'
    <2>1. /\ phase = "count" /\ phase' = "count" /\ w \in json_bow_set
          /\ json_bow_set' = json_bow_set \ {w}
          /\ UNCHANGED <<json_dict, train, todo>>
        BY <1>5 DEF Count
    <2>2. Taken' = Taken /\ \A x : FilesWith(x)' = FilesWith(x)
        BY <2>1 DEF Taken, FilesWith
    <2>3. /\ DOMAIN vocabulary' = DOMAIN vocabulary \cup {w}
          /\ \A x \in DOMAIN vocabulary \ {w} : vocabulary'[x] = vocabulary[x]
          /\ w \in DOMAIN vocabulary => vocabulary'[w].count = vocabulary[w].count + 1
          /\ w \notin DOMAIN vocabulary => vocabulary'[w].count = 1
        BY <1>5, CountTable
    <2>4. vocabulary'[w].count <= Cardinality(FilesWith(w))
        BY <2>1, <2>3 DEF Counted
    <2>5. \A x \in DOMAIN vocabulary' : vocabulary'[x].count \in Nat
        BY <1>5, TypesNext DEF Next, VocabularyTypes, Entry
    <2>6. ASSUME NEW x \in DOMAIN vocabulary'
          PROVE  vocabulary'[x].count + (IF x \in json_bow_set' THEN 1 ELSE 0)
                    <= Cardinality(FilesWith(x))
        <3>1. CASE x = w
            BY <2>1, <2>4, <2>5, <3>1
        <3>2. CASE x # w
            BY <2>1, <2>3, <3>2 DEF Counted
        <3> QED
            BY <3>1, <3>2
    <2>7. DOMAIN vocabulary' \cup json_bow_set' = DOMAIN vocabulary \cup json_bow_set
        BY <2>1, <2>3
    <2> QED
        BY <2>1, <2>2, <2>6, <2>7 DEF Counted
<1>6. ASSUME NEW w \in Words, RemoveWord(w) PROVE Counted'
    <2>1. /\ phase = "remove" /\ phase' = "remove"
          /\ UNCHANGED <<json_dict, train, todo, json_bow_set>>
        BY <1>6 DEF RemoveWord
    <2>2. \A x : FilesWith(x)' = FilesWith(x)
        BY <2>1 DEF Taken, FilesWith
    <2>3. /\ DOMAIN vocabulary' \subseteq DOMAIN vocabulary
          /\ \A x \in DOMAIN vocabulary' : vocabulary'[x].count = vocabulary[x].count
        BY <1>6, RemoveTable
    <2> QED
        BY <2>1, <2>2, <2>3 DEF Counted
<1>7. CASE CountEnd
    BY <1>7, <1>1 DEF CountEnd
<1>8. CASE CollectEnd
    <2>1. /\ phase = "collect" /\ phase' \in {"remove", "vectors"} /\ json_bow_set' = {}
          /\ UNCHANGED <<json_dict, train, todo, vocabulary>>
        BY <1>8 DEF CollectEnd
    <2>2. \A x : FilesWith(x)' = FilesWith(x)
        BY <2>1 DEF Taken, FilesWith
    <2>3. \A x \in DOMAIN vocabulary : /\ vocabulary[x].count \in Nat
                                       /\ Cardinality(FilesWith(x)) \in Nat
        BY FilesFinite DEF VocabularyTypes, Entry
    <2>4. \A x \in DOMAIN vocabulary : vocabulary[x].count <= Cardinality(FilesWith(x))
        BY <2>3 DEF Counted
    <2> QED
        BY <2>1, <2>2, <2>3, <2>4 DEF Counted
<1>9. CASE RemoveEnd
    BY <1>9, <1>1 DEF RemoveEnd, Counted
<1>10. CASE init_vectors_dict
    BY <1>10, <1>1 DEF init_vectors_dict, Counted
<1>11. CASE Export
    BY <1>11, <1>1 DEF Export, Counted
<1>12. CASE Predict
    BY <1>12, <1>1 DEF Predict, Counted
<1>13. CASE UNCHANGED vars
    BY <1>13, <1>1 DEF vars
<1> QED
    BY <1>2, <1>3, <1>4, <1>5, <1>6, <1>7, <1>8, <1>9, <1>10, <1>11, <1>12, <1>13 DEF Next

(* Whatever the loop of ml.c:175 leaves in the set from file to file, the   *)
(* count of a word is at least 1, so that the division in ml_idf_remove is  *)
(* defined, and at most the number of the files it is in.                   *)
THEOREM CountsRight == Spec => []CountsAreFiles
<1>1. CountInv => CountsAreFiles
    <2> SUFFICES ASSUME CountInv PROVE CountsAreFiles
        OBVIOUS
    <2>1. \A w \in DOMAIN vocabulary : /\ vocabulary[w].count \in Nat \ {0}
                                       /\ Cardinality(FilesWith(w)) \in Nat
        BY FilesFinite DEF CountInv, VocabularyTypes, Entry
    <2>2. \A w \in DOMAIN vocabulary : vocabulary[w].count <= Cardinality(FilesWith(w))
        BY <2>1 DEF CountInv, Counted
    <2> QED
        BY <2>1, <2>2 DEF CountsAreFiles, CountInv, Counted
<1> QED
    BY CountInit, CountNext, <1>1, PTL DEF Spec

-----------------------------------------------------------------------------
(* An empty vocabulary is numbered.                                        *)
LEMMA PositionInit == Init => PositionInv
<1> SUFFICES ASSUME Init PROVE Numbered
    BY TypesInit DEF PositionInv
<1>1. DOMAIN vocabulary = {} /\ phase = "read"
    BY DEF Init
<1> QED
    BY <1>1 DEF Numbered, Numbers

(* Every step keeps the numbering.                                         *)
LEMMA PositionNext == PositionInv /\ [Next]_vars => PositionInv'
<1> SUFFICES ASSUME VocabularyTypes, Numbered, [Next]_vars PROVE Numbered'
    BY TypesNext DEF PositionInv
<1>1. ASSUME UNCHANGED vocabulary, phase # "remove", phase' # "remove" PROVE Numbered'
    BY <1>1 DEF Numbered, Numbers
<1>2. ASSUME NEW s \in Specs, ReadFile(s) PROVE Numbered'
    BY <1>1, <1>2 DEF ReadFile, PutFile
<1>3. CASE init_json_train_set
    BY <1>1, <1>3 DEF init_json_train_set
<1>4. ASSUME NEW s \in Specs, Collect(s) PROVE Numbered'
    BY <1>1, <1>4 DEF Collect
<1>5. ASSUME NEW w \in Words, Count(w) PROVE Numbered'
    <2> DEFINE S == DOMAIN vocabulary
    <2>1. phase = "count" /\ phase' = "count"
        BY <1>5 DEF Count
    <2>2. IsFiniteSet(S) /\ Cardinality(S) \in Nat
        BY Finite DEF VocabularyTypes
    <2>3. Numbers(vocabulary, S)
        BY <2>1 DEF Numbered
    <2>4. /\ DOMAIN vocabulary' = S \cup {w}
          /\ \A x \in S \ {w} : vocabulary'[x] = vocabulary[x]
          /\ w \in S => vocabulary'[w].position = vocabulary[w].position
          /\ w \notin S => vocabulary'[w].position = Cardinality(S)
        BY <1>5, CountTable DEF bow_sz
    <2>5. Cardinality(S \cup {w}) = IF w \in S THEN Cardinality(S) ELSE Cardinality(S) + 1
        BY <2>2, FS_AddElement
    <2>6. Numbers(vocabulary', S \cup {w})
        <3> HIDE DEF S
        <3>1. \A x \in S : vocabulary'[x].position = vocabulary[x].position
            BY <2>4
        <3>2. \A x \in S : vocabulary[x].position \in 0..(Cardinality(S) - 1)
            BY <2>3 DEF Numbers
        <3>3. CASE w \in S
            <4>1. S \cup {w} = S
                BY <3>3
            <4> QED
                BY <4>1, <3>1, <2>3 DEF Numbers
        <3>4. CASE w \notin S
            <4>1. \A x \in S : vocabulary'[x].position < vocabulary'[w].position
                BY <2>2, <2>4, <3>1, <3>2, <3>4
            <4>2. \A x \in S \cup {w} : vocabulary'[x].position \in 0..Cardinality(S)
                BY <2>2, <2>4, <3>1, <3>2, <3>4
            <4>3. \A x, y \in S \cup {w} :
                     vocabulary'[x].position = vocabulary'[y].position => x = y
                BY <2>3, <3>1, <3>2, <2>2, <4>1 DEF Numbers
            <4>4. Cardinality(S \cup {w}) - 1 = Cardinality(S)
                BY <2>2, <2>5, <3>4
            <4> QED
                BY <4>2, <4>3, <4>4 DEF Numbers
        <3> QED
            BY <3>3, <3>4
    <2> QED
        BY <2>1, <2>4, <2>6 DEF Numbered, Numbers
<1>6. ASSUME NEW w \in Words, RemoveWord(w) PROVE Numbered'
    <2> DEFINE Staying == DOMAIN vocabulary \ ahead
    <2>1. /\ phase = "remove" /\ phase' = "remove" /\ w \in ahead
          /\ ahead' = ahead \ {w} /\ i' = i + 1 /\ w \in DOMAIN vocabulary
        BY <1>6 DEF RemoveWord, VocabularyTypes
    <2>2. i - c = Cardinality(Staying) /\ Numbers(vocabulary, Staying) /\ w \notin Staying
        BY <2>1 DEF Numbered
    <2>3. i \in Int /\ c \in Int /\ IsFiniteSet(Staying) /\ Cardinality(Staying) \in Nat
        BY Finite DEF VocabularyTypes
    <2>4. \A x \in Staying : vocabulary'[x] = vocabulary[x]
        BY <1>6, <2>2, RemoveTable
    <2>5. CASE DOMAIN vocabulary' = DOMAIN vocabulary \ {w} /\ c' = c + 1
        <3>1. DOMAIN vocabulary' \ ahead' = Staying
            BY <2>1, <2>5
        <3>2. i' - c' = i - c
            BY <2>1, <2>3, <2>5
        <3> HIDE DEF Staying
        <3>3. Numbers(vocabulary', Staying)
            BY <2>2, <2>4 DEF Numbers
        <3> QED
            BY <2>1, <2>2, <3>1, <3>2, <3>3 DEF Numbered, Numbers
    <2>6. CASE DOMAIN vocabulary' = DOMAIN vocabulary /\ vocabulary'[w].position = i - c /\ c' = c
        <3>1. DOMAIN vocabulary' \ ahead' = Staying \cup {w}
            BY <2>1, <2>6
        <3> HIDE DEF Staying
        <3>2. Cardinality(Staying \cup {w}) = Cardinality(Staying) + 1
            BY <2>2, <2>3, FS_AddElement
        <3>3. i' - c' = Cardinality(Staying \cup {w})
            BY <2>1, <2>2, <2>3, <2>6, <3>2
        <3>4. \A x \in Staying : vocabulary'[x].position \in 0..(Cardinality(Staying) - 1)
            BY <2>2, <2>4 DEF Numbers
        <3>5. vocabulary'[w].position = Cardinality(Staying)
            BY <2>2, <2>6
        <3>6. \A x, y \in Staying \cup {w} :
                 vocabulary'[x].position = vocabulary'[y].position => x = y
            <4>1. \A x \in Staying : vocabulary'[x].position # vocabulary'[w].position
                BY <2>3, <3>4, <3>5
            <4> QED
                BY <2>2, <2>4, <4>1 DEF Numbers
        <3>7. \A x \in Staying \cup {w} : vocabulary'[x].position \in 0..(Cardinality(Staying \cup {w}) - 1)
            BY <2>3, <3>2, <3>4, <3>5
        <3>8. Numbers(vocabulary', Staying \cup {w})
            BY <3>6, <3>7 DEF Numbers
        <3> QED
            BY <2>1, <3>1, <3>3, <3>8 DEF Numbered, Numbers
    <2> QED
        BY <1>6, <2>5, <2>6, RemoveTable
<1>7. CASE CountEnd
    BY <1>1, <1>7 DEF CountEnd
<1>8. CASE CollectEnd
    <2>1. phase = "collect" /\ UNCHANGED vocabulary /\ i' = 0 /\ c' = 0 /\ ahead' = DOMAIN vocabulary
        BY <1>8 DEF CollectEnd
    <2>2. DOMAIN vocabulary' \ ahead' = {}
        BY <2>1
    <2>3. phase' = "remove" => Numbered'
        BY <2>1, <2>2, FS_EmptySet DEF Numbered, Numbers
    <2> QED
        BY <1>1, <2>1, <2>3
<1>9. CASE RemoveEnd
    <2>1. phase = "remove" /\ phase' = "vectors" /\ ahead = {} /\ UNCHANGED vocabulary
        BY <1>9 DEF RemoveEnd
    <2>2. DOMAIN vocabulary \ ahead = DOMAIN vocabulary
        BY <2>1
    <2> QED
        BY <2>1, <2>2 DEF Numbered, Numbers
<1>10. CASE init_vectors_dict
    BY <1>1, <1>10 DEF init_vectors_dict
<1>11. CASE Export
    BY <1>1, <1>11 DEF Export
<1>12. CASE Predict
    BY <1>1, <1>12 DEF Predict
<1>13. CASE UNCHANGED vars
    BY <1>13 DEF vars, loop, Numbered, Numbers
<1> QED
    BY <1>2, <1>3, <1>4, <1>5, <1>6, <1>7, <1>8, <1>9, <1>10, <1>11, <1>12, <1>13 DEF Next

(* The positions of the words number the vocabulary from 0 without holes,   *)
(* in whatever order ml_idf_remove comes by the words and whichever it      *)
(* deletes: they are indices of arrays of bow_sz numbers, a word each.      *)
THEOREM PositionsNumber == Spec => []PositionsFit
<1>1. PositionInv => PositionsFit
    BY DEF PositionInv, Numbered, Numbers, PositionsFit, bow_sz
<1> QED
    BY PositionInit, PositionNext, <1>1, PTL DEF Spec

-----------------------------------------------------------------------------
\* What main has made for the prediction program.
ExportInv ==
    /\ phase \in {"export", "user", "done"} =>
          vectors = [s \in Specs |-> Vector(vocabulary, json_dict[s], tfidf)]
    /\ phase \in {"user", "done"} =>
          /\ csv = {[key |-> w, word |-> vocabulary[w]] : w \in DOMAIN vocabulary}
          /\ weights_len = bow_sz

UserInv == VocabularyTypes /\ tfidf \in BOOLEAN /\ ExportInv /\ UserSeesSameVector

(* The vocabulary that user.c reads is the one that main.c wrote.          *)
LEMMA Imported ==
    ASSUME VocabularyTypes,
           csv = {[key |-> w, word |-> vocabulary[w]] : w \in DOMAIN vocabulary}
    PROVE  ml_init_vocabulary = vocabulary
<1> DEFINE Row(w) == [key |-> w, word |-> vocabulary[w]]
<1>1. /\ \A w \in DOMAIN vocabulary : Row(w) \in csv
      /\ \A row \in csv : \E w \in DOMAIN vocabulary : row = Row(w)
      /\ \A w : Row(w).key = w /\ Row(w).word = vocabulary[w]
    OBVIOUS
<1> HIDE DEF Row
<1>2. {row.key : row \in csv} = DOMAIN vocabulary
    <2>1. ASSUME NEW row \in csv PROVE row.key \in DOMAIN vocabulary
        <3>1. PICK w \in DOMAIN vocabulary : row = Row(w)
            BY <1>1
        <3> QED
            BY <1>1, <3>1
    <2>2. ASSUME NEW w \in DOMAIN vocabulary PROVE \E row \in csv : row.key = w
        BY <1>1
    <2> QED
        BY <2>1, <2>2
<1>3. \A w \in DOMAIN vocabulary : (CHOOSE row \in csv : row.key = w).word = vocabulary[w]
    <2> TAKE w \in DOMAIN vocabulary
    <2>1. \E row \in csv : row.key = w
        BY <1>1
    <2>2. \A row \in csv : row.key = w => row.word = vocabulary[w]
        BY <1>1
    <2> QED
        BY <2>1, <2>2
<1>4. ml_init_vocabulary = [w \in DOMAIN vocabulary |-> vocabulary[w]]
    BY <1>2, <1>3 DEF ml_init_vocabulary
<1> QED
    BY <1>4 DEF VocabularyTypes

(* The entries of a vector are the hits at its positions.                  *)
LEMMA VectorCounts ==
    ASSUME NEW dict, NEW file, NEW weigh
    PROVE  /\ DOMAIN Vector(dict, file, weigh) = 0..(Cardinality(DOMAIN dict) - 1)
           /\ \A p \in 0..(Cardinality(DOMAIN dict) - 1) :
                 Vector(dict, file, weigh)[p].n = Hits(dict, file, {p})
BY DEF Vector

(* Nothing is exported at the start.                                       *)
LEMMA UserInit == Init => UserInv
BY TypesInit DEF Init, UserInv, ExportInv, UserSeesSameVector

(* Every step keeps what is exported as main.c made it.                    *)
LEMMA UserNext == UserInv /\ [Next]_vars => UserInv'
<1> SUFFICES ASSUME UserInv, [Next]_vars PROVE ExportInv' /\ UserSeesSameVector' /\ tfidf' = tfidf
    BY TypesNext DEF UserInv
<1>1. ASSUME phase' \notin {"export", "user", "done"}, tfidf' = tfidf
      PROVE  ExportInv' /\ UserSeesSameVector' /\ tfidf' = tfidf
    BY <1>1 DEF ExportInv, UserSeesSameVector
<1>2. ASSUME NEW s \in Specs, ReadFile(s) PROVE ExportInv' /\ UserSeesSameVector' /\ tfidf' = tfidf
    BY <1>1, <1>2 DEF ReadFile, PutFile
<1>3. CASE init_json_train_set
    BY <1>1, <1>3 DEF init_json_train_set
<1>4. ASSUME NEW s \in Specs, Collect(s) PROVE ExportInv' /\ UserSeesSameVector' /\ tfidf' = tfidf
    BY <1>1, <1>4 DEF Collect
<1>5. ASSUME NEW w \in Words, Count(w) PROVE ExportInv' /\ UserSeesSameVector' /\ tfidf' = tfidf
    BY <1>1, <1>5 DEF Count
<1>6. ASSUME NEW w \in Words, RemoveWord(w) PROVE ExportInv' /\ UserSeesSameVector' /\ tfidf' = tfidf
    BY <1>1, <1>6 DEF RemoveWord
<1>7. CASE CountEnd
    BY <1>1, <1>7 DEF CountEnd
<1>8. CASE CollectEnd
    BY <1>1, <1>8 DEF CollectEnd
<1>9. CASE RemoveEnd
    BY <1>1, <1>9 DEF RemoveEnd
<1>10. CASE init_vectors_dict
    BY <1>10 DEF init_vectors_dict, ExportInv, UserSeesSameVector
<1>11. CASE Export
    <2>1. /\ phase = "export" /\ phase' = "user" /\ UNCHANGED <<json_dict, tfidf, vocabulary, vectors>>
          /\ csv' = {[key |-> w, word |-> vocabulary[w]] : w \in DOMAIN vocabulary}
          /\ weights_len' = bow_sz
        BY <1>11 DEF Export
    <2>2. bow_sz' = bow_sz
        BY <2>1 DEF bow_sz
    <2> QED
        BY <2>1, <2>2 DEF UserInv, ExportInv, UserSeesSameVector
<1>12. CASE Predict
    <2>1. /\ phase = "user" /\ phase' = "done"
          /\ UNCHANGED <<json_dict, tfidf, vocabulary, vectors, exported>>
          /\ user_vocabulary' = ml_init_vocabulary
          /\ user_vectors' = [s \in Specs |-> Vector(ml_init_vocabulary, json_dict[s], FALSE)]
        BY <1>12 DEF Predict
    <2>2. ml_init_vocabulary = vocabulary
        BY <2>1, Imported DEF UserInv, ExportInv
    <2>3. ExportInv'
        BY <2>1 DEF UserInv, ExportInv, exported, bow_sz
    <2>4. \A s \in Specs : /\ user_vectors'[s] = Vector(vocabulary, json_dict[s], FALSE)
                           /\ vectors'[s] = Vector(vocabulary, json_dict[s], tfidf)
        BY <2>1, <2>2 DEF UserInv, ExportInv
    <2>5. weights_len' = Cardinality(DOMAIN vocabulary)
        BY <2>1 DEF UserInv, ExportInv, exported, bow_sz
    <2>6. ASSUME NEW s \in Specs
          PROVE  /\ DOMAIN user_vectors'[s] = 0..(weights_len' - 1)
                 /\ \A p \in DOMAIN vectors'[s] : user_vectors'[s][p].n = vectors'[s][p].n
                 /\ ~tfidf => user_vectors'[s] = vectors'[s]
        <3> DEFINE used == Vector(vocabulary, json_dict[s], FALSE)
                   Trained == Vector(vocabulary, json_dict[s], tfidf)
        <3>1. /\ DOMAIN used = 0..(Cardinality(DOMAIN vocabulary) - 1) /\ DOMAIN Trained = DOMAIN used
              /\ \A p \in DOMAIN Trained : used[p].n = Trained[p].n
            <4> DEFINE size == Cardinality(DOMAIN vocabulary)
            <4>1. /\ DOMAIN used = 0..(size - 1)
                  /\ \A p \in 0..(size - 1) : used[p].n = Hits(vocabulary, json_dict[s], {p})
                BY VectorCounts
            <4>2. /\ DOMAIN Trained = 0..(size - 1)
                  /\ \A p \in 0..(size - 1) : Trained[p].n = Hits(vocabulary, json_dict[s], {p})
                BY VectorCounts
            <4> QED
                BY <4>1, <4>2
        <3> HIDE DEF used, Trained
        <3>2. DOMAIN user_vectors'[s] = 0..(weights_len' - 1)
            BY <2>4, <2>5, <3>1 DEF used
        <3>3. \A p \in DOMAIN vectors'[s] : user_vectors'[s][p].n = vectors'[s][p].n
            BY <2>4, <3>1 DEF used, Trained
        <3>4. ~tfidf => user_vectors'[s] = vectors'[s]
            BY <2>4 DEF UserInv
        <3> QED
            BY <3>2, <3>3, <3>4
    <2>7. UserSeesSameVector'
        BY <2>1, <2>2, <2>6 DEF UserSeesSameVector
    <2> QED
        BY <2>1, <2>3, <2>7
<1>13. CASE UNCHANGED vars
    <2>1. UNCHANGED <<phase, json_dict, tfidf, vocabulary, vectors, csv, weights_len,
                      user_vocabulary, user_vectors>>
        BY <1>13 DEF vars, exported, user
    <2> QED
        BY <2>1 DEF UserInv, ExportInv, UserSeesSameVector, bow_sz
<1> QED
    BY <1>2, <1>3, <1>4, <1>5, <1>6, <1>7, <1>8, <1>9, <1>10, <1>11, <1>12, <1>13 DEF Next

(* The prediction program has the vocabulary of the training and vectors as *)
(* long as the weights of the model, with the same counts at the same       *)
(* indices, and the very vectors of the training unless that used tf-idf.   *)
THEOREM UserVectorsSame == Spec => []UserSeesSameVector
<1>1. UserInv => UserSeesSameVector
    BY DEF UserInv
<1> QED
    BY UserInit, UserNext, <1>1, PTL DEF Spec

-----------------------------------------------------------------------------
(* What the tokenizer of words takes from a text *)

\* A text without the character that buf_get_char returns at its end.
Plain(s) == \A k \in DOMAIN s : s[k] # Nul

\* No word stands at the end of the text.
Ended(s) == s # <<>> => s[Len(s)] \in Separators

(* The rest of a text behind a place.                                      *)
LEMMA PastIs ==
    ASSUME NEW S, NEW s \in Seq(S), NEW p \in 0..Len(s)
    PROVE  /\ Past(s, p) \in Seq(S)
           /\ Len(Past(s, p)) = Len(s) - p
           /\ \A k \in 1..(Len(s) - p) : Past(s, p)[k] = s[p + k]
           /\ \A k \in Nat : buf_get_char(Past(s, p), k) = IF p + k < Len(s) THEN s[p + k + 1] ELSE Nul
<1>1. Len(s) \in Nat /\ p \in Nat /\ p <= Len(s)
  OBVIOUS
<1>2. /\ Past(s, p) \in Seq(S)
      /\ Len(Past(s, p)) = Len(s) - p
      /\ \A k \in 1..(Len(s) - p) : Past(s, p)[k] = s[p + k]
  BY <1>1 DEF Past
<1>3. ASSUME NEW k \in Nat
      PROVE  buf_get_char(Past(s, p), k) = IF p + k < Len(s) THEN s[p + k + 1] ELSE Nul
  <2>1. k < Len(s) - p <=> p + k < Len(s)
    BY <1>1
  <2>2. k < Len(s) - p => k + 1 \in 1..(Len(s) - p) /\ p + (k + 1) = p + k + 1
    BY <1>1
  <2> QED
    BY <1>2, <2>1, <2>2 DEF buf_get_char
<1> QED
  BY <1>2, <1>3

(* The rest behind a place of the rest.                                    *)
LEMMA PastPast ==
    ASSUME NEW S, NEW s \in Seq(S), NEW p \in 0..Len(s), NEW q \in 0..(Len(s) - p)
    PROVE  Past(Past(s, p), q) = Past(s, p + q)
<1>1. Len(s) \in Nat /\ p \in Nat /\ q \in Nat /\ p + q \in 0..Len(s)
  OBVIOUS
<1> DEFINE a == Past(s, p)
           b == Past(s, p + q)
           d == Past(a, q)
<1>2. a \in Seq(S) /\ Len(a) = Len(s) - p /\ \A k \in 1..(Len(s) - p) : a[k] = s[p + k]
  BY PastIs
<1>3. b \in Seq(S) /\ Len(b) = Len(s) - (p + q) /\ \A k \in 1..(Len(s) - (p + q)) : b[k] = s[p + q + k]
  BY <1>1, PastIs
<1> HIDE DEF a, b
<1>4. d \in Seq(S) /\ Len(d) = Len(a) - q /\ \A k \in 1..(Len(a) - q) : d[k] = a[q + k]
  <2>1. q \in 0..Len(a) /\ a \in Seq(S)
    BY <1>1, <1>2
  <2> QED
    BY <2>1, PastIs
<1> HIDE DEF d
<1>5. d = b
  <2>1. Len(d) = Len(b) /\ Len(d) \in Nat
    BY <1>1, <1>2, <1>3, <1>4
  <2>2. \A k \in 1..Len(d) : d[k] = b[k]
    <3> SUFFICES ASSUME NEW k \in 1..Len(d) PROVE d[k] = b[k]
      OBVIOUS
    <3>1. k \in 1..(Len(a) - q) /\ q + k \in 1..(Len(s) - p) /\ k \in 1..(Len(s) - (p + q))
      BY <1>1, <1>2, <1>4
    <3>2. d[k] = a[q + k] /\ a[q + k] = s[p + (q + k)] /\ b[k] = s[p + q + k]
      BY <1>2, <1>3, <1>4, <3>1
    <3> QED
      BY <1>1, <3>2
  <2>3. d = [k \in 1..Len(d) |-> d[k]]
    BY <1>4
  <2>4. b = [k \in 1..Len(b) |-> b[k]]
    BY <1>3
  <2> QED
    BY <2>1, <2>2, <2>3, <2>4
<1> QED
  BY <1>5 DEF a, b, d

(* What stands for the end of a text separates no words.                   *)
LEMMA NulIs == Nul \notin Separators
BY DEF Nul, Separators, isspace, ispunct, isdigit, Quote, Backslash

(* What is skipped before a word.                                          *)
LEMMA SkipIs ==
    ASSUME NEW S, NEW s \in Seq(S), NEW p \in 0..Len(s)
    PROVE  \E q \in p..Len(s) :
              /\ RunLength(Past(s, p), 0, Separators) = q - p
              /\ \A j \in (p + 1)..q : s[j] \in Separators
              /\ q < Len(s) => s[q + 1] \notin Separators
<1> DEFINE a == Past(s, p)
           T == {n \in 0..Len(a) : buf_get_char(a, 0 + n) \notin Separators}
<1>1. Len(s) \in Nat /\ p \in Nat /\ p <= Len(s)
  OBVIOUS
<1>2. /\ Len(a) = Len(s) - p
      /\ \A k \in Nat : buf_get_char(a, k) = IF p + k < Len(s) THEN s[p + k + 1] ELSE Nul
  BY PastIs
<1>3. RunLength(a, 0, Separators) = Min(T)
  BY DEF RunLength
<1> HIDE DEF a
<1>4. Len(a) \in T
  <2>1. Len(a) \in Nat /\ 0 + Len(a) = Len(a) /\ ~(p + Len(a) < Len(s))
    BY <1>1, <1>2
  <2>2. buf_get_char(a, 0 + Len(a)) = Nul
    BY <1>2, <2>1
  <2> QED
    BY <2>1, <2>2, NulIs
<1>5. T \subseteq Nat
  BY <1>1, <1>2
<1>6. PICK n \in T : n = Min(T) /\ \A k \in T : n <= k
  <2> HIDE DEF T
  <2> QED
    BY <1>4, <1>5, MinIs
<1>7. n \in 0..Len(a) /\ n \in Nat /\ p + n \in p..Len(s)
  <2>1. n \in 0..Len(a) /\ Len(a) = Len(s) - p
    BY <1>2, <1>6
  <2> HIDE DEF T
  <2> QED
    BY <1>1, <2>1
<1>8. \A j \in (p + 1)..(p + n) : s[j] \in Separators
  <2> SUFFICES ASSUME NEW j \in (p + 1)..(p + n), s[j] \notin Separators PROVE FALSE
    OBVIOUS
  <2> DEFINE k == j - p - 1
  <2>1. k \in Nat /\ k < n /\ p + k < Len(s) /\ p + k + 1 = j /\ 0 + k = k /\ k \in 0..Len(a)
    <3>1. n \in Nat /\ n <= Len(a) /\ Len(a) = Len(s) - p
      BY <1>2, <1>7
    <3>2. j \in Int /\ p + 1 <= j /\ j <= p + n
      BY <1>1, <3>1
    <3> HIDE DEF T
    <3> QED
      BY <1>1, <3>1, <3>2
  <2> HIDE DEF k
  <2>2. buf_get_char(a, 0 + k) = s[j]
    BY <1>2, <2>1
  <2>3. k \in T
    BY <2>1, <2>2
  <2>4. n <= k
    BY <1>6, <2>3
  <2> QED
    BY <1>7, <2>1, <2>4
<1>9. p + n < Len(s) => s[p + n + 1] \notin Separators
  <2>1. buf_get_char(a, 0 + n) \notin Separators /\ 0 + n = n
    BY <1>6, <1>7
  <2> QED
    BY <1>2, <1>7, <2>1
<1>10. RunLength(a, 0, Separators) = (p + n) - p
  BY <1>1, <1>3, <1>6, <1>7
<1> QED
  BY <1>7, <1>8, <1>9, <1>10 DEF a

(* Where the word ends.                                                    *)
LEMMA WordIs ==
    ASSUME NEW S, NEW s \in Seq(S), Plain(s), NEW q \in 0..Len(s)
    PROVE  LET rest == Past(s, q)
               n    == Min({k \in 0..Len(rest) : buf_get_char(rest, k) \in Separators \cup {Nul}})
           IN  \E e \in q..Len(s) :
                  /\ n = e - q
                  /\ \A j \in (q + 1)..e : s[j] \notin Separators
                  /\ e < Len(s) => s[e + 1] \in Separators
<1> DEFINE a == Past(s, q)
           T == {k \in 0..Len(a) : buf_get_char(a, k) \in Separators \cup {Nul}}
<1>1. Len(s) \in Nat /\ q \in Nat /\ q <= Len(s)
  OBVIOUS
<1>2. /\ Len(a) = Len(s) - q
      /\ \A k \in Nat : buf_get_char(a, k) = IF q + k < Len(s) THEN s[q + k + 1] ELSE Nul
  BY PastIs
<1> HIDE DEF a
<1>4. Len(a) \in T
  <2>1. Len(a) \in Nat /\ ~(q + Len(a) < Len(s))
    BY <1>1, <1>2
  <2>2. buf_get_char(a, Len(a)) = Nul
    BY <1>2, <2>1
  <2> QED
    BY <2>1, <2>2
<1>5. T \subseteq Nat
  BY <1>1, <1>2
<1>6. PICK n \in T : n = Min(T) /\ \A k \in T : n <= k
  <2> HIDE DEF T
  <2> QED
    BY <1>4, <1>5, MinIs
<1>7. n \in 0..Len(a) /\ n \in Nat /\ q + n \in q..Len(s)
  <2>1. n \in 0..Len(a) /\ Len(a) = Len(s) - q
    BY <1>2, <1>6
  <2> HIDE DEF T
  <2> QED
    BY <1>1, <2>1
<1>8. \A j \in (q + 1)..(q + n) : s[j] \notin Separators
  <2> SUFFICES ASSUME NEW j \in (q + 1)..(q + n), s[j] \in Separators PROVE FALSE
    OBVIOUS
  <2> DEFINE k == j - q - 1
  <2>1. k \in Nat /\ k < n /\ q + k < Len(s) /\ q + k + 1 = j /\ k \in 0..Len(a)
    <3>1. n \in Nat /\ n <= Len(a) /\ Len(a) = Len(s) - q
      BY <1>2, <1>7
    <3>2. j \in Int /\ q + 1 <= j /\ j <= q + n
      BY <1>1, <3>1
    <3> HIDE DEF T
    <3> QED
      BY <1>1, <3>1, <3>2
  <2> HIDE DEF k
  <2>2. buf_get_char(a, k) = s[j]
    BY <1>2, <2>1
  <2>3. k \in T
    BY <2>1, <2>2
  <2>4. n <= k
    BY <1>6, <2>3
  <2> QED
    BY <1>7, <2>1, <2>4
<1>9. q + n < Len(s) => s[q + n + 1] \in Separators
  <2>1. buf_get_char(a, n) \in Separators \cup {Nul}
    BY <1>6
  <2>2. q + n < Len(s) => q + n + 1 \in DOMAIN s
    BY <1>1, <1>7
  <2> QED
    BY <1>2, <1>7, <2>1, <2>2 DEF Plain
<1>10. Min(T) = (q + n) - q
  BY <1>1, <1>6, <1>7
<1> QED
  BY <1>7, <1>8, <1>9, <1>10 DEF a

\* The first word behind p is from a to b, and separators are around it.
WordAt(s, p, a, b) ==
    /\ p < a /\ a <= b /\ b < Len(s)
    /\ \A j \in (p + 1)..(a - 1) : s[j] \in Separators
    /\ \A j \in a..b : s[j] \notin Separators
    /\ s[b + 1] \in Separators

(* A call of str_next_nlp_token.                                           *)
LEMMA NextWord ==
    ASSUME NEW S, NEW s \in Seq(S), Plain(s), Ended(s), NEW p \in 0..Len(s)
    PROVE  LET t == str_next_nlp_token(Past(s, p)) IN
           /\ t.found \in BOOLEAN
           /\ ~t.found => \A j \in (p + 1)..Len(s) : s[j] \in Separators
           /\ t.found => \E a, b \in Nat :
                            /\ WordAt(s, p, a, b)
                            /\ t.buf = Spelled(s, <<a, b>>)
                            /\ t.f = Past(s, b + 1)
<1> DEFINE x    == Past(s, p)
           rest == Past(x, RunLength(x, 0, Separators))
           n    == Min({k \in 0..Len(rest) : buf_get_char(rest, k) \in Separators \cup {Nul}})
           t    == str_next_nlp_token(x)
<1>1. t = [buf |-> [k \in 1..n |-> tolower(rest[k])], f |-> Past(rest, n + 1),
           found |-> n < Len(rest)]
  BY DEF str_next_nlp_token
<1> HIDE DEF t
<1>2. Len(s) \in Nat /\ p \in Nat /\ p <= Len(s)
  OBVIOUS
<1>3. PICK q \in p..Len(s) : /\ RunLength(x, 0, Separators) = q - p
                             /\ \A j \in (p + 1)..q : s[j] \in Separators
                             /\ q < Len(s) => s[q + 1] \notin Separators
  BY SkipIs
<1>4. q \in Nat /\ q \in 0..Len(s) /\ q - p \in 0..(Len(s) - p) /\ p + (q - p) = q
  BY <1>2, <1>3
<1>5. rest = Past(s, q)
  <2>1. Past(Past(s, p), q - p) = Past(s, p + (q - p))
    BY <1>4, PastPast
  <2> QED
    BY <1>3, <1>4, <2>1
<1>6. \E e \in q..Len(s) : /\ n = e - q
                           /\ \A j \in (q + 1)..e : s[j] \notin Separators
                           /\ e < Len(s) => s[e + 1] \in Separators
  <2> HIDE DEF rest
  <2> QED
    BY <1>4, <1>5, WordIs
<1> HIDE DEF n, x
<1>7. PICK e \in q..Len(s) : /\ n = e - q
                             /\ \A j \in (q + 1)..e : s[j] \notin Separators
                             /\ e < Len(s) => s[e + 1] \in Separators
  BY <1>6
<1>8. e \in Nat /\ n \in Nat /\ q + n = e /\ n \in 0..(Len(s) - q)
  BY <1>2, <1>4, <1>7
<1>9. Len(rest) = Len(s) - q /\ \A k \in 1..(Len(s) - q) : rest[k] = s[q + k]
  BY <1>4, <1>5, PastIs
<1> HIDE DEF rest
<1>10. t.found <=> e < Len(s)
  <2>1. t.found = (n < Len(rest))
    BY <1>1
  <2>2. n < Len(rest) <=> e < Len(s)
    <3>1. Len(rest) = Len(s) - q
      BY <1>9
    <3> QED
      BY <1>2, <1>4, <1>8, <3>1
  <2> QED
    BY <2>1, <2>2
<1>11. ASSUME ~(e < Len(s))
       PROVE  \A j \in (p + 1)..Len(s) : s[j] \in Separators
  <2>1. e = Len(s)
    BY <1>2, <1>7, <1>11
  <2>2. q = Len(s)
    <3> SUFFICES ASSUME q < Len(s) PROVE FALSE
      BY <1>2, <1>4
    <3>1. s # <<>> /\ Len(s) \in (q + 1)..e
      BY <1>2, <1>4, <2>1
    <3> QED
      BY <1>7, <3>1 DEF Ended
  <2> QED
    BY <1>3, <2>2
<1>12. ASSUME e < Len(s)
       PROVE  \E a, b \in Nat : /\ WordAt(s, p, a, b)
                                /\ t.buf = Spelled(s, <<a, b>>)
                                /\ t.f = Past(s, b + 1)
  <2>1. q < e
    <3> SUFFICES ASSUME q = e PROVE FALSE
      BY <1>4, <1>8
    <3> QED
      BY <1>3, <1>7, <1>12
  <2>2. WordAt(s, p, q + 1, e)
    <3>1. p < q + 1 /\ q + 1 <= e /\ (q + 1) - 1 = q
      BY <1>2, <1>3, <1>4, <1>8, <2>1
    <3> QED
      BY <1>3, <1>7, <1>12, <3>1 DEF WordAt
  <2>3. t.buf = Spelled(s, <<q + 1, e>>)
    <3>1. e - (q + 1) + 1 = n
      BY <1>4, <1>8
    <3>2. Spelled(s, <<q + 1, e>>) = [k \in 1..(e - (q + 1) + 1) |-> tolower(s[q + 1 + k - 1])]
      BY DEF Spelled
    <3>3. \A k \in 1..n : tolower(s[q + 1 + k - 1]) = tolower(rest[k])
      <4> SUFFICES ASSUME NEW k \in 1..n PROVE s[q + 1 + k - 1] = rest[k]
        OBVIOUS
      <4>1. k \in 1..(Len(s) - q) /\ q + 1 + k - 1 = q + k
        BY <1>2, <1>4, <1>8
      <4> QED
        BY <1>9, <4>1
    <3>4. [k \in 1..n |-> tolower(s[q + 1 + k - 1])] = [k \in 1..n |-> tolower(rest[k])]
      BY <3>3
    <3> QED
      BY <1>1, <3>1, <3>2, <3>4
  <2>4. t.f = Past(s, e + 1)
    <3>1. n + 1 \in 0..(Len(s) - q) /\ q + (n + 1) = e + 1
      BY <1>2, <1>4, <1>8, <1>12
    <3>2. Past(rest, n + 1) = Past(s, q + (n + 1))
      BY <1>4, <1>5, <3>1, PastPast
    <3> QED
      BY <1>1, <3>1, <3>2
  <2>5. q + 1 \in Nat /\ e \in Nat
    BY <1>4, <1>8
  <2> QED
    BY <2>2, <2>3, <2>4, <2>5
<1>13. t.found \in BOOLEAN
  BY <1>1
<1> QED
  BY <1>10, <1>11, <1>12, <1>13 DEF t, x

(* The rest of a text is a text.                                           *)
LEMMA PastType ==
    ASSUME NEW S, NEW s \in Seq(S), NEW n \in Nat
    PROVE  Past(s, n) \in Seq(S) /\ Past(s, 0) = s
<1>1. Past(s, n) \in Seq(S)
  <2>1. CASE n <= Len(s)
    <3>1. n \in 0..Len(s)
      BY <2>1
    <3> QED
      BY <3>1, PastIs
  <2>2. CASE n > Len(s)
    <3>1. Past(s, n) = << >>
      BY <2>2 DEF Past
    <3> QED
      BY <3>1
  <2> QED
    BY <2>1, <2>2
<1>2. Past(s, 0) = s
  BY DEF Past
<1> QED
  BY <1>1, <1>2

(* So a tokenizer can go on behind any word.                               *)
LEMMA WordType ==
    ASSUME NEW S, NEW s \in Seq(S)
    PROVE  str_next_nlp_token(s).f \in Seq(S)
<1> DEFINE q    == RunLength(s, 0, Separators)
           rest == Past(s, q)
           T    == {k \in 0..Len(rest) : buf_get_char(rest, k) \in Separators \cup {Nul}}
           n    == Min(T)
<1>1. str_next_nlp_token(s).f = Past(rest, n + 1)
  BY DEF str_next_nlp_token
<1>2. q \in Nat
  <2>1. 0 \in 0..Len(s) /\ Past(s, 0) = s
    BY PastType
  <2>2. \E x \in 0..Len(s) : RunLength(Past(s, 0), 0, Separators) = x - 0
    BY <2>1, SkipIs
  <2> QED
    BY <2>1, <2>2
<1> HIDE DEF q
<1>3. rest \in Seq(S)
  BY <1>2, PastType
<1> HIDE DEF rest
<1>4. Len(rest) \in T
  <2>1. Len(rest) \in Nat /\ ~(Len(rest) < Len(rest))
    BY <1>3
  <2>2. buf_get_char(rest, Len(rest)) = Nul
    BY <2>1 DEF buf_get_char
  <2> QED
    BY <2>1, <2>2
<1>5. T \subseteq Nat
  BY <1>3
<1>6. n \in T
  <2> HIDE DEF T
  <2> QED
    BY <1>4, <1>5, MinIs
<1>7. n + 1 \in Nat
  <2> HIDE DEF T, n
  <2> QED
    BY <1>5, <1>6
<1> HIDE DEF n
<1> QED
  BY <1>1, <1>3, <1>7, PastType

(* The recursive function Calls is what its equation says.                 *)
LEMMA CallsAre ==
    ASSUME NEW S, NEW s \in Seq(S)
    PROVE  \A n \in Nat : Calls(str_next_nlp_token, s)[n]
               = str_next_nlp_token(IF n = 0 THEN s ELSE Calls(str_next_nlp_token, s)[n - 1].f)
<1> DEFINE g == [t \in Seq(S) |-> str_next_nlp_token(t).f]
           Repeats(call) ==
               call = [n \in Nat |-> str_next_nlp_token(IF n = 0 THEN s ELSE call[n - 1].f)]
           l == CHOOSE call : Repeats(call)
<1>1. g \in [Seq(S) -> Seq(S)]
  BY WordType
<1>2. PICK h \in [Nat -> Seq(S)] : Iterate(h, g, s)
  <2> HIDE DEF g
  <2> QED
    BY <1>1, Iterates
<1>3. h[0] = s /\ \A n \in Nat : h[n + 1] = str_next_nlp_token(h[n]).f
  BY <1>2 DEF Iterate
<1> DEFINE f == [n \in Nat |-> str_next_nlp_token(h[n])]
<1>4. Repeats(f)
  <2>1. ASSUME NEW n \in Nat
        PROVE  f[n] = str_next_nlp_token(IF n = 0 THEN s ELSE f[n - 1].f)
    <3>1. CASE n = 0
      BY <1>3, <3>1
    <3>2. CASE n # 0
      <4>1. n - 1 \in Nat /\ (n - 1) + 1 = n
        BY <3>2
      <4>2. h[n] = str_next_nlp_token(h[n - 1]).f
        BY <1>3, <4>1
      <4>3. f[n - 1].f = h[n]
        BY <4>1, <4>2
      <4> QED
        BY <3>2, <4>3
    <3> QED
      BY <3>1, <3>2
  <2>2. f = [n \in Nat |-> f[n]]
    OBVIOUS
  <2> HIDE DEF f
  <2> QED
    BY <2>1, <2>2
<1>5. Repeats(l)
  <2>1. \E call : Repeats(call)
    BY <1>4
  <2> HIDE DEF Repeats
  <2> QED
    BY <2>1
<1>6. Calls(str_next_nlp_token, s) = l
  BY DEF Calls
<1> HIDE DEF l
<1> QED
  BY <1>5, <1>6

\* The places where the calls of a tokenizer of words begin, and its words.
Walk(s, n, pos, from, to) ==
    /\ pos \in [0..n -> 0..Len(s)] /\ from \in [1..n -> Nat] /\ to \in [1..n -> Nat]
    /\ pos[0] = 0
    /\ \A k \in 1..n : WordAt(s, pos[k - 1], from[k], to[k]) /\ pos[k] = to[k] + 1
    /\ \A j \in (pos[n] + 1)..Len(s) : s[j] \in Separators

(* The tokenizer goes through the text and meets words only.               *)
LEMMA TokensWalk ==
    ASSUME NEW S, NEW s \in Seq(S), Plain(s), Ended(s)
    PROVE  \E n, pos, from, to :
              /\ n \in Nat
              /\ Walk(s, n, pos, from, to)
              /\ Tokens(s) = [k \in 1..n |-> Spelled(s, <<from[k], to[k]>>)]
<1> DEFINE l == Calls(str_next_nlp_token, s)
           in(k) == IF k = 0 THEN s ELSE l[k - 1].f
           T == {k \in 0..Len(s) : ~l[k].found}
           N == Min(T)
<1>1. Tokens(s) = [k \in 1..N |-> l[k - 1].buf]
  BY DEF Tokens, AllTokens
<1>2. \A k \in Nat : l[k] = str_next_nlp_token(in(k))
  BY CallsAre
<1>3. in(0) = s /\ \A k \in Nat : in(k + 1) = l[k].f
  OBVIOUS
<1> HIDE DEF l, in
<1>4. Len(s) \in Nat
  OBVIOUS
<1>5. ASSUME NEW n \in Nat, \A k \in Nat : k < n => l[k].found
      PROVE  \E p \in 0..Len(s) : p >= n /\ in(n) = Past(s, p)
  <2> DEFINE Bad == {x \in Nat : x <= n /\ ~\E p \in 0..Len(s) : p >= x /\ in(x) = Past(s, p)}
  <2> SUFFICES ASSUME Bad # {} PROVE FALSE
    OBVIOUS
  <2>1. PICK x \in Bad : \A k \in Bad : x <= k
    <3> HIDE DEF Bad
    <3>1. Bad \subseteq Nat
      BY DEF Bad
    <3> QED
      BY <3>1, Least
  <2>2. x # 0
    <3>1. in(0) = Past(s, 0) /\ 0 \in 0..Len(s)
      BY <1>3, <1>4, PastType
    <3> QED
      BY <2>1, <3>1
  <2>3. PICK j \in Nat : x = j + 1 /\ j < n /\ j < x
    <3>1. x \in Nat /\ x <= n /\ x - 1 \in Nat /\ x = (x - 1) + 1 /\ x - 1 < n /\ x - 1 < x
      BY <2>1, <2>2
    <3> QED
      BY <3>1
  <2>4. j \notin Bad
    <3>1. x \in Nat
      BY <2>1
    <3> HIDE DEF Bad
    <3> QED
      BY <2>1, <2>3, <3>1
  <2>5. PICK p \in 0..Len(s) : p >= j /\ in(j) = Past(s, p)
    BY <2>3, <2>4
  <2>6. l[j].found /\ l[j] = str_next_nlp_token(Past(s, p)) /\ in(x) = l[j].f
    BY <1>2, <1>3, <1>5, <2>3, <2>5
  <2>7. PICK a, b \in Nat : WordAt(s, p, a, b) /\ l[j].f = Past(s, b + 1)
    BY <2>6, NextWord
  <2>8. b + 1 \in 0..Len(s) /\ b + 1 >= x
    <3>1. p < a /\ a <= b /\ b < Len(s)
      BY <2>7 DEF WordAt
    <3> HIDE DEF Bad
    <3> QED
      BY <1>4, <2>3, <2>5, <2>7, <3>1
  <2> QED
    BY <2>1, <2>6, <2>7, <2>8
<1>6. T # {}
  <2> SUFFICES ASSUME \A k \in 0..Len(s) : l[k].found PROVE FALSE
    OBVIOUS
  <2>1. Len(s) + 1 \in Nat /\ \A k \in Nat : k < Len(s) + 1 => k \in 0..Len(s)
    BY <1>4
  <2>2. \E p \in 0..Len(s) : p >= Len(s) + 1 /\ in(Len(s) + 1) = Past(s, p)
    BY <1>5, <2>1
  <2> QED
    BY <1>4, <2>2
<1>7. PICK n \in T : n = N /\ \A k \in T : n <= k
  <2>1. T \subseteq Nat
    BY <1>4
  <2> HIDE DEF T
  <2> QED
    BY <1>6, <2>1, MinIs
<1>8. n \in Nat /\ n \in 0..Len(s) /\ ~l[n].found
  BY <1>4, <1>7
<1>9. \A k \in Nat : k < n => l[k].found
  <2> SUFFICES ASSUME NEW k \in Nat, k < n, ~l[k].found PROVE FALSE
    OBVIOUS
  <2>1. k \in T
    BY <1>4, <1>8
  <2>2. n <= k
    BY <1>7, <2>1
  <2> QED
    BY <1>8, <2>2
<1> DEFINE pos == [k \in 0..n |-> Len(s) - Len(in(k))]
<1>10. \A k \in 0..n : pos[k] \in 0..Len(s) /\ in(k) = Past(s, pos[k])
  <2> SUFFICES ASSUME NEW k \in 0..n PROVE pos[k] \in 0..Len(s) /\ in(k) = Past(s, pos[k])
    OBVIOUS
  <2>1. k \in Nat /\ \A j \in Nat : j < k => l[j].found
    BY <1>8, <1>9
  <2>2. PICK p \in 0..Len(s) : in(k) = Past(s, p)
    BY <1>5, <2>1
  <2>3. Len(in(k)) = Len(s) - p
    BY <2>2, PastIs
  <2>4. pos[k] = p
    BY <1>4, <2>3
  <2> QED
    BY <2>2, <2>4
<1> HIDE DEF T, N
<1>11. pos[0] = 0
  BY <1>3, <1>4, <1>8
<1>12. pos \in [0..n -> 0..Len(s)]
  BY <1>10
<1>13. \A k \in 0..n : pos[k] = Len(s) - Len(in(k))
  OBVIOUS
<1> HIDE DEF pos
<1> DEFINE Q(k, a, b) == /\ WordAt(s, pos[k - 1], a, b)
                         /\ l[k - 1].buf = Spelled(s, <<a, b>>)
                         /\ pos[k] = b + 1
<1>14. \A k \in 1..n : \E a, b \in Nat : Q(k, a, b)
  <2> SUFFICES ASSUME NEW k \in 1..n PROVE \E a, b \in Nat : Q(k, a, b)
    OBVIOUS
  <2>1. k - 1 \in 0..n /\ k \in 0..n /\ k - 1 \in Nat /\ k - 1 < n /\ (k - 1) + 1 = k
    BY <1>8
  <2>2. pos[k - 1] \in 0..Len(s) /\ in(k - 1) = Past(s, pos[k - 1])
    BY <1>10, <2>1
  <2>3. l[k - 1] = str_next_nlp_token(Past(s, pos[k - 1])) /\ l[k - 1].found
    BY <1>2, <1>9, <2>1, <2>2
  <2>4. PICK a, b \in Nat : /\ WordAt(s, pos[k - 1], a, b)
                            /\ l[k - 1].buf = Spelled(s, <<a, b>>)
                            /\ l[k - 1].f = Past(s, b + 1)
    BY <2>2, <2>3, NextWord
  <2>5. in(k) = Past(s, b + 1)
    BY <1>3, <2>1, <2>4
  <2>6. b + 1 \in 0..Len(s)
    BY <1>4, <2>4 DEF WordAt
  <2>7. Len(in(k)) = Len(s) - (b + 1)
    BY <2>5, <2>6, PastIs
  <2>8. pos[k] = b + 1
    BY <1>4, <1>13, <2>1, <2>6, <2>7
  <2> QED
    BY <2>4, <2>8
<1> HIDE DEF Q
<1> DEFINE from == [k \in 1..n |-> CHOOSE a \in Nat : \E b \in Nat : Q(k, a, b)]
           to   == [k \in 1..n |-> CHOOSE b \in Nat : Q(k, from[k], b)]
<1>15. \A k \in 1..n : from[k] \in Nat /\ \E b \in Nat : Q(k, from[k], b)
  BY <1>14
<1>16. from \in [1..n -> Nat]
  BY <1>15
<1> HIDE DEF from
<1>17. \A k \in 1..n : to[k] \in Nat /\ Q(k, from[k], to[k])
  BY <1>15
<1>18. to \in [1..n -> Nat]
  BY <1>17
<1> HIDE DEF to
<1>19. \A j \in (pos[n] + 1)..Len(s) : s[j] \in Separators
  <2>1. n \in 0..n
    BY <1>8
  <2>2. pos[n] \in 0..Len(s) /\ ~str_next_nlp_token(Past(s, pos[n])).found
    BY <1>2, <1>8, <1>10, <2>1
  <2> QED
    BY <2>2, NextWord
<1>20. Walk(s, n, pos, from, to)
  BY <1>11, <1>12, <1>16, <1>17, <1>18, <1>19 DEF Walk, Q
<1>21. Tokens(s) = [k \in 1..n |-> Spelled(s, <<from[k], to[k]>>)]
  <2>1. \A k \in 1..n : l[k - 1].buf = Spelled(s, <<from[k], to[k]>>)
    BY <1>17 DEF Q
  <2>2. [k \in 1..n |-> l[k - 1].buf] = [k \in 1..n |-> Spelled(s, <<from[k], to[k]>>)]
    BY <2>1
  <2> QED
    BY <1>1, <1>7, <2>2
<1> QED
  BY <1>8, <1>20, <1>21

(* The places go forward.                                                  *)
LEMMA WalkForward ==
    ASSUME NEW S, NEW s \in Seq(S), NEW n \in Nat, NEW pos, NEW from, NEW to,
           Walk(s, n, pos, from, to), NEW k \in 0..n, NEW j \in 0..n, k < j
    PROVE  pos[k] < pos[j]
<1> DEFINE Bad == {x \in 0..n : k < x /\ ~(pos[k] < pos[x])}
<1> SUFFICES ASSUME Bad # {} PROVE FALSE
  OBVIOUS
<1>1. PICK x \in Bad : \A y \in Bad : x <= y
  <2>1. Bad \subseteq Nat
    OBVIOUS
  <2> HIDE DEF Bad
  <2> QED
    BY <2>1, Least
<1>2. x \in Nat /\ k \in Nat /\ x \in 1..n /\ x - 1 \in 0..n /\ k <= x - 1 /\ x - 1 < x
  BY <1>1
<1>3. pos[x - 1] \in Nat /\ pos[x] \in Nat /\ pos[k] \in Nat /\ from[x] \in Nat /\ to[x] \in Nat
  <2>1. pos \in [0..n -> 0..Len(s)] /\ from \in [1..n -> Nat] /\ to \in [1..n -> Nat] /\ x \in 0..n
    BY <1>2 DEF Walk
  <2>2. 0..Len(s) \subseteq Nat
    OBVIOUS
  <2> QED
    BY <1>2, <2>1, <2>2
<1>4. pos[x - 1] < pos[x]
  <2>1. pos[x - 1] < from[x] /\ from[x] <= to[x] /\ pos[x] = to[x] + 1
    BY <1>2 DEF Walk, WordAt
  <2> HIDE DEF Bad
  <2> QED
    BY <1>3, <2>1
<1>5. pos[k] <= pos[x - 1]
  <2>1. CASE x - 1 = k
    BY <1>3, <2>1
  <2>2. CASE x - 1 # k
    <3>1. x - 1 \notin Bad
      <4> HIDE DEF Bad
      <4> QED
        BY <1>1, <1>2
    <3>2. k < x - 1
      BY <1>2, <2>2
    <3> QED
      BY <1>2, <1>3, <3>1, <3>2
  <2> QED
    BY <2>1, <2>2
<1>6. pos[k] < pos[x]
  <2> HIDE DEF Bad
  <2> QED
    BY <1>3, <1>4, <1>5
<1> QED
  BY <1>1, <1>6

(* Each word that the tokenizer meets is a run of letters.                 *)
LEMMA WalkMeetsRuns ==
    ASSUME NEW S, NEW s \in Seq(S), NEW n \in Nat, NEW pos, NEW from, NEW to,
           Walk(s, n, pos, from, to), NEW k \in 1..n
    PROVE  <<from[k], to[k]>> \in Runs(s)
<1> DEFINE a == from[k]
           b == to[k]
           p == pos[k - 1]
<1>1. Len(s) \in Nat /\ k - 1 \in 0..n /\ k \in Nat /\ k \in 0..n
  OBVIOUS
<1>2. a \in Nat /\ b \in Nat /\ p \in 0..Len(s)
  BY <1>1 DEF Walk
<1>3. /\ p < a /\ a <= b /\ b < Len(s)
      /\ \A j \in (p + 1)..(a - 1) : s[j] \in Separators
      /\ \A j \in a..b : s[j] \notin Separators
      /\ s[b + 1] \in Separators
  BY DEF Walk, WordAt
<1>4. p # 0 => s[p] \in Separators
  <2> SUFFICES ASSUME p # 0 PROVE s[p] \in Separators
    OBVIOUS
  <2>1. k - 1 # 0
    BY DEF Walk
  <2>2. k - 1 \in 1..n
    BY <2>1
  <2>3. WordAt(s, pos[k - 1 - 1], from[k - 1], to[k - 1]) /\ p = to[k - 1] + 1
    BY <2>2 DEF Walk
  <2> QED
    BY <2>3 DEF WordAt
<1> HIDE DEF a, b, p
<1>5. a > 1 => s[a - 1] \in Separators
  <2> SUFFICES ASSUME a > 1 PROVE s[a - 1] \in Separators
    OBVIOUS
  <2>1. CASE a - 1 = p
    <3>1. p # 0
      BY <1>2, <2>1
    <3> QED
      BY <1>4, <2>1, <3>1
  <2>2. CASE a - 1 # p
    <3>1. a - 1 \in (p + 1)..(a - 1)
      BY <1>2, <1>3, <2>2
    <3> QED
      BY <1>3, <3>1
  <2> QED
    BY <2>1, <2>2
<1>6. a \in DOMAIN s /\ b \in DOMAIN s
  <2>1. a \in 1..Len(s) /\ b \in 1..Len(s)
    BY <1>1, <1>2, <1>3
  <2> QED
    BY <2>1
<1>7. <<a, b>> \in Runs(s)
  BY <1>3, <1>5, <1>6 DEF Runs, Letters
<1> QED
  BY <1>7 DEF a, b

(* Each run of letters is met.                                             *)
LEMMA RunsAreMet ==
    ASSUME NEW S, NEW s \in Seq(S), NEW n \in Nat, NEW pos, NEW from, NEW to,
           Walk(s, n, pos, from, to), NEW r \in Runs(s)
    PROVE  \E k \in 1..n : r = <<from[k], to[k]>>
<1>1. PICK a, b \in DOMAIN s : r = <<a, b>>
  BY DEF Runs
<1>2. /\ a \in Nat /\ b \in Nat /\ Len(s) \in Nat /\ 1 <= a /\ a <= Len(s) /\ b <= Len(s)
      /\ a <= b
      /\ \A k \in a..b : s[k] \notin Separators
      /\ a > 1 => s[a - 1] \in Separators
      /\ b < Len(s) => s[b + 1] \in Separators
  BY <1>1 DEF Runs, Letters
<1> DEFINE T == {k \in 0..n : pos[k] >= a}
<1>3. \A k \in 0..n : pos[k] \in 0..Len(s) /\ pos[k] \in Nat
  BY DEF Walk
<1>4. n \in T
  <2> SUFFICES ASSUME ~(pos[n] >= a) PROVE FALSE
    OBVIOUS
  <2>1. n \in 0..n /\ pos[n] \in Nat
    BY <1>3
  <2>2. a \in (pos[n] + 1)..Len(s) /\ a \in a..b
    BY <1>2, <2>1
  <2> QED
    BY <1>2, <2>2 DEF Walk
<1>5. PICK k \in T : \A j \in T : k <= j
  <2>1. T \subseteq Nat
    OBVIOUS
  <2> HIDE DEF T
  <2> QED
    BY <1>4, <2>1, Least
<1>6. k # 0
  BY <1>2, <1>5 DEF Walk
<1>7. k \in 1..n /\ k - 1 \in 0..n /\ k - 1 < k /\ k \in Nat /\ k \in 0..n
  BY <1>5, <1>6
<1>8. pos[k - 1] < a /\ a <= pos[k]
  <2>1. k - 1 \notin T
    <3> HIDE DEF T
    <3> QED
      BY <1>5, <1>7
  <2> QED
    BY <1>2, <1>3, <1>5, <1>7, <2>1
<1> HIDE DEF T
<1> DEFINE f == from[k]
           e == to[k]
           p == pos[k - 1]
<1>9. f \in Nat /\ e \in Nat /\ p \in Nat
  BY <1>3, <1>7 DEF Walk
<1>10. /\ p < f /\ f <= e /\ e < Len(s)
       /\ \A j \in (p + 1)..(f - 1) : s[j] \in Separators
       /\ \A j \in f..e : s[j] \notin Separators
       /\ s[e + 1] \in Separators
       /\ pos[k] = e + 1
  BY <1>7 DEF Walk, WordAt
<1>11. p < a /\ a <= e + 1
  BY <1>8, <1>10
<1> HIDE DEF f, e, p
<1>12. a \in a..b /\ s[a] \notin Separators
  <2>1. a \in a..b
    BY <1>2
  <2> QED
    BY <1>2, <2>1
<1>13. a <= e
  <2>1. a # e + 1
    BY <1>10, <1>12
  <2> QED
    BY <1>2, <1>9, <1>11, <2>1
<1>14. f <= a
  <2> SUFFICES ASSUME a < f PROVE FALSE
    BY <1>2, <1>9
  <2>1. a \in (p + 1)..(f - 1)
    BY <1>2, <1>9, <1>11
  <2> QED
    BY <1>10, <1>12, <2>1
<1>15. a = f
  <2> SUFFICES ASSUME f < a PROVE FALSE
    BY <1>2, <1>9, <1>14
  <2>1. a > 1 /\ a - 1 \in f..e
    BY <1>2, <1>9, <1>10, <1>13
  <2> QED
    BY <1>2, <1>10, <2>1
<1>16. b <= e
  <2> SUFFICES ASSUME e < b PROVE FALSE
    BY <1>2, <1>9
  <2>1. e + 1 \in a..b
    BY <1>2, <1>9, <1>13
  <2> QED
    BY <1>2, <1>10, <2>1
<1>17. b = e
  <2> SUFFICES ASSUME b < e PROVE FALSE
    BY <1>2, <1>9, <1>16
  <2>1. b < Len(s) /\ b + 1 \in f..e
    BY <1>2, <1>9, <1>10, <1>15
  <2> QED
    BY <1>2, <1>10, <2>1
<1> QED
  BY <1>1, <1>7, <1>15, <1>17 DEF f, e

(* str_next_nlp_token, called until it returns NULL, returns each word of  *)
(* the text as often as it is written.                                     *)
THEOREM TokensAreWords ==
    ASSUME NEW S, NEW s \in Seq(S), Plain(s), Ended(s), NEW w
    PROVE  /\ IsFiniteSet({r \in Runs(s) : Spelled(s, r) = w})
           /\ Tally({w}, Tokens(s)) = Cardinality({r \in Runs(s) : Spelled(s, r) = w})
<1>1. PICK n, pos, from, to :
         /\ n \in Nat
         /\ Walk(s, n, pos, from, to)
         /\ Tokens(s) = [k \in 1..n |-> Spelled(s, <<from[k], to[k]>>)]
  BY TokensWalk
<1> DEFINE run(k) == <<from[k], to[k]>>
           G == {k \in 1..n : Spelled(s, run(k)) = w}
           R == {r \in Runs(s) : Spelled(s, r) = w}
           f == [k \in G |-> run(k)]
<1>2. \A k \in 1..n : run(k) \in Runs(s)
  BY <1>1, WalkMeetsRuns
<1>3. \A r \in Runs(s) : \E k \in 1..n : r = run(k)
  BY <1>1, RunsAreMet
<1>4. \A k, j \in 1..n : run(k) = run(j) => k = j
  <2>1. ASSUME NEW k \in 1..n, NEW j \in 1..n, k < j
        PROVE  run(k) # run(j)
    <3>1. k \in 0..n /\ j \in 0..n
      OBVIOUS
    <3>2. pos[k] < pos[j]
      BY <1>1, <2>1, <3>1, WalkForward
    <3>3. pos[k] = to[k] + 1 /\ pos[j] = to[j] + 1 /\ pos[k] \in 0..Len(s)
      BY <1>1, <3>1 DEF Walk
    <3>4. pos[k] # pos[j]
      <4>1. pos[k] \in Int
        BY <3>3
      <4> QED
        BY <3>2, <4>1
    <3> QED
      BY <3>3, <3>4
  <2>2. \A k, j \in 1..n : k < j \/ j < k \/ k = j
    OBVIOUS
  <2> HIDE DEF run
  <2> QED
    BY <2>1, <2>2
<1>5. f \in Bijection(G, R)
  <2> HIDE DEF run
  <2>1. f \in [G -> R]
    BY <1>2
  <2>2. \A k, j \in G : f[k] = f[j] => k = j
    BY <1>4
  <2>3. \A r \in R : \E k \in G : f[k] = r
    BY <1>3
  <2> HIDE DEF f, G, R
  <2> QED
    BY <2>1, <2>2, <2>3 DEF Bijection, Injection, Surjection, IsInjective
<1>6. IsFiniteSet(G)
  <2>1. IsFiniteSet(1..n)
    BY <1>1, FS_Interval
  <2> QED
    BY <2>1, FS_Subset
<1>7. IsFiniteSet(R) /\ Cardinality(R) = Cardinality(G)
  <2> HIDE DEF f, G, R
  <2>1. ExistsBijection(G, R)
    BY <1>5 DEF ExistsBijection
  <2> QED
    BY <2>1, <1>6, FS_Bijection
<1>8. Tally({w}, Tokens(s)) = Cardinality(G)
  <2>1. {k \in DOMAIN Tokens(s) : Tokens(s)[k] \in {w}} = G
    <3> HIDE DEF run
    <3>1. Tokens(s) = [k \in 1..n |-> Spelled(s, run(k))]
      BY <1>1 DEF run
    <3> QED
      BY <3>1
  <2> QED
    BY <2>1 DEF Tally
<1> QED
  BY <1>7, <1>8

-----------------------------------------------------------------------------
(* The lists of keys of the open calls and of ret *)

(* What is counted begins with the sequence itself.                        *)
LEMMA Starts ==
    ASSUME NEW U, Closed(U), NEW s \in Seq(U), Ending(s)
    PROVE  \A k \in DOMAIN s : s[k] \in Reach(s)
<1>1. PICK n \in Nat : Ends(s, n)
  BY DEF Ending
<1>2. Reach(s) = ToSet(Upto(s, n))
  BY <1>1, ReachIs
<1>3. Levels(s)[0] = s
  BY LevelsAre
<1>4. CASE n = 0
  BY <1>1, <1>3, <1>4 DEF Ends
<1>5. CASE n # 0
  <2> SUFFICES ASSUME NEW e \in ToSet(s) PROVE e \in ToSet(Upto(s, n))
    <3>1. \A k \in DOMAIN s : s[k] \in ToSet(s)
      BY DEF ToSet
    <3> QED
      BY <1>2, <3>1
  <2> DEFINE Bad == {k \in Nat : k >= 1 /\ e \notin ToSet(Upto(s, k))}
  <2> SUFFICES ASSUME Bad # {} PROVE FALSE
    BY <1>5
  <2>1. PICK k \in Bad : \A j \in Bad : k <= j
    <3>1. Bad \subseteq Nat
      OBVIOUS
    <3> HIDE DEF Bad
    <3> QED
      BY <3>1, Least
  <2>2. k \in Nat /\ k - 1 \in Nat /\ k = (k - 1) + 1
    BY <2>1
  <2> DEFINE a == Upto(s, k - 1)
             b == Levels(s)[k - 1]
  <2>3. a \in Seq(U) /\ b \in Seq(U) /\ Upto(s, k) = a \o b /\ Upto(s, 0) = <<>>
    <3>1. \A j \in Nat : Levels(s)[j] \in Seq(U)
      BY LevelsAre
    <3>2. Upto(s, (k - 1) + 1) = a \o b /\ a \in Seq(U) /\ Upto(s, 0) = <<>>
      BY <2>2, UptoAre
    <3> QED
      BY <2>2, <3>1, <3>2
  <2>4. ToSet(a \o b) = ToSet(a) \cup ToSet(b)
    <3> HIDE DEF a, b
    <3>1. /\ a \o b \in Seq(U) /\ Len(a \o b) = Len(a) + Len(b)
          /\ \A j \in 1..Len(a) : (a \o b)[j] = a[j]
          /\ \A j \in 1..Len(b) : (a \o b)[Len(a) + j] = b[j]
          /\ Len(a) \in Nat /\ Len(b) \in Nat
      BY <2>3
    <3> DEFINE w == a \o b
               p == Len(a)
               q == Len(b)
    <3>2. DOMAIN w = 1..(p + q) /\ DOMAIN a = 1..p /\ DOMAIN b = 1..q
      BY <2>3, <3>1
    <3>3. \A j \in 1..(p + q) : j \in 1..p \/ \E g \in 1..q : j = p + g
      <4> TAKE j \in 1..(p + q)
      <4>1. CASE j > p
        <5>1. j - p \in 1..q /\ j = p + (j - p)
          BY <3>1, <4>1
        <5> QED
          BY <5>1
      <4> QED
        BY <3>1, <4>1
    <3>4. \A j \in 1..p : j \in 1..(p + q)
      BY <3>1
    <3>5. \A j \in 1..q : p + j \in 1..(p + q)
      BY <3>1
    <3> HIDE DEF w, p, q
    <3>6. \A j \in 1..p : w[j] = a[j]
      BY <3>1 DEF w, p
    <3>7. \A j \in 1..q : w[p + j] = b[j]
      BY <3>1 DEF w, p, q
    <3>8. \A x \in ToSet(w) : x \in ToSet(a) \cup ToSet(b)
      <4> SUFFICES ASSUME NEW j \in 1..(p + q) PROVE w[j] \in ToSet(a) \cup ToSet(b)
        BY <3>2 DEF ToSet
      <4>1. CASE j \in 1..p
        BY <3>2, <3>6, <4>1 DEF ToSet
      <4>2. ASSUME NEW g \in 1..q, j = p + g PROVE w[j] \in ToSet(b)
        BY <3>2, <3>7, <4>2 DEF ToSet
      <4> QED
        BY <3>3, <4>1, <4>2
    <3>9. ToSet(a) \subseteq ToSet(w)
      BY <3>2, <3>4, <3>6 DEF ToSet
    <3>10. ToSet(b) \subseteq ToSet(w)
      BY <3>2, <3>5, <3>7 DEF ToSet
    <3> QED
      BY <3>8, <3>9, <3>10 DEF w
  <2>5. CASE k - 1 >= 1
    <3>1. k - 1 \notin Bad
      BY <2>1, <2>2
    <3>2. e \in ToSet(a)
      BY <2>2, <2>5, <3>1
    <3>3. e \notin ToSet(Upto(s, k))
      BY <2>1
    <3> HIDE DEF a, b, Bad
    <3> QED
      BY <2>3, <2>4, <3>2, <3>3
  <2>6. CASE ~(k - 1 >= 1)
    <3>1. k - 1 = 0
      BY <2>2, <2>6
    <3>2. b = s
      BY <1>3, <3>1
    <3>3. e \notin ToSet(Upto(s, k))
      BY <2>1
    <3> HIDE DEF a, b, Bad
    <3> QED
      BY <2>3, <2>4, <3>2, <3>3
  <2> QED
    BY <2>5, <2>6
<1> QED
  BY <1>4, <1>5

(* Each list of keys that the open calls or ret have ends.                 *)
LEMMA ListsEnd ==
    ASSUME NEW U, NEW open, NEW h, NEW r, NEW mem, Shape(U, open, h, r, mem),
           NEW n \in Nat, Bounds(open, h, r, n),
           NEW num, Owned(U, Roots(open, h, r, mem), mem, num)
    PROVE  /\ \A k \in DOMAIN open : Is("kvs", open[k]) => \E s : Chain(mem, mem[KeysOf(k)], s)
           /\ Is("kvs", r) => \E s : Chain(mem, r.keys, s)
<1> DEFINE R == Roots(open, h, r, mem)
           o == Opened(open, mem)
           w == <<r>>
           T == Lost(U, mem)
<1>3. Total(T, R) = 0
  BY DEF Owned
<1>4. /\ Closed(U) /\ Ending(o) /\ Ending(h) /\ Ending(w)
      /\ Total(T, R) = Total(T, o) + Total(T, h) + Total(T, w)
  <2>1. /\ Closed(U) /\ Ending(o) /\ Ending(h) /\ Ending(w)
        /\ Summed(open, h, r, mem)
    BY RootsAre
  <2>2. Total(T, R) = Total(T, o) + Total(T, h) + Total(T, w)
    <3> HIDE DEF T
    <3> QED
      BY <2>1 DEF Summed
  <2> QED
    BY <2>1, <2>2
<1>5. Sane(U) /\ o \in Seq(U) /\ h \in Seq(U) /\ w \in Seq(U) /\ r \in U /\ open \in Seq(U)
  BY DEF Shape
<1> HIDE DEF T, R
<1>6. Total(T, o) \in Nat /\ Total(T, h) \in Nat /\ Total(T, w) \in Nat
  <2> HIDE DEF o, w
  <2>1. Total(T, o) \in Nat
    BY <1>4, <1>5, ReachFacts
  <2>2. Total(T, h) \in Nat
    BY <1>4, <1>5, ReachFacts
  <2>3. Total(T, w) \in Nat
    BY <1>4, <1>5, ReachFacts
  <2> QED
    BY <2>1, <2>2, <2>3
<1>7. Total(T, o) = 0 /\ Total(T, w) = 0
  <2> DEFINE a == Total(T, o)
             b == Total(T, h)
             d == Total(T, w)
  <2>1. a \in Nat /\ b \in Nat /\ d \in Nat /\ a + b + d = 0
    BY <1>3, <1>4, <1>6
  <2> HIDE DEF a, b, d
  <2>2. a = 0 /\ d = 0
    BY <2>1
  <2> QED
    BY <2>2 DEF a, d
<1>8. \A e \in Reach(o) : e \notin T
  <2> HIDE DEF o, w
  <2> QED
    BY <1>4, <1>5, <1>7, ReachFacts
<1>9. \A e \in Reach(w) : e \notin T
  <2> HIDE DEF o, w
  <2> QED
    BY <1>4, <1>5, <1>7, ReachFacts
<1>10. ASSUME NEW k \in DOMAIN open, Is("kvs", open[k])
       PROVE  \E s : Chain(mem, mem[KeysOf(k)], s)
  <2>1. k \in DOMAIN o /\ o[k] = OpenEnt(open[k], k, mem)
    BY DEF Opened
  <2>2. o[k] \notin T /\ o[k] \in U
    <3>1. \A j \in DOMAIN o : o[j] \in Reach(o) /\ o[j] \in U
      <4> HIDE DEF o
      <4>1. \A j \in DOMAIN o : o[j] \in Reach(o)
        BY <1>4, <1>5, Starts
      <4>2. \A j \in DOMAIN o : o[j] \in U
        BY <1>5
      <4> QED
        BY <4>1, <4>2
    <3> HIDE DEF o
    <3> QED
      BY <1>8, <2>1, <3>1
  <2>3. Frame(open[k]) /\ open[k] \in U
    BY <1>5 DEF Shape
  <2>4. Is("kvs", o[k]) /\ o[k].keys = mem[KeysOf(k)]
    <3> HIDE DEF o
    <3> QED
      BY <1>5, <1>10, <2>1, <2>3, OpenEntIs
  <2> HIDE DEF o
  <2> QED
    BY <2>2, <2>4 DEF T, Lost
<1>11. Is("kvs", r) => \E s : Chain(mem, r.keys, s)
  <2>1. 1 \in DOMAIN w /\ w[1] = r
    OBVIOUS
  <2>2. r \in Reach(w)
    <3> HIDE DEF w
    <3> QED
      BY <1>4, <1>5, <2>1, Starts
  <2> QED
    BY <1>5, <1>9, <2>2 DEF T, Lost
<1> QED
  BY <1>10, <1>11

-----------------------------------------------------------------------------
(* The names that a list of keys has *)

NamesOf(mem, dat, l) == LET nodes == Nodes(mem, l) IN [k \in DOMAIN nodes |-> dat[nodes[k]]]

(* Where its nodes are the same, so are the names.                         *)
LEMMA NamesKept ==
    ASSUME NEW mem, Memory(mem), NEW next, Memory(next), NEW l, NEW s, Chain(mem, l, s),
           \A x \in Cells(mem) : x \in DOMAIN next /\ next[x] = mem[x],
           NEW dat, NEW later, \A x \in Cells(mem) : later[x] = dat[x]
    PROVE  NamesOf(next, later, l) = NamesOf(mem, dat, l)
<1>1. ToSet(s) \subseteq Cells(mem)
  BY ChainCells
<1>2. Nodes(next, l) = s /\ Nodes(mem, l) = s
  BY <1>1, Kept
<1>3. \A k \in DOMAIN s : s[k] \in Cells(mem)
  BY <1>1 DEF ToSet
<1> QED
  BY <1>2, <1>3 DEF NamesOf

(* A node before a list brings its name.                                   *)
LEMMA NamesPushed ==
    ASSUME NEW mem, Memory(mem), NEW next, Memory(next), NEW l, NEW s, Chain(mem, l, s),
           NEW x, x \in Cells(next), x \notin Cells(mem), next[x] = l,
           \A y \in Cells(mem) : y \in DOMAIN next /\ next[y] = mem[y],
           NEW dat, NEW later, \A y \in Cells(mem) : later[y] = dat[y]
    PROVE  NamesOf(next, later, x) = <<later[x]>> \o NamesOf(mem, dat, l)
<1>1. ToSet(s) \subseteq Cells(mem)
  BY ChainCells
<1> DEFINE t == <<x>> \o s
           n == Len(s)
<1>2. Chain(next, x, t)
  BY <1>1, ChainPushed
<1>3. Nodes(mem, l) = s
  BY NodesOfChain DEF Memory
<1>4. Nodes(next, x) = t
  <2> HIDE DEF t
  <2> QED
    BY <1>2, NodesOfChain DEF Memory
<1>5. s \in Seq(Cells(mem)) /\ n \in Nat /\ DOMAIN s = 1..n
  BY DEF Chain
<1>6. /\ DOMAIN t = 1..(n + 1) /\ t[1] = x /\ \A k \in 1..n : t[k + 1] = s[k]
  BY <1>5
<1> DEFINE a == NamesOf(mem, dat, l)
           b == NamesOf(next, later, x)
           d == <<later[x]>> \o a
           S == {dat[y] : y \in Cells(mem)} \cup {later[x]}
<1>7. /\ a = [k \in 1..n |-> dat[s[k]]]
      /\ \A k \in 1..n : s[k] \in Cells(mem)
  BY <1>3, <1>5 DEF NamesOf
<1>8. b = [k \in 1..(n + 1) |-> later[t[k]]]
  BY <1>4, <1>6 DEF NamesOf
<1>9. a \in Seq(S) /\ Len(a) = n /\ \A k \in 1..n : a[k] = dat[s[k]]
  <2>0. n \in Nat
    BY <1>5
  <2> HIDE DEF n
  <2>1. \A k \in 1..n : dat[s[k]] \in S
    BY <1>7
  <2> HIDE DEF a, S
  <2> QED
    BY <1>7, <2>0, <2>1
<1>95. later[x] \in S
  OBVIOUS
<1> HIDE DEF a, S
<1>10. /\ d \in Seq(S) /\ Len(d) = n + 1 /\ d[1] = later[x] /\ \A k \in 1..n : d[k + 1] = a[k]
  BY <1>9, <1>95
<1> HIDE DEF d, t, b, n
<1>11. \A k \in 1..(n + 1) : k = 1 \/ \E j \in 1..n : k = j + 1
  <2> TAKE k \in 1..(n + 1)
  <2>1. CASE k # 1
    <3>1. k - 1 \in 1..n /\ k = (k - 1) + 1
      BY <1>5, <2>1
    <3> QED
      BY <3>1
  <2> QED
    BY <2>1
<1>12. \A k \in 1..(n + 1) : d[k] = later[t[k]]
  BY <1>6, <1>7, <1>9, <1>10, <1>11
<1>13. d = [k \in 1..(n + 1) |-> d[k]]
  BY <1>5, <1>10
<1>14. d = b
  BY <1>8, <1>12, <1>13
<1> QED
  BY <1>14 DEF a, b, d

-----------------------------------------------------------------------------
(* What the tokenizer of json_parser.c takes from a text *)

\* S is a set of all functions on 1..N.
AllFrom1(S, N) == \E V : S = [1..N -> V]

\* The value of g[a] at a place depends on the values of a at greater ones.
FromAbove(g, S, N) ==
    \A a, b \in S : \A k \in 1..N : (\A j \in 1..N : j > k => a[j] = b[j]) => g[a][k] = g[b][k]

(* A function on 1..N whose value at each place depends on those at greater *)
(* ones only can be defined by recursion.                                  *)
LEMMA Downward ==
    ASSUME NEW N \in Nat, NEW S, AllFrom1(S, N), NEW x \in S, NEW g \in [S -> S],
           FromAbove(g, S, N)
    PROVE  \E f \in S : f = g[f]
<1>1. PICK V : S = [1..N -> V]
  BY DEF AllFrom1
<1>2. PICK F \in [Nat -> S] : Iterate(F, g, x)
  BY Iterates
<1>3. \A n \in Nat : F[n] \in S /\ F[n + 1] = g[F[n]]
  BY <1>2 DEF Iterate
<1> DEFINE Bad == {n \in Nat : \E k \in 1..N : k > N - n /\ F[n][k] # F[n + 1][k]}
<1>4. Bad = {}
  <2> SUFFICES ASSUME Bad # {} PROVE FALSE
    OBVIOUS
  <2>1. PICK n \in Bad : \A j \in Bad : n <= j
    <3>1. Bad \subseteq Nat
      OBVIOUS
    <3> HIDE DEF Bad
    <3> QED
      BY <3>1, Least
  <2>2. PICK k \in 1..N : k > N - n /\ F[n][k] # F[n + 1][k]
    BY <2>1
  <2>3. n \in Nat /\ n - 1 \in Nat /\ (n - 1) + 1 = n /\ k \in Nat
    BY <2>1, <2>2
  <2>4. n - 1 \notin Bad
    <3> HIDE DEF Bad
    <3>1. ~(n <= n - 1)
      BY <2>3
    <3> QED
      BY <2>1, <3>1
  <2>5. \A j \in 1..N : j > k => F[n - 1][j] = F[n][j]
    <3> SUFFICES ASSUME NEW j \in 1..N, j > k PROVE F[n - 1][j] = F[n][j]
      OBVIOUS
    <3>1. j > N - (n - 1)
      BY <2>2, <2>3
    <3> QED
      BY <2>3, <2>4, <3>1
  <2>6. F[n - 1] \in S /\ F[n] \in S /\ F[n] = g[F[n - 1]] /\ F[n + 1] = g[F[n]]
    BY <1>3, <2>3
  <2>7. g[F[n - 1]][k] = g[F[n]][k]
    BY <2>5, <2>6 DEF FromAbove
  <2> QED
    BY <2>2, <2>6, <2>7
<1>5. F[N] = F[N + 1]
  <2>1. \A k \in 1..N : F[N][k] = F[N + 1][k]
    <3> SUFFICES ASSUME NEW k \in 1..N PROVE F[N][k] = F[N + 1][k]
      OBVIOUS
    <3>1. N - N = 0 /\ k > 0
      OBVIOUS
    <3>2. N \notin Bad
      <4> HIDE DEF Bad
      <4> QED
        BY <1>4
    <3> QED
      BY <3>1, <3>2
  <2>2. F[N] \in [1..N -> V] /\ F[N + 1] \in [1..N -> V]
    BY <1>1, <1>3
  <2> QED
    BY <2>1, <2>2
<1> QED
  BY <1>3, <1>5

Escaped == {Quote, Backslash, "/", "b", "f", "n", "r", "t"}

\* A turn of the loop of is_string: end of the rest of the string, from e.
StringStep(s, k, e) ==
    IF k >= Len(s) THEN 0
    ELSE IF buf_get_char(s, k) = Quote THEN k + 1
    ELSE IF buf_get_char(s, k) # Backslash THEN e[k + 1]
    ELSE IF buf_get_char(s, k + 1) = "u" THEN e[k + 6]
    ELSE IF buf_get_char(s, k + 1) \in Escaped THEN e[k + 2]
    ELSE 0

StringLoop(s, e) == e = [k \in 1..(Len(s) + 6) |-> StringStep(s, k, e)]

(* StringEnd is that loop.                                                 *)
LEMMA StringEndIs ==
    ASSUME NEW S, NEW s \in Seq(S)
    PROVE  StringEnd(s) = (CHOOSE e : StringLoop(s, e))[1]
<1> DEFINE u(k) == buf_get_char(s, k)
           Old(k, e) == CASE k >= Len(s) -> 0
              [] u(k) = Quote -> k + 1
              [] u(k) = Backslash ->
                    (CASE u(k + 1) = "u" -> e[k + 6]
                       [] u(k + 1) \in Escaped -> e[k + 2]
                       [] OTHER -> 0)
              [] OTHER -> e[k + 1]
<1>1. StringEnd(s) = (CHOOSE e : e = [k \in 1..(Len(s) + 6) |-> Old(k, e)])[1]
  BY DEF StringEnd, Escaped
<1>2. ASSUME NEW k \in Nat, NEW e
      PROVE  Old(k, e) = StringStep(s, k, e)
  <2>1. Quote # Backslash /\ "u" \notin Escaped /\ Nul # Quote /\ Nul # Backslash
    BY DEF Quote, Backslash, Escaped, Nul
  <2>2. k >= Len(s) => u(k) = Nul
    BY DEF buf_get_char
  <2> DEFINE p == k >= Len(s)
  <2> HIDE DEF p, u
  <2>3. CASE p
    <3>1. p /\ u(k) # Quote /\ u(k) # Backslash
      BY <2>1, <2>2, <2>3 DEF p
    <3>2. Old(k, e) = 0
      BY <3>1, Zenon DEF p
    <3> QED
      BY <2>3, <3>2 DEF StringStep, p
  <2>4. CASE ~p /\ u(k) = Quote
    <3>1. u(k) # Backslash
      BY <2>1, <2>4
    <3>2. Old(k, e) = k + 1
      BY <2>4, <3>1, Zenon DEF p
    <3> QED
      BY <2>4, <3>2 DEF StringStep, p, u
  <2>5. CASE ~p /\ u(k) # Quote /\ u(k) # Backslash
    <3>1. Old(k, e) = e[k + 1]
      BY <2>5, Zenon DEF p
    <3> QED
      BY <2>5, <3>1 DEF StringStep, p, u
  <2>6. CASE ~p /\ u(k) # Quote /\ u(k) = Backslash
    <3> DEFINE In1 == CASE u(k + 1) = "u" -> e[k + 6]
                       [] u(k + 1) \in Escaped -> e[k + 2]
                       [] OTHER -> 0
    <3>1. Old(k, e) = In1
      BY <2>6, Zenon DEF p
    <3>2. u(k + 1) = "u" => u(k + 1) \notin Escaped
      BY <2>1
    <3>3. u(k + 1) = "u" => In1 = e[k + 6]
      BY <3>2, Zenon
    <3>4. u(k + 1) \in Escaped => In1 = e[k + 2]
      BY <3>2, Zenon
    <3>5. u(k + 1) # "u" /\ u(k + 1) \notin Escaped => In1 = 0
      BY Zenon
    <3> HIDE DEF In1
    <3>6. Old(k, e) = In1
      BY <3>1
    <3> HIDE DEF Old
    <3> QED
      BY <2>6, <3>2, <3>3, <3>4, <3>5, <3>6 DEF StringStep, p, u
  <2> QED
    BY <2>3, <2>4, <2>5, <2>6
<1>3. ASSUME NEW e
      PROVE  StringLoop(s, e) <=> e = [k \in 1..(Len(s) + 6) |-> Old(k, e)]
  <2> HIDE DEF Old
  <2>1. \A k \in 1..(Len(s) + 6) : Old(k, e) = StringStep(s, k, e)
    <3>1. \A k \in 1..(Len(s) + 6) : k \in Nat
      OBVIOUS
    <3> QED
      BY <1>2, <3>1
  <2>2. [k \in 1..(Len(s) + 6) |-> Old(k, e)] = [k \in 1..(Len(s) + 6) |-> StringStep(s, k, e)]
    BY <2>1
  <2> QED
    BY <2>2 DEF StringLoop
<1> HIDE DEF Old
<1>4. (CHOOSE e : StringLoop(s, e)) = (CHOOSE e : e = [k \in 1..(Len(s) + 6) |-> Old(k, e)])
  BY <1>3
<1> QED
  BY <1>1, <1>4

(* There is such a loop.                                                   *)
LEMMA StringLoopExists ==
    ASSUME NEW S, NEW s \in Seq(S)
    PROVE  \E e \in [1..(Len(s) + 6) -> Nat] : StringLoop(s, e)
<1> DEFINE N == Len(s) + 6
           D == [1..N -> Nat]
           g == [f \in D |-> [k \in 1..N |-> StringStep(s, k, f)]]
<1>1. N \in Nat /\ Len(s) \in Nat
  OBVIOUS
<1>2. \A k \in 1..N : k < Len(s) =>
         k + 1 \in 1..N /\ k + 2 \in 1..N /\ k + 6 \in 1..N /\ k + 1 > k /\ k + 2 > k /\ k + 6 > k
  BY <1>1
<1>3. \A k \in 1..N : k \in Nat /\ k + 1 \in Nat /\ (~(k >= Len(s)) => k < Len(s))
  BY <1>1
<1> HIDE DEF N
<1>4. \A f \in D, k \in 1..N : StringStep(s, k, f) \in Nat
  <2> SUFFICES ASSUME NEW f \in D, NEW k \in 1..N PROVE StringStep(s, k, f) \in Nat
    OBVIOUS
  <2>1. \A j \in 1..N : f[j] \in Nat
    OBVIOUS
  <2> QED
    BY <1>2, <1>3, <2>1 DEF StringStep
<1>5. g \in [D -> D]
  <2>1. \A f \in D : [k \in 1..N |-> StringStep(s, k, f)] \in D
    BY <1>4
  <2> HIDE DEF D
  <2> QED
    BY <2>1
<1>6. FromAbove(g, D, N)
  <2> SUFFICES ASSUME NEW a \in D, NEW b \in D, NEW k \in 1..N,
                      \A j \in 1..N : j > k => a[j] = b[j]
               PROVE  StringStep(s, k, a) = StringStep(s, k, b)
    BY <1>5 DEF FromAbove
  <2> HIDE DEF D
  <2>1. k < Len(s) => a[k + 1] = b[k + 1] /\ a[k + 2] = b[k + 2] /\ a[k + 6] = b[k + 6]
    BY <1>2
  <2> QED
    BY <1>3, <2>1 DEF StringStep
<1>7. \E f \in D : f = g[f]
  <2> HIDE DEF g
  <2>1. N \in Nat /\ 0 \in Nat
    BY <1>1 DEF N
  <2>2. AllFrom1(D, N)
    BY DEF AllFrom1
  <2>3. [k \in 1..N |-> 0] \in D
    OBVIOUS
  <2> HIDE DEF D
  <2> QED
    BY <1>5, <1>6, <2>1, <2>2, <2>3, Downward
<1>8. PICK f \in D : f = g[f]
  BY <1>7
<1>9. f = [k \in 1..N |-> StringStep(s, k, f)]
  BY <1>8
<1>10. StringLoop(s, f)
  BY <1>9 DEF StringLoop, N
<1> QED
  BY <1>10 DEF N

(* A string that ends, ends with a quote.                                  *)
LEMMA StringEnds ==
    ASSUME NEW S, NEW s \in Seq(S)
    PROVE  /\ StringEnd(s) \in Nat
           /\ StringEnd(s) > 0 => StringEnd(s) \in 2..Len(s) /\ s[StringEnd(s)] = Quote
<1> DEFINE N == Len(s) + 6
           e == CHOOSE f : StringLoop(s, f)
           Right(k) == e[k] \in Nat /\ (e[k] > 0 => e[k] \in 2..Len(s) /\ s[e[k]] = Quote)
           Bad == {d \in Nat : \E k \in 1..N : d = N - k /\ ~Right(k)}
<1>1. StringLoop(s, e)
  BY StringLoopExists
<1>2. StringEnd(s) = e[1]
  BY StringEndIs
<1> HIDE DEF e
<1>3. N \in Nat /\ Len(s) \in Nat /\ 1 \in 1..N
  OBVIOUS
<1>4. \A k \in 1..N : e[k] = StringStep(s, k, e)
  BY <1>1 DEF StringLoop
<1>5. Bad = {}
  <2> SUFFICES ASSUME Bad # {} PROVE FALSE
    OBVIOUS
  <2>1. PICK d \in Bad : \A j \in Bad : d <= j
    <3>1. Bad \subseteq Nat
      OBVIOUS
    <3> HIDE DEF Bad
    <3> QED
      BY <3>1, Least
  <2>2. PICK k \in 1..N : d = N - k /\ ~Right(k)
    BY <2>1
  <2>3. \A j \in 1..N : j > k => Right(j)
    <3> SUFFICES ASSUME NEW j \in 1..N, j > k PROVE Right(j)
      OBVIOUS
    <3>1. N - j \in Nat /\ N - j < d
      BY <1>3, <2>2
    <3>2. N - j \notin Bad
      <4> HIDE DEF Bad
      <4> QED
        BY <2>1, <2>2, <3>1
    <3> HIDE DEF Right
    <3> QED
      BY <3>1, <3>2
  <2>4. k \in Nat /\ e[k] = StringStep(s, k, e) /\ (~(k >= Len(s)) => k < Len(s))
    BY <1>3, <1>4
  <2>5. CASE k >= Len(s)
    BY <2>2, <2>4, <2>5 DEF StringStep
  <2>6. CASE k < Len(s)
    <3>1. /\ k + 1 \in 1..N /\ k + 2 \in 1..N /\ k + 6 \in 1..N
          /\ k + 1 > k /\ k + 2 > k /\ k + 6 > k
      BY <1>3, <2>6
    <3>2. Right(k + 1) /\ Right(k + 2) /\ Right(k + 6)
      <4> HIDE DEF Right
      <4> QED
        BY <2>3, <3>1
    <3>3. \/ e[k] = 0 \/ e[k] = e[k + 1] \/ e[k] = e[k + 2] \/ e[k] = e[k + 6]
          \/ e[k] = k + 1 /\ buf_get_char(s, k) = Quote
      BY <2>4 DEF StringStep
    <3>4. buf_get_char(s, k) = s[k + 1] /\ k + 1 \in 2..Len(s)
      BY <1>3, <2>4, <2>6 DEF buf_get_char
    <3>5. CASE e[k] = 0
      BY <2>2, <3>5
    <3>6. CASE e[k] = k + 1 /\ buf_get_char(s, k) = Quote
      BY <2>2, <2>4, <3>4, <3>6
    <3> QED
      BY <2>2, <3>2, <3>3, <3>5, <3>6
  <2> QED
    BY <2>4, <2>5, <2>6
<1>6. Right(1)
  <2>1. N - 1 \in Nat
    BY <1>3
  <2>2. N - 1 \notin Bad
    <3> HIDE DEF Bad
    <3> QED
      BY <1>5
  <2> HIDE DEF Right
  <2> QED
    BY <1>3, <2>1, <2>2
<1> QED
  BY <1>2, <1>6

\* A string of a JSON text, with its quotes.
Literal(S, s) == s \in Seq(S) /\ s # <<>> /\ s[Len(s)] = Quote

(* How far a run of characters goes.                                       *)
LEMMA RunIs ==
    ASSUME NEW S, NEW s \in Seq(S), NEW k \in Nat, NEW chars, Nul \notin chars
    PROVE  /\ RunLength(s, k, chars) \in Nat
           /\ buf_get_char(s, k) \notin chars => RunLength(s, k, chars) = 0
<1> DEFINE T == {n \in 0..Len(s) : buf_get_char(s, k + n) \notin chars}
<1>1. Len(s) \in Nat /\ 0 \in 0..Len(s) /\ Len(s) \in 0..Len(s) /\ k + 0 = k
  OBVIOUS
<1>2. RunLength(s, k, chars) = Min(T)
  BY DEF RunLength
<1>3. buf_get_char(s, k + Len(s)) \notin chars
  <2>1. ~(k + Len(s) < Len(s))
    BY <1>1
  <2> QED
    BY <2>1 DEF buf_get_char
<1>4. Len(s) \in T /\ T \subseteq Nat /\ T # {}
  BY <1>1, <1>3
<1>5. buf_get_char(s, k) \notin chars => 0 \in T
  BY <1>1
<1> HIDE DEF T
<1>6. Min(T) \in T /\ \A n \in T : Min(T) <= n
  BY <1>4, MinIs
<1>7. Min(T) \in Nat
  BY <1>4, <1>6
<1> QED
  BY <1>2, <1>5, <1>6, <1>7

(* The end of a text is neither space nor a digit.                         *)
LEMMA NulNone == Nul \notin isspace /\ Nul \notin isdigit /\ Nul # Quote /\ Nul # "-" /\ Nul # "0"
BY DEF Nul, isspace, isdigit, Quote

(* A number has a length, and does not begin like a string.                *)
LEMMA NumberIs ==
    ASSUME NEW S, NEW s \in Seq(S)
    PROVE  /\ is_number(s) \in Nat
           /\ buf_get_char(s, 0) \in {Nul, Quote} => is_number(s) = 0
<1> DEFINE sign == IF buf_get_char(s, 0) = "-" THEN 1 ELSE 0
           int  == IF buf_get_char(s, sign) = "0" THEN 1 ELSE RunLength(s, sign, isdigit)
           dot  == sign + int
           frac == IF buf_get_char(s, dot) = "." THEN 1 + RunLength(s, dot + 1, isdigit) ELSE 0
           e    == dot + frac
           plus == IF buf_get_char(s, e + 1) \in {"+", "-"} THEN 2 ELSE 1
           exp  == IF tolower(buf_get_char(s, e)) = "e"
                   THEN plus + RunLength(s, e + plus, isdigit) ELSE 0
<1>1. is_number(s) = IF int = 0 \/ frac = 1 \/ exp = plus THEN 0 ELSE e + exp
  BY DEF is_number
<1>2. sign \in Nat
  OBVIOUS
<1>25. buf_get_char(s, 0) \in {Nul, Quote} => sign = 0
  BY NulNone DEF Quote
<1> HIDE DEF sign
<1>3. int \in Nat
  BY <1>2, RunIs, NulNone
<1>35. buf_get_char(s, 0) \in {Nul, Quote} => int = 0
  <2> SUFFICES ASSUME buf_get_char(s, 0) \in {Nul, Quote} PROVE int = 0
    OBVIOUS
  <2>1. buf_get_char(s, 0) \notin isdigit /\ buf_get_char(s, 0) # "0"
    BY NulNone DEF isdigit, Quote
  <2>2. RunLength(s, 0, isdigit) = 0
    BY <2>1, RunIs, NulNone
  <2> QED
    BY <1>25, <2>1, <2>2
<1> HIDE DEF int
<1>4. dot \in Nat
  BY <1>2, <1>3
<1> HIDE DEF dot
<1>5. frac \in Nat
  <2>1. dot + 1 \in Nat
    BY <1>4
  <2>2. RunLength(s, dot + 1, isdigit) \in Nat
    BY <2>1, RunIs, NulNone
  <2> QED
    BY <2>2
<1> HIDE DEF frac
<1>6. e \in Nat
  BY <1>4, <1>5
<1> HIDE DEF e
<1>7. plus \in Nat
  OBVIOUS
<1> HIDE DEF plus
<1>8. exp \in Nat
  <2>1. e + plus \in Nat
    BY <1>6, <1>7
  <2>2. RunLength(s, e + plus, isdigit) \in Nat
    BY <2>1, RunIs, NulNone
  <2> QED
    BY <1>7, <2>2
<1> HIDE DEF exp
<1> QED
  BY <1>1, <1>35, <1>6, <1>8

(* A fixed token has a length, and does not begin like a string.           *)
LEMMA MatchIs ==
    ASSUME NEW S, NEW s \in Seq(S)
    PROVE  /\ MatchLength(s) \in Nat
           /\ MatchLength(s) > 0 => s[1] # Quote
<1>1. CASE \E t \in Fixed : IsPrefix(t, s)
  <2> DEFINE t == CHOOSE x \in Fixed : IsPrefix(x, s)
             n == Len(t)
  <2>1. t \in Fixed /\ IsPrefix(t, s) /\ MatchLength(s) = n
    BY <1>1 DEF MatchLength
  <2> HIDE DEF t
  <2>2. n \in Nat /\ n >= 1 /\ t[1] # Quote
    <3>1. CASE t = <<"t", "r", "u", "e">>
      BY <3>1 DEF Quote
    <3>2. CASE t = <<"f", "a", "l", "s", "e">>
      BY <3>2 DEF Quote
    <3>3. CASE t = <<"n", "u", "l", "l">>
      BY <3>3 DEF Quote
    <3>4. CASE t \in {<<"{">>, <<"}">>, <<",">>, <<":">>, <<"[">>, <<"]">>}
      <4>1. PICK x : x \in {"{", "}", ",", ":", "[", "]"} /\ t = <<x>>
        BY <3>4
      <4>2. x # Quote
        BY <4>1 DEF Quote
      <4>3. Len(t) = 1 /\ t[1] # Quote
        BY <4>1, <4>2, Zenon
      <4> QED
        BY <4>3
    <3> HIDE DEF n
    <3> QED
      BY <2>1, <3>1, <3>2, <3>3, <3>4 DEF Fixed
  <2>3. SubSeq(t, 1, n) = SubSeq(s, 1, n) /\ n <= Len(s)
    BY <2>1 DEF IsPrefix
  <2>4. SubSeq(t, 1, n)[1] = t[1] /\ SubSeq(s, 1, n)[1] = s[1]
    BY <2>2, <2>3
  <2> QED
    BY <2>1, <2>2, <2>3, <2>4
<1>2. CASE ~\E t \in Fixed : IsPrefix(t, s)
  BY <1>2 DEF MatchLength
<1> QED
  BY <1>1, <1>2

(* A token of a JSON text and the text behind it.                          *)
LEMMA NextToken ==
    ASSUME NEW S, NEW s \in Seq(S)
    PROVE  LET t == json_next_token(s) IN
           /\ t.f \in Seq(S)
           /\ ~json_next_token_hangs(s) /\ t.buf # <<>> /\ t.buf[1] = Quote => Literal(S, t.buf)
<1> DEFINE a    == AfterSpace(s)
           u    == MatchLength(a)
           v    == is_number(a)
           z    == StringEnd(a)
           q    == buf_get_char(a, 0) = Quote
           n    == CASE u > 0 -> u [] v > 0 -> v [] q -> z [] OTHER -> 0
           t    == json_next_token(s)
<1>1. t = [buf |-> SubSeq(a, 1, n), f |-> Past(a, n)]
  BY DEF json_next_token, Token
<1>2. a \in Seq(S)
  <2>1. RunLength(s, 0, isspace) \in Nat
    BY RunIs, NulNone
  <2> QED
    BY <2>1, PastType DEF AfterSpace
<1>3. /\ u \in Nat /\ v \in Nat /\ z \in Nat
      /\ u > 0 => a[1] # Quote
      /\ buf_get_char(a, 0) \in {Nul, Quote} => v = 0
      /\ z > 0 => z \in 2..Len(a) /\ a[z] = Quote
  <2> HIDE DEF a
  <2>1. u \in Nat /\ (u > 0 => a[1] # Quote)
    BY <1>2, MatchIs
  <2>2. v \in Nat /\ (buf_get_char(a, 0) \in {Nul, Quote} => v = 0)
    BY <1>2, NumberIs
  <2>3. z \in Nat /\ (z > 0 => z \in 2..Len(a) /\ a[z] = Quote)
    BY <1>2, StringEnds
  <2> QED
    BY <2>1, <2>2, <2>3
<1>35. json_next_token_hangs(s) <=> q /\ z = 0
  BY DEF json_next_token_hangs
<1> DEFINE b == t.buf
<1> HIDE DEF a, u, v, z, q, n
<1>37. b = SubSeq(a, 1, n) /\ t.f = Past(a, n)
  <2> HIDE DEF t
  <2> QED
    BY <1>1
<1>4. n \in {u, v, z, 0}
  <2> DEFINE gu == u > 0
             gv == v > 0
             d == CASE gu -> u [] gv -> v [] q -> z [] OTHER -> 0
  <2>1. n = d
    BY DEF n
  <2> HIDE DEF gu, gv
  <2>2. d \in {u, v, z, 0}
    BY ZenonT(60)
  <2> HIDE DEF d
  <2> QED
    BY <2>1, <2>2
<1>5. n \in Nat
  BY <1>3, <1>4
<1>6. t.f \in Seq(S)
  BY <1>2, <1>37, <1>5, PastType
<1> HIDE DEF b
<1>7. ASSUME ~json_next_token_hangs(s), b # <<>>, b[1] = Quote
      PROVE  Literal(S, b)
  <2>1. n >= 1
    <3>1. SubSeq(a, 1, 0) = <<>>
      BY <1>2
    <3> QED
      BY <1>37, <1>5, <1>7, <3>1
  <2>2. b[1] = a[1]
    BY <1>37, <1>5, <2>1
  <2>3. a[1] = Quote
    BY <1>7, <2>2
  <2>4. buf_get_char(a, 0) \in {Nul, Quote}
    BY <1>2, <2>3 DEF buf_get_char
  <2>5. n = z /\ z > 0
    BY <1>3, <1>4, <2>1, <2>3, <2>4
  <2>6. z \in 2..Len(a) /\ a[z] = Quote
    BY <1>3, <2>5
  <2>7. b \in Seq(S) /\ Len(b) = z /\ b[z] = a[z]
    BY <1>2, <1>37, <2>5, <2>6
  <2> QED
    BY <1>7, <2>6, <2>7 DEF Literal
<1> QED
  BY <1>6, <1>7 DEF b

-----------------------------------------------------------------------------
(* What the frames of the parser say of the text *)

KeysIn(kvs) == [k \in DOMAIN kvs |-> kvs[k].key]

\* The keys that an object should have in its list, the last one first.
KeysPut(f) == Reverse(KeysIn(f.kvs))

Literals(S, kvs) == \A k \in DOMAIN kvs : Is("str", kvs[k].value) => Literal(S, kvs[k].value.str)

\* The frame f of an object with the names in its list of keys; waits: the
\* first of them is still without its value.
Says(S, f, names, waits) ==
    /\ "key" \in DOMAIN f
    /\ Literals(S, f.kvs)
    /\ names = IF waits THEN <<f.key>> \o KeysPut(f) ELSE KeysPut(f)

(* A member more is a key before the others.                               *)
LEMMA KeysAppend ==
    ASSUME NEW X, NEW kvs \in Seq(X), NEW x
    PROVE  Reverse(KeysIn(Append(kvs, x))) = <<x.key>> \o Reverse(KeysIn(kvs))
<1> DEFINE n == Len(kvs)
           V == X \cup {x}
           w == Append(kvs, x)
           a == KeysIn(kvs)
           b == KeysIn(w)
           p == Reverse(a)
           q == Reverse(b)
           K == {y.key : y \in V}
           d == <<x.key>> \o p
<1>1. kvs \in Seq(V) /\ x \in V /\ n \in Nat
  BY SeqWider
<1>15. x.key \in K
  BY <1>1
<1> HIDE DEF V
<1>2. w \in Seq(V) /\ Len(w) = n + 1 /\ w[n + 1] = x /\ \A k \in 1..n : w[k] = kvs[k]
  BY <1>1
<1>25. DOMAIN kvs = 1..n /\ DOMAIN w = 1..(n + 1)
  BY <1>1, <1>2
<1> HIDE DEF n, w
<1>3. a = [k \in 1..n |-> kvs[k].key] /\ b = [k \in 1..(n + 1) |-> w[k].key]
  BY <1>25 DEF KeysIn
<1>4. \A k \in 1..n : kvs[k] \in V
  BY <1>1, <1>25
<1>5. a \in Seq(K) /\ Len(a) = n /\ Len(b) = n + 1
  <2>1. \A k \in 1..n : kvs[k].key \in K
    BY <1>4
  <2> HIDE DEF K, a, b
  <2> QED
    BY <1>1, <1>3, <2>1
<1>6. p = [k \in 1..n |-> a[(n - k) + 1]] /\ q = [k \in 1..(n + 1) |-> b[((n + 1) - k) + 1]]
  <2> HIDE DEF a, b
  <2> QED
    BY <1>5 DEF Reverse
<1>7. \A k \in 1..n : a[k] = kvs[k].key /\ b[k] = kvs[k].key
  <2>1. \A k \in 1..n : k \in 1..(n + 1) /\ w[k] = kvs[k]
    BY <1>1, <1>2 DEF n
  <2> HIDE DEF a, b
  <2> QED
    BY <1>3, <2>1
<1>8. b[n + 1] = x.key
  <2>1. n + 1 \in 1..(n + 1) /\ w[n + 1] = x
    BY <1>1, <1>2
  <2> HIDE DEF a, b
  <2> QED
    BY <1>3, <2>1
<1> HIDE DEF a, b
<1>9. p \in Seq(K) /\ Len(p) = n /\ \A k \in 1..n : p[k] = a[(n - k) + 1]
  <2>1. \A k \in 1..n : a[(n - k) + 1] \in K
    <3> TAKE k \in 1..n
    <3>1. (n - k) + 1 \in 1..n
      BY <1>1
    <3> HIDE DEF K
    <3> QED
      BY <1>5, <3>1
  <2> HIDE DEF K, p
  <2> QED
    BY <1>1, <1>6, <2>1
<1> HIDE DEF K, p
<1>10. d \in Seq(K) /\ Len(d) = n + 1 /\ d[1] = x.key /\ \A k \in 1..n : d[k + 1] = p[k]
  BY <1>1, <1>15, <1>9
<1> HIDE DEF d
<1>11. \A k \in 1..(n + 1) : k = 1 \/ \E j \in 1..n : k = j + 1
  <2> TAKE k \in 1..(n + 1)
  <2>1. CASE k # 1
    <3>1. k - 1 \in 1..n /\ k = (k - 1) + 1
      BY <1>1, <2>1
    <3> QED
      BY <3>1
  <2> QED
    BY <2>1
<1>12. \A k \in 1..(n + 1) : d[k] = b[((n + 1) - k) + 1]
  <2> SUFFICES ASSUME NEW k \in 1..(n + 1) PROVE d[k] = b[((n + 1) - k) + 1]
    OBVIOUS
  <2>1. CASE k = 1
    <3>1. ((n + 1) - k) + 1 = n + 1
      BY <1>1, <2>1
    <3> QED
      BY <1>8, <1>10, <2>1, <3>1
  <2>2. ASSUME NEW j \in 1..n, k = j + 1 PROVE d[k] = b[((n + 1) - k) + 1]
    <3>1. ((n + 1) - k) + 1 = (n - j) + 1 /\ (n - j) + 1 \in 1..n
      BY <1>1, <2>2
    <3>2. d[k] = a[(n - j) + 1]
      BY <1>9, <1>10, <2>2
    <3> QED
      BY <1>7, <3>1, <3>2
  <2> QED
    BY <1>11, <2>1, <2>2
<1>13. d = [k \in 1..(n + 1) |-> d[k]]
  BY <1>1, <1>10
<1>14. d = q
  <2> HIDE DEF q
  <2> QED
    BY <1>6, <1>12, <1>13
<1> QED
  BY <1>14 DEF d, q, p, b, a, w

(* The frame of an object that gets the value it waited for.               *)
LEMMA SaysGot ==
    ASSUME NEW S, NEW X, NEW f, Is("kvs", f), f.kvs \in Seq(X), NEW names, Says(S, f, names, TRUE),
           NEW e, Is("str", e) => Literal(S, e.str)
    PROVE  Says(S, Got(f, e), names, FALSE)
<1> DEFINE x == [key |-> f.key, value |-> e]
           g == Got(f, e)
           kvs == f.kvs
           w == Append(kvs, x)
<1>1. g = [f EXCEPT !.kvs = w]
  BY DEF Got, Is
<1>2. "kvs" \in DOMAIN f /\ "key" \in DOMAIN f /\ "key" # "kvs"
  BY DEF Is, Says
<1>3. x.key = f.key /\ x.value = e
  OBVIOUS
<1> HIDE DEF x, g, kvs
<1>4. DOMAIN g = DOMAIN f /\ g.kvs = w /\ g.key = f.key
  <2> HIDE DEF w
  <2> QED
    BY <1>1, <1>2
<1>5. KeysPut(g) = <<f.key>> \o KeysPut(f)
  BY <1>3, <1>4, KeysAppend DEF KeysPut, kvs
<1>6. Literals(S, w)
  <2> DEFINE n == Len(kvs)
             V == X \cup {x}
  <2>1. kvs \in Seq(V) /\ x \in V
    BY SeqWider DEF kvs
  <2> HIDE DEF V
  <2>2. n \in Nat /\ DOMAIN kvs = 1..n /\ DOMAIN w = 1..(n + 1) /\ w[n + 1] = x /\ \A k \in 1..n : w[k] = kvs[k]
    BY <2>1
  <2> HIDE DEF n, w
  <2>3. \A k \in 1..(n + 1) : k = n + 1 \/ k \in 1..n
    BY <2>2
  <2>4. Literals(S, kvs)
    BY DEF Says, kvs
  <2>5. \A k \in 1..n : Is("str", w[k].value) => Literal(S, w[k].value.str)
    BY <2>2, <2>4 DEF Literals
  <2>6. Is("str", w[n + 1].value) => Literal(S, w[n + 1].value.str)
    BY <1>3, <2>2
  <2> QED
    BY <2>2, <2>3, <2>5, <2>6 DEF Literals
<1> QED
  BY <1>2, <1>4, <1>5, <1>6 DEF Says, g

(* A new frame of an object.                                               *)
LEMMA SaysNothing ==
    ASSUME NEW S
    PROVE  Says(S, [kvs |-> <<>>, key |-> <<>>], <<>>, FALSE)
<1> DEFINE f == [kvs |-> <<>>, key |-> <<>>]
<1>1. f.kvs = <<>> /\ "key" \in DOMAIN f /\ DOMAIN <<>> = {}
  OBVIOUS
<1> HIDE DEF f
<1>2. KeysIn(<<>>) = <<>>
  BY <1>1 DEF KeysIn
<1>3. Reverse(<<>>) = <<>>
  BY DEF Reverse
<1>4. KeysPut(f) = <<>>
  BY <1>1, <1>2, <1>3 DEF KeysPut
<1>5. Literals(S, <<>>)
  BY <1>1 DEF Literals
<1> QED
  BY <1>1, <1>4, <1>5 DEF Says, f

(* A frame of an object with another key.                                  *)
LEMMA SaysKey ==
    ASSUME NEW S, NEW f, Is("kvs", f), NEW names, Says(S, f, names, FALSE), NEW x
    PROVE  Says(S, [f EXCEPT !.key = x], <<x>> \o names, TRUE)
<1> DEFINE g == [f EXCEPT !.key = x]
<1>1. "kvs" \in DOMAIN f /\ "key" \in DOMAIN f /\ "key" # "kvs"
  BY DEF Is, Says
<1>2. DOMAIN g = DOMAIN f /\ g.kvs = f.kvs /\ g.key = x
  BY <1>1
<1> HIDE DEF g
<1>3. KeysPut(g) = KeysPut(f)
  BY <1>2 DEF KeysPut
<1> QED
  BY <1>1, <1>2, <1>3 DEF Says, g

(* The open calls that a value is returned to.                             *)
LEMMA SaysReturned ==
    ASSUME NEW U, Sane(U), NEW open \in Seq(U), \A k \in DOMAIN open : Frame(open[k]), NEW S, NEW names,
           \A k \in DOMAIN open : Is("kvs", open[k]) => Says(S, open[k], names[k], TRUE),
           NEW e, Is("str", e) => Literal(S, e.str), NEW open2, NEW r2, Returned(open, e, open2, r2)
    PROVE  \A k \in DOMAIN open2 : Is("kvs", open2[k]) => Says(S, open2[k], names[k], k < Len(open2))
<1>1. CASE open = <<>>
  BY <1>1 DEF Returned
<1>2. CASE open # <<>>
  <2> DEFINE F == Front(open)
             top == Last(open)
             g == Got(top, e)
             n == Len(F)
             V == U \cup {g}
  <2>1. /\ F \in Seq(U) /\ top \in U /\ open = Append(F, top) /\ Len(open) = n + 1
    BY <1>2, FrontLast
  <2>2. open2 = Append(F, g)
    BY <1>2 DEF Returned
  <2>3. DOMAIN g = DOMAIN top
    BY DEF Got
  <2>4. Is("kvs", g) <=> Is("kvs", top)
    BY <2>3 DEF Is
  <2> HIDE DEF F, top, g
  <2>5. F \in Seq(V) /\ g \in V
    BY <2>1, SeqWider
  <2>6. n \in Nat /\ DOMAIN open = 1..(n + 1) /\ open[n + 1] = top /\ \A k \in 1..n : open[k] = F[k]
    BY <2>1
  <2> HIDE DEF V
  <2>7. DOMAIN open2 = 1..(n + 1) /\ open2[n + 1] = g /\ \A k \in 1..n : open2[k] = F[k]
    BY <2>2, <2>5
  <2>8. Len(open2) = n + 1
    BY <2>2, <2>5
  <2>9. \A k \in 1..(n + 1) : k = n + 1 \/ (k \in 1..n /\ k < n + 1)
    BY <2>6
  <2>10. n + 1 \in 1..(n + 1) /\ ~(n + 1 < n + 1) /\ \A k \in 1..n : k \in 1..(n + 1)
    BY <2>6
  <2> HIDE DEF n
  <2>11. ASSUME Is("kvs", g) PROVE Says(S, g, names[n + 1], FALSE)
    <3>1. Is("kvs", top) /\ Says(S, top, names[n + 1], TRUE)
      BY <2>4, <2>6, <2>10, <2>11
    <3>2. top.kvs \in Seq(Valued(U))
      BY <2>1, <3>1 DEF Sane, Fits
    <3> QED
      BY <3>1, <3>2, SaysGot DEF g
  <2>12. ASSUME NEW k \in 1..n, Is("kvs", open2[k]) PROVE Says(S, open2[k], names[k], TRUE)
    BY <2>6, <2>7, <2>10, <2>12
  <2> SUFFICES ASSUME NEW k \in DOMAIN open2, Is("kvs", open2[k])
               PROVE  Says(S, open2[k], names[k], k < Len(open2))
    OBVIOUS
  <2>13. CASE k = n + 1
    <3>1. (k < Len(open2)) = FALSE
      BY <2>8, <2>10, <2>13
    <3> QED
      BY <2>7, <2>11, <2>13, <3>1
  <2>14. CASE k \in 1..n /\ k < n + 1
    <3>1. (k < Len(open2)) = TRUE
      BY <2>8, <2>14
    <3> QED
      BY <2>12, <2>14, <3>1
  <2> QED
    BY <2>7, <2>9, <2>13, <2>14
<1> QED
  BY <1>1, <1>2

-----------------------------------------------------------------------------
(* What the parser keeps of the text *)

\* The object at depth k has a key that waits for its value.
Pending(k) == k < Depth \/ place \in {"colon", "value"}

TextInv(S) ==
    /\ text \in Seq(S)
    /\ place \in Reading =>
          \A k \in DOMAIN stack : Is("kvs", stack[k]) =>
             Says(S, stack[k], NamesOf(m, data, m[KeysOf(k)]), Pending(k))
    /\ place = "done" /\ Is("kvs", ret) =>
          Literals(S, ret.kvs) /\ NamesOf(m, data, ret.keys) = KeysPut(ret)

(* A frame says the same with other variables that are equal.              *)
LEMMA TextReturned ==
    ASSUME NEW S, NEW U, Sane(U), NEW open \in Seq(U), \A k \in DOMAIN open : Frame(open[k]),
           \A k \in DOMAIN open : Is("kvs", open[k]) =>
               Says(S, open[k], NamesOf(m, data, m[KeysOf(k)]), TRUE),
           \A k \in DOMAIN open : Is("kvs", open[k]) =>
               NamesOf(m', data', m'[KeysOf(k)]) = NamesOf(m, data, m[KeysOf(k)]),
           NEW e, Is("str", e) => Literal(S, e.str), ret = NoEntity, Return(open, e), text' \in Seq(S),
           Is("kvs", e) => Literals(S, e.kvs) /\ NamesOf(m', data', e.keys) = KeysPut(e)
    PROVE  TextInv(S)'
<1> DEFINE names == [k \in DOMAIN open |-> NamesOf(m, data, m[KeysOf(k)])]
           later == [k \in DOMAIN open |-> NamesOf(m', data', m'[KeysOf(k)])]
           new == stack'
           r == ret'
           pl == place'
           dep == Depth'
<1>1. Returned(open, e, new, r) /\ pl \in {"done", "next"} /\ (pl = "done" => new = <<>>)
  BY ReturnIs
<1>2. \A k \in DOMAIN open : Is("kvs", open[k]) => Says(S, open[k], names[k], TRUE) /\ later[k] = names[k]
  OBVIOUS
<1>3. dep = Len(new)
  BY DEF Depth
<1>4. pl = "done" => open = <<>> /\ r = e
  BY DEF Return
<1> HIDE DEF names, new, r
<1>5. DOMAIN new = DOMAIN open /\ \A k \in DOMAIN open : Is("kvs", new[k]) <=> Is("kvs", open[k])
  BY <1>1, FramesSame
<1>6. \A k \in DOMAIN new : Is("kvs", new[k]) => Says(S, new[k], names[k], k < Len(new))
  BY <1>1, <1>2, SaysReturned
<1>65. \A k \in DOMAIN new : Is("kvs", new[k]) => Says(S, new[k], later[k], k < dep)
  <2> HIDE DEF later, dep
  <2> QED
    BY <1>2, <1>3, <1>5, <1>6
<1>7. ASSUME pl \in Reading, NEW k \in DOMAIN new, Is("kvs", new[k])
      PROVE  Says(S, new[k], NamesOf(m', data', m'[KeysOf(k)]), k < dep \/ pl \in {"colon", "value"})
  <2>1. pl = "next"
    BY <1>1, <1>7 DEF Reading
  <2>2. (k < dep \/ pl \in {"colon", "value"}) = (k < dep)
    BY <2>1
  <2>3. later[k] = NamesOf(m', data', m'[KeysOf(k)])
    BY <1>5, <1>7
  <2> HIDE DEF later, dep, pl
  <2> QED
    BY <1>65, <1>7, <2>2, <2>3
<1>8. pl = "done" /\ Is("kvs", r) => Literals(S, r.kvs) /\ NamesOf(m', data', r.keys) = KeysPut(r)
  BY <1>4
<1>9. KeysPut(ret)' = KeysPut(r)
  BY DEF KeysPut, KeysIn, r
<1> QED
  BY <1>7, <1>8, <1>9 DEF TextInv, Pending, NamesOf, new, r

(* The lists of the open calls and of ret are chains.                      *)
LEMMA LeakLists ==
    ASSUME LeakInv
    PROVE  /\ \A k \in DOMAIN stack : Is("kvs", stack[k]) => \E s : Chain(m, m[KeysOf(k)], s)
           /\ Is("kvs", ret) => \E s : Chain(m, ret.keys, s)
<1>1. PICK U : Accounted(U)
  BY DEF LeakInv
<1> DEFINE n == made + 1
<1>2. n \in Nat /\ Shape(U, stack, held, ret, m) /\ Bounds(stack, held, ret, n)
      /\ Owned(U, Roots(stack, held, ret, m), m, made - freed + Depth)
  BY <1>1 DEF LeakInv, Accounted
<1> HIDE DEF n
<1> QED
  BY <1>2, ListsEnd

(* LeakLists, of the next state.                                           *)
LEMMA LeakListsLater ==
    ASSUME LeakInv'
    PROVE  \A k \in DOMAIN stack' : Is("kvs", stack'[k]) => \E s : Chain(m', m'[KeysOf(k)], s)
<1> DEFINE n == made' + 1
           new == stack'
           mem == m'
           r == ret'
           h == held'
           num == made' - freed' + Depth'
<1>1. \E U : Accounted(U)'
  BY DEF LeakInv
<1>2. PICK U : Accounted(U)'
  BY <1>1
<1>24. made' \in Nat
  BY DEF LeakInv
<1>25. n \in Nat
  <2> DEFINE x == made'
  <2>1. x \in Nat /\ n = x + 1
    BY <1>24
  <2> HIDE DEF x, n
  <2> QED
    BY <2>1
<1>27. Shape(U, new, h, r, mem) /\ Bounds(new, h, r, n)
       /\ Owned(U, Roots(new, h, r, mem), mem, num)
  BY <1>2 DEF Accounted
<1>3. n \in Nat /\ Shape(U, new, h, r, mem) /\ Bounds(new, h, r, n)
      /\ Owned(U, Roots(new, h, r, mem), mem, num)
  BY <1>25, <1>27
<1> HIDE DEF n, new, mem, r, h, num
<1>4. \A k \in DOMAIN new : Is("kvs", new[k]) => \E s : Chain(mem, mem[KeysOf(k)], s)
  BY <1>3, ListsEnd
<1> QED
  BY <1>4 DEF new, mem

(* Where the memory only grows, the lists have the names that they had.    *)
LEMMA NamesUp ==
    ASSUME LeakInv, Memory(m'),
           \A x \in Cells(m) : x \in DOMAIN m' /\ m'[x] = m[x] /\ data'[x] = data[x]
    PROVE  /\ \A k \in DOMAIN stack : Is("kvs", stack[k]) =>
                  NamesOf(m', data', m[KeysOf(k)]) = NamesOf(m, data, m[KeysOf(k)])
           /\ Is("kvs", ret) => NamesOf(m', data', ret.keys) = NamesOf(m, data, ret.keys)
<1> DEFINE mem == m'
           dat == data'
<1>1. Memory(m) /\ Memory(mem)
  BY DEF LeakInv, Stored
<1>2. \A x \in Cells(m) : x \in DOMAIN mem /\ mem[x] = m[x] /\ dat[x] = data[x]
  OBVIOUS
<1> HIDE DEF mem, dat
<1>3. ASSUME NEW l, \E s : Chain(m, l, s) PROVE NamesOf(mem, dat, l) = NamesOf(m, data, l)
  <2>1. PICK s : Chain(m, l, s)
    BY <1>3
  <2> QED
    BY <1>1, <1>2, <2>1, NamesKept
<1> QED
  BY <1>3, LeakLists DEF mem, dat

(* Where nothing but freed nodes is lost, they have them, too.             *)
LEMMA NamesDown ==
    ASSUME LeakInv', Memory(m), Memory(m'),
           \A x \in Cells(m') : x \in DOMAIN m /\ m[x] = m'[x] /\ data[x] = data'[x]
    PROVE  \A k \in DOMAIN stack' : Is("kvs", stack'[k]) =>
               NamesOf(m', data', m'[KeysOf(k)]) = NamesOf(m, data, m'[KeysOf(k)])
<1> DEFINE mem == m'
           dat == data'
           new == stack'
<1>1. Memory(m) /\ Memory(mem)
  OBVIOUS
<1>2. \A x \in Cells(mem) : x \in DOMAIN m /\ m[x] = mem[x] /\ data[x] = dat[x]
  OBVIOUS
<1>4. \A k \in DOMAIN new : Is("kvs", new[k]) => \E s : Chain(mem, mem[KeysOf(k)], s)
  BY LeakListsLater
<1> HIDE DEF mem, dat, new
<1>3. ASSUME NEW l, \E s : Chain(mem, l, s) PROVE NamesOf(mem, dat, l) = NamesOf(m, data, l)
  <2>1. PICK s : Chain(mem, l, s)
    BY <1>3
  <2> QED
    BY <1>1, <1>2, <2>1, NamesKept
<1>5. \A k \in DOMAIN new : Is("kvs", new[k]) => NamesOf(mem, dat, mem[KeysOf(k)]) = NamesOf(m, data, mem[KeysOf(k)])
  BY <1>3, <1>4
<1> QED
  BY <1>5 DEF mem, dat, new

(* A string that the parser makes has been checked by the tokenizer.       *)
LEMMA ScalarLiteral ==
    ASSUME NEW S, text \in Seq(S), ~json_next_token_hangs(text), token # <<>>
    PROVE  /\ json_next_token(text).f \in Seq(S)
           /\ Is("str", Scalar) => Literal(S, Scalar.str)
<1> DEFINE t == json_next_token(text)
           q == token[1] = Quote
           gn == IsNumber
           g1 == token = <<"t", "r", "u", "e">>
           g2 == token = <<"f", "a", "l", "s", "e">>
           g3 == token = <<"n", "u", "l", "l">>
           en == json_new_num(atof[token])
           e1 == json_new_bool(TRUE)
           e2 == json_new_bool(FALSE)
           e3 == json_null_ent
           e4 == json_new_str(token)
           e5 == NoEntity
           d == CASE gn -> en [] g1 -> e1 [] g2 -> e2 [] g3 -> e3 [] q -> e4 [] OTHER -> e5
<1>1. t.f \in Seq(S) /\ (token # <<>> /\ q => Literal(S, token))
  <2>1. /\ t.f \in Seq(S)
        /\ ~json_next_token_hangs(text) /\ t.buf # <<>> /\ t.buf[1] = Quote => Literal(S, t.buf)
    BY NextToken
  <2>2. token = t.buf
    BY DEF token
  <2> HIDE DEF t
  <2> QED
    BY <2>1, <2>2
<1>2. ~Is("str", en) /\ ~Is("str", e1) /\ ~Is("str", e2) /\ ~Is("str", e3) /\ ~Is("str", e5)
      /\ e4.str = token
  BY DEF Is, json_new_num, json_new_bool, json_null_ent, json_new_str, NoEntity
<1>3. Scalar = d
  BY DEF Scalar
<1> HIDE DEF gn, g1, g2, g3, q, en, e1, e2, e3, e4, e5
<1>4. d = e4 => q \/ d \in {en, e1, e2, e3, e5}
  BY ZenonT(60)
<1>5. d \in {en, e1, e2, e3, e4, e5}
  BY ZenonT(60)
<1> HIDE DEF d
<1>6. Is("str", d) => q /\ d = e4
  BY <1>2, <1>4, <1>5
<1> QED
  BY <1>1, <1>2, <1>3, <1>6 DEF t

(* What a value is returned to waits for it.                               *)
LEMMA ValueSays ==
    ASSUME NEW S, LeakInv, TextInv(S), json_parse_value
    PROVE  TextInv(S)'
<1>1. /\ place = "value" /\ Return(stack, Scalar) /\ m' = m /\ data' = data
      /\ ~json_next_token_hangs(text) /\ token # <<>> /\ text' = json_next_token(text).f
  BY DEF json_parse_value, Take, memory
<1>2. ret = NoEntity
  BY <1>1 DEF LeakInv, Places, Reading
<1>3. PICK U : Sane(U) /\ stack \in Seq(U) /\ \A k \in DOMAIN stack : Frame(stack[k])
  BY DEF LeakInv, Accounted, Shape
<1>4. /\ text' \in Seq(S)
      /\ Is("str", Scalar) => Literal(S, Scalar.str)
  BY <1>1, ScalarLiteral DEF TextInv
<1>5. ~Is("kvs", Scalar)
  BY ScalarIs
<1>6. \A k \in DOMAIN stack : Is("kvs", stack[k]) =>
          Says(S, stack[k], NamesOf(m, data, m[KeysOf(k)]), TRUE)
  <2>1. \A k \in DOMAIN stack : Pending(k) = TRUE
    BY <1>1 DEF Pending
  <2> QED
    BY <1>1, <2>1 DEF TextInv, Reading
<1>7. \A k \in DOMAIN stack : Is("kvs", stack[k]) =>
          NamesOf(m', data', m'[KeysOf(k)]) = NamesOf(m, data, m[KeysOf(k)])
  BY <1>1
<1>8. \E e : e = Scalar
  OBVIOUS
<1>9. PICK e : e = Scalar
  BY <1>8
<1>10. Return(stack, e) /\ ~Is("kvs", e) /\ (Is("str", e) => Literal(S, e.str))
  BY <1>1, <1>4, <1>5, <1>9
<1> QED
  BY <1>2, <1>3, <1>4, <1>6, <1>7, <1>10, TextReturned

(* The calls around one that ends.                                         *)
LEMMA Outer ==
    ASSUME NEW S, LeakInv, TextInv(S), place \in Reading, stack # <<>>
    PROVE  /\ ret = NoEntity
           /\ \E U : /\ Sane(U) /\ Front(stack) \in Seq(U) /\ Last(stack) \in U
                     /\ \A k \in DOMAIN Front(stack) : Frame(Front(stack)[k])
           /\ \A k \in DOMAIN Front(stack) : k \in DOMAIN stack /\ Front(stack)[k] = stack[k] /\ k < Depth
           /\ Depth \in DOMAIN stack /\ stack[Depth] = Last(stack)
           /\ \A k \in DOMAIN Front(stack) : Is("kvs", Front(stack)[k]) =>
                  Says(S, Front(stack)[k], NamesOf(m, data, m[KeysOf(k)]), TRUE)
<1> DEFINE F == Front(stack)
<1>1. PICK U : Sane(U) /\ stack \in Seq(U) /\ \A k \in DOMAIN stack : Frame(stack[k])
  BY DEF LeakInv, Accounted, Shape
<1>2. /\ F \in Seq(U) /\ Last(stack) \in U
      /\ Len(stack) = Len(F) + 1 /\ Last(stack) = stack[Len(stack)]
      /\ \A k \in DOMAIN F : k \in DOMAIN stack /\ stack[k] = F[k]
  BY <1>1, FrontLast
<1> HIDE DEF F
<1>3. \A k \in DOMAIN F : k < Len(stack)
  BY <1>2
<1>4. Len(stack) \in DOMAIN stack
  BY <1>1
<1>5. \A k \in DOMAIN F : Frame(F[k])
  BY <1>1, <1>2
<1>6. \A k \in DOMAIN F : Is("kvs", F[k]) => Says(S, F[k], NamesOf(m, data, m[KeysOf(k)]), TRUE)
  <2>1. \A k \in DOMAIN F : Pending(k) = TRUE
    BY <1>3 DEF Pending, Depth
  <2> QED
    BY <1>2, <2>1 DEF TextInv
<1>7. ret = NoEntity
  BY DEF LeakInv, Places
<1> QED
  BY <1>1, <1>2, <1>3, <1>4, <1>5, <1>6, <1>7 DEF F, Depth

(* An object has the keys of its list of keys.                             *)
LEMMA ObjectSays ==
    ASSUME NEW S, LeakInv, TextInv(S), ObjectEnd
    PROVE  TextInv(S)'
<1> DEFINE F == Front(stack)
           top == Last(stack)
           v == KeysOf(Depth)
           e == json_new_obj(top.kvs, m[v])
<1>1. /\ place \in {"key", "next"} /\ In("kvs") /\ m' = Drop(m, {v}) /\ data' = data
      /\ Return(F, json_new_obj(Top.kvs, m[v]))
      /\ ~json_next_token_hangs(text) /\ token # <<>> /\ text' = json_next_token(text).f
  BY DEF ObjectEnd, Take
<1>2. stack # <<>> /\ Top = top /\ Is("kvs", top)
  <2>1. stack # <<>>
    BY <1>1 DEF In, Depth
  <2>2. Top = top
    BY DEF Top, Depth, Last
  <2> QED
    BY <1>1, <2>1, <2>2 DEF In, Is
<1>3. Return(F, e)
  BY <1>1, <1>2
<1>4. place \in Reading
  BY <1>1 DEF Reading
<1>5. /\ ret = NoEntity
      /\ \A k \in DOMAIN F : k \in DOMAIN stack /\ F[k] = stack[k] /\ k < Depth
      /\ Depth \in DOMAIN stack /\ stack[Depth] = top
      /\ \A k \in DOMAIN F : Is("kvs", F[k]) => Says(S, F[k], NamesOf(m, data, m[KeysOf(k)]), TRUE)
  BY <1>2, <1>4, Outer
<1>6. PICK U : Sane(U) /\ F \in Seq(U) /\ \A k \in DOMAIN F : Frame(F[k])
  BY <1>2, <1>4, Outer
<1>7. text' \in Seq(S)
  BY <1>1, ScalarLiteral DEF TextInv
<1>8. Depth \in Nat /\ \A k \in DOMAIN stack : k \in Nat
  <2>1. PICK V : stack \in Seq(V)
    BY DEF LeakInv, Accounted, Shape
  <2> QED
    BY <2>1 DEF Depth
<1>9. v \in Int /\ ~(v > 0) /\ \A k \in Nat : k # Depth => KeysOf(k) # v
  BY <1>8, KeysOfIs
<1>10. \A k \in DOMAIN stack : Is("kvs", stack[k]) => KeysOf(k) \in DOMAIN m
  BY DEF LeakInv, Stored, Variables
<1> HIDE DEF F, top, v
<1>11. DOMAIN m' = DOMAIN m \ {v} /\ \A x \in DOMAIN m' : m'[x] = m[x]
  BY <1>1 DEF Drop
<1>12. /\ Memory(m) /\ Memory(m')
       /\ \A x \in Cells(m) : x \in DOMAIN m' /\ m'[x] = m[x] /\ data'[x] = data[x]
  <2>1. Memory(m)
    BY DEF LeakInv, Stored
  <2>2. DOMAIN m' \in SUBSET DOMAIN m /\ IsFiniteSet(DOMAIN m) /\ DOMAIN m \subseteq Int
    BY <1>11, <2>1 DEF Memory
  <2>3. IsFiniteSet(DOMAIN m')
    BY <2>2, FS_Subset
  <2>4. \A x \in Cells(m) : x \in DOMAIN m'
    BY <1>9, <1>11 DEF Cells
  <2> QED
    BY <1>1, <1>11, <2>1, <2>2, <2>3, <2>4 DEF Memory
<1>13. \A k \in DOMAIN stack : Is("kvs", stack[k]) =>
           NamesOf(m', data', m[KeysOf(k)]) = NamesOf(m, data, m[KeysOf(k)])
  BY <1>12, NamesUp
<1>14. \A k \in DOMAIN F : Is("kvs", F[k]) =>
           NamesOf(m', data', m'[KeysOf(k)]) = NamesOf(m, data, m[KeysOf(k)])
  <2> SUFFICES ASSUME NEW k \in DOMAIN F, Is("kvs", F[k])
               PROVE  NamesOf(m', data', m'[KeysOf(k)]) = NamesOf(m, data, m[KeysOf(k)])
    OBVIOUS
  <2>1. k \in DOMAIN stack /\ Is("kvs", stack[k]) /\ k \in Nat /\ k # Depth
    BY <1>5, <1>8
  <2>2. m'[KeysOf(k)] = m[KeysOf(k)]
    BY <1>9, <1>10, <1>11, <2>1
  <2> QED
    BY <1>13, <2>1, <2>2
<1>15. Says(S, top, NamesOf(m, data, m[v]), FALSE)
  <2>1. Pending(Depth) = FALSE
    BY <1>1, <1>8 DEF Pending
  <2> QED
    BY <1>2, <1>4, <1>5, <2>1 DEF TextInv, v
<1>16. e.kvs = top.kvs /\ e.keys = m[v] /\ ~Is("str", e)
  BY DEF json_new_obj, Is
<1> HIDE DEF e
<1>17. Literals(S, e.kvs) /\ NamesOf(m, data, m[v]) = KeysPut(e)
  BY <1>15, <1>16 DEF Says, KeysPut
<1>18. NamesOf(m', data', e.keys) = KeysPut(e)
  BY <1>2, <1>5, <1>13, <1>16, <1>17 DEF v
<1>19. Is("kvs", e) => Literals(S, e.kvs) /\ NamesOf(m', data', e.keys) = KeysPut(e)
  BY <1>17, <1>18
<1> QED
  BY <1>3, <1>5, <1>6, <1>7, <1>14, <1>16, <1>19, TextReturned

(* An array has no keys.                                                   *)
LEMMA ArraySays ==
    ASSUME NEW S, LeakInv, TextInv(S), ArrayEnd
    PROVE  TextInv(S)'
<1> DEFINE F == Front(stack)
           a == json_new_arr(Top.arr)
<1>1. /\ place = "next" /\ In("arr")
      /\ ~json_next_token_hangs(text) /\ token # <<>> /\ text' = json_next_token(text).f
  BY DEF ArrayEnd, Take
<1>2. stack # <<>> /\ place \in Reading
  BY <1>1 DEF In, Depth, Reading
<1>3. /\ ret = NoEntity
      /\ \A k \in DOMAIN F : k \in DOMAIN stack /\ F[k] = stack[k]
      /\ \A k \in DOMAIN F : Is("kvs", F[k]) => Says(S, F[k], NamesOf(m, data, m[KeysOf(k)]), TRUE)
  BY <1>2, Outer
<1>4. PICK U : Sane(U) /\ F \in Seq(U) /\ \A k \in DOMAIN F : Frame(F[k])
  BY <1>2, Outer
<1>5. text' \in Seq(S)
  BY <1>1, ScalarLiteral DEF TextInv
<1>6. ~Is("kvs", a) /\ ~Is("str", a) /\ ~Is("kvs", NoEntity) /\ ~Is("str", NoEntity)
  BY DEF Is, json_new_arr, NoEntity
<1> HIDE DEF F, a
<1>7. CASE token = <<"]">>
  <2>1. Return(F, a) /\ m' = m /\ data' = data
    BY <1>7 DEF ArrayEnd, memory, F, a
  <2>2. \A k \in DOMAIN F : Is("kvs", F[k]) =>
            NamesOf(m', data', m'[KeysOf(k)]) = NamesOf(m, data, m[KeysOf(k)])
    BY <2>1
  <2> QED
    BY <1>3, <1>4, <1>5, <1>6, <2>1, <2>2, TextReturned
<1>8. CASE token # <<"]">>
  <2>1. Return(F, NoEntity) /\ Free(<<a>>)
    BY <1>8 DEF ArrayEnd, F, a
  <2>2. LeakInv'
    BY <1>8, ArrayLost
  <2>3. Returned(F, NoEntity, stack', ret')
    BY <1>3, <2>1, ReturnIs
  <2>4. DOMAIN stack' = DOMAIN F /\ \A k \in DOMAIN F : Is("kvs", stack'[k]) <=> Is("kvs", F[k])
    BY <1>4, <2>3, FramesSame
  <2>5. Memory(m) /\ Memory(m') /\ Memory(m)'
    <3>1. Memory(m) /\ Memory(m)'
      BY <2>2 DEF LeakInv, Stored
    <3> QED
      BY <3>1 DEF Memory
  <2> DEFINE left == json_entity_free(<<a>>).m
  <2>6. m' = left /\ data' = [x \in DOMAIN data \cap DOMAIN left |-> data[x]]
    BY <2>1 DEF Free
  <2>7. \A x \in DOMAIN m' : x \in DOMAIN m /\ m'[x] = m[x]
    <3>1. \E lists : left = ll_free(m, lists)
      BY DEF json_entity_free
    <3>2. PICK lists : left = ll_free(m, lists)
      BY <3>1
    <3> HIDE DEF left
    <3> QED
      BY <2>6, <3>2 DEF ll_free, Drop
  <2>8. DOMAIN data = Cells(m)
    BY DEF LeakInv, Stored
  <2> HIDE DEF left
  <2>9. \A x \in Cells(m') : x \in DOMAIN m /\ m[x] = m'[x] /\ data[x] = data'[x]
    <3>1. \A x \in Cells(m') : x \in DOMAIN m' /\ x \in DOMAIN data
      BY <2>7, <2>8 DEF Cells
    <3> QED
      BY <2>6, <2>7, <3>1
  <2>10. \A k \in DOMAIN stack' : Is("kvs", stack'[k]) =>
             NamesOf(m', data', m'[KeysOf(k)]) = NamesOf(m, data, m'[KeysOf(k)])
    BY <2>2, <2>5, <2>9, NamesDown
  <2>11. \A k \in DOMAIN F : Is("kvs", F[k]) => m'[KeysOf(k)] = m[KeysOf(k)]
    <3> SUFFICES ASSUME NEW k \in DOMAIN F, Is("kvs", F[k])
                 PROVE  m'[KeysOf(k)] = m[KeysOf(k)]
      OBVIOUS
    <3>1. KeysOf(k) \in Variables'
      BY <2>4 DEF Variables
    <3>2. Stored'
      BY <2>2 DEF LeakInv
    <3>3. KeysOf(k) \in DOMAIN m'
      BY <3>1, <3>2 DEF Stored
    <3> QED
      BY <2>7, <3>3
  <2>12. \A k \in DOMAIN F : Is("kvs", F[k]) =>
             NamesOf(m', data', m'[KeysOf(k)]) = NamesOf(m, data, m[KeysOf(k)])
    BY <2>4, <2>10, <2>11
  <2> QED
    BY <1>3, <1>4, <1>5, <1>6, <2>1, <2>12, TextReturned
<1> QED
  BY <1>7, <1>8

(* A call that begins is put on the calls that wait for its value.         *)
LEMMA BeginSays ==
    ASSUME NEW S, LeakInv, TextInv(S), place = "value",
           ~json_next_token_hangs(text), token # <<>>, text' = json_next_token(text).f,
           NEW f, stack' = Append(stack, f), place' \in {"value", "key"},
           Memory(m'), \A x \in Cells(m) : x \in DOMAIN m' /\ m'[x] = m[x] /\ data'[x] = data[x],
           \A k \in DOMAIN stack : Is("kvs", stack[k]) => m'[KeysOf(k)] = m[KeysOf(k)],
           Is("kvs", f) => place' = "key" /\ Says(S, f, NamesOf(m', data', m'[KeysOf(Depth + 1)]), FALSE)
    PROVE  TextInv(S)'
<1> DEFINE new == stack'
           dep == Depth'
           pl == place'
           N(k) == NamesOf(m', data', m'[KeysOf(k)])
           n == Len(stack)
<1>1. PICK U : stack \in Seq(U)
  BY DEF LeakInv, Accounted, Shape
<1> DEFINE V == U \cup {f}
<1>2. stack \in Seq(V) /\ f \in V
  BY <1>1, SeqWider
<1> HIDE DEF V
<1>3. n \in Nat /\ Depth = n /\ DOMAIN stack = 1..n
  BY <1>2 DEF Depth
<1>4. DOMAIN new = 1..(n + 1) /\ Len(new) = n + 1 /\ new[n + 1] = f /\ \A k \in 1..n : new[k] = stack[k]
  BY <1>2
<1>5. dep = n + 1
  BY <1>4 DEF Depth
<1>6. /\ \A k \in 1..(n + 1) : k = n + 1 \/ (k \in 1..n /\ k < n + 1)
      /\ n + 1 \in 1..(n + 1) /\ ~(n + 1 < n + 1)
  BY <1>3
<1>7. text' \in Seq(S)
  BY ScalarLiteral DEF TextInv
<1>8. ASSUME NEW k \in 1..n, Is("kvs", stack[k])
      PROVE  Says(S, stack[k], N(k), TRUE)
  <2>1. Says(S, stack[k], NamesOf(m, data, m[KeysOf(k)]), Pending(k))
    BY <1>3, <1>8 DEF TextInv, Reading
  <2>2. Pending(k) = TRUE
    BY DEF Pending
  <2>3. NamesOf(m', data', m[KeysOf(k)]) = NamesOf(m, data, m[KeysOf(k)])
    BY <1>3, <1>8, NamesUp
  <2>4. m'[KeysOf(k)] = m[KeysOf(k)]
    BY <1>3, <1>8
  <2> QED
    BY <2>1, <2>2, <2>3, <2>4
<1>85. Is("kvs", f) => pl = "key" /\ Says(S, f, N(n + 1), FALSE)
  BY <1>3
<1>86. pl \in {"value", "key"}
  OBVIOUS
<1> HIDE DEF new, dep, pl, n, N
<1>9. ASSUME NEW k \in DOMAIN new, Is("kvs", new[k])
      PROVE  Says(S, new[k], N(k), k < dep \/ pl \in {"colon", "value"})
  <2>1. CASE k = n + 1
    <3>1. (k < dep \/ pl \in {"colon", "value"}) = FALSE
      BY <1>4, <1>5, <1>6, <1>85, <1>9, <2>1
    <3> QED
      BY <1>4, <1>85, <1>9, <2>1, <3>1
  <2>2. CASE k \in 1..n /\ k < n + 1
    <3>1. (k < dep \/ pl \in {"colon", "value"}) = TRUE
      BY <1>5, <2>2
    <3>2. new[k] = stack[k]
      BY <1>4, <2>2
    <3> QED
      BY <1>8, <1>9, <2>2, <3>1, <3>2
  <2> QED
    BY <1>4, <1>6, <2>1, <2>2
<1>10. pl # "done"
  BY <1>86
<1> QED
  BY <1>7, <1>9, <1>10 DEF TextInv, Pending, NamesOf, N, new, dep, pl

(* An object begins without members and without keys.                      *)
LEMMA ObjectBeginSays ==
    ASSUME NEW S, LeakInv, TextInv(S), ObjectBegin
    PROVE  TextInv(S)'
<1> DEFINE f == [kvs |-> <<>>, key |-> <<>>]
           y == KeysOf(Depth + 1)
<1>1. /\ place = "value" /\ stack' = Append(stack, f) /\ place' = "key" /\ data' = data
      /\ m' = Store(m, y, NULL)
      /\ ~json_next_token_hangs(text) /\ token # <<>> /\ text' = json_next_token(text).f
  BY DEF ObjectBegin, Take
<1>2. Says(S, f, <<>>, FALSE)
  BY SaysNothing
<1>3. PICK U : stack \in Seq(U)
  BY DEF LeakInv, Accounted, Shape
<1>4. Depth \in Nat /\ Depth + 1 \in Nat /\ \A k \in DOMAIN stack : k \in Nat /\ k # Depth + 1
  BY <1>3 DEF Depth
<1>5. y \in Int /\ ~(y > 0) /\ \A k \in DOMAIN stack : KeysOf(k) # y
  BY <1>4, KeysOfIs
<1>6. \A k \in DOMAIN stack : Is("kvs", stack[k]) => KeysOf(k) \in DOMAIN m
  BY DEF LeakInv, Stored, Variables
<1>65. Memory(m)
  BY DEF LeakInv, Stored
<1> HIDE DEF f, y
<1>7. /\ DOMAIN m' = DOMAIN m \cup {y} /\ m'[y] = NULL
      /\ \A x \in DOMAIN m : x # y => m'[x] = m[x]
  BY <1>1 DEF Store
<1>8. Memory(m') /\ \A x \in Cells(m) : x \in DOMAIN m' /\ m'[x] = m[x] /\ data'[x] = data[x]
  <2>1. IsFiniteSet(DOMAIN m')
    BY <1>65, <1>7, FS_AddElement DEF Memory
  <2> QED
    BY <1>1, <1>5, <1>65, <1>7, <2>1 DEF Memory, Cells
<1>9. \A k \in DOMAIN stack : Is("kvs", stack[k]) => m'[KeysOf(k)] = m[KeysOf(k)]
  BY <1>5, <1>6, <1>7
<1>10. NamesOf(m', data', m'[y]) = <<>>
  <2> DEFINE mem == m'
             s == << >>
  <2>1. Chain(mem, NULL, s)
    BY DEF Chain
  <2>2. Memory(mem)
    BY <1>8
  <2> HIDE DEF mem, s
  <2>3. Nodes(mem, NULL) = s
    BY <2>1, <2>2, NodesOfChain DEF Memory
  <2> QED
    BY <1>7, <2>3 DEF NamesOf, mem, s
<1>11. Says(S, f, NamesOf(m', data', m'[KeysOf(Depth + 1)]), FALSE)
  BY <1>2, <1>10 DEF y
<1>12. place' \in {"value", "key"} /\ place' = "key"
  BY <1>1
<1> QED
  BY <1>1, <1>8, <1>9, <1>11, <1>12, BeginSays

(* An array has no keys.                                                   *)
LEMMA ArrayBeginSays ==
    ASSUME NEW S, LeakInv, TextInv(S), ArrayBegin
    PROVE  TextInv(S)'
<1> DEFINE f == [arr |-> <<>>]
<1>1. /\ place = "value" /\ stack' = Append(stack, f) /\ place' = place /\ data' = data /\ m' = m
      /\ ~json_next_token_hangs(text) /\ token # <<>> /\ text' = json_next_token(text).f
  BY DEF ArrayBegin, Take, memory
<1>2. ~Is("kvs", f)
  BY DEF Is
<1> HIDE DEF f
<1>3. Memory(m') /\ \A x \in Cells(m) : x \in DOMAIN m' /\ m'[x] = m[x] /\ data'[x] = data[x]
  BY <1>1 DEF LeakInv, Stored, Memory, Cells
<1>4. \A k \in DOMAIN stack : Is("kvs", stack[k]) => m'[KeysOf(k)] = m[KeysOf(k)]
  BY <1>1
<1>5. place' \in {"value", "key"}
  BY <1>1
<1> QED
  BY <1>1, <1>2, <1>3, <1>4, <1>5, BeginSays

(* A key is put before the others, and waits for its value.                *)
LEMMA KeySays ==
    ASSUME NEW S, LeakInv, TextInv(S), ObjectKey
    PROVE  TextInv(S)'
<1> DEFINE n == Depth
           v == KeysOf(Depth)
           y == NewNode
           new == stack'
           dep == Depth'
           pl == place'
           tok == token
<1>1. /\ place = "key" /\ new = [stack EXCEPT ![n].key = tok] /\ pl = "colon"
      /\ m' = ll_push(Store(m, y, NULL), v, y)
      /\ data' = Store(data, y, tok)
      /\ ~json_next_token_hangs(text) /\ token # <<>> /\ text' = json_next_token(text).f
  BY DEF ObjectKey, Take
<1>2. stack # <<>> /\ Is("kvs", Last(stack)) /\ place \in Reading
  BY <1>1 DEF LeakInv, Places, Reading
<1>3. n \in DOMAIN stack /\ stack[n] = Last(stack)
  BY <1>2, Outer
<1>4. text' \in Seq(S)
  BY <1>1, ScalarLiteral DEF TextInv
<1>5. PICK U : stack \in Seq(U)
  BY DEF LeakInv, Accounted, Shape
<1>6. n \in Nat /\ DOMAIN stack = 1..n /\ \A k \in 1..n : k \in Nat /\ (k = n \/ (k # n /\ k < n))
  BY <1>5 DEF Depth
<1>7. v \in Int /\ ~(v > 0) /\ v # NULL /\ \A k \in 1..n : k # n => KeysOf(k) # v
  BY <1>6, KeysOfIs
<1>8. Memory(m) /\ DOMAIN data = Cells(m) /\ \A k \in 1..n : Is("kvs", stack[k]) => KeysOf(k) \in DOMAIN m
  BY <1>6 DEF LeakInv, Stored, Variables
<1>9. y \in Nat \ {0} /\ y \notin DOMAIN m /\ y > 0 /\ y # v /\ y # NULL
  BY <1>7, <1>8, NewNodeIs DEF NULL
<1>10. Says(S, stack[n], NamesOf(m, data, m[v]), FALSE)
  <2>1. Pending(n) = FALSE
    BY <1>1, <1>6 DEF Pending
  <2> QED
    BY <1>2, <1>3, <2>1 DEF TextInv
<1>11. \A k \in 1..n : k # n /\ Is("kvs", stack[k]) => Says(S, stack[k], NamesOf(m, data, m[KeysOf(k)]), TRUE)
  <2>1. \A k \in 1..n : k # n => Pending(k) = TRUE
    BY <1>6 DEF Pending
  <2> QED
    BY <1>2, <1>6, <2>1 DEF TextInv
<1> DEFINE g == [stack[n] EXCEPT !.key = tok]
<1> HIDE DEF tok
<1>12. /\ DOMAIN new = 1..n /\ dep = n
       /\ new[n] = g /\ \A k \in 1..n : k # n => new[k] = stack[k]
  <2>1. Len(new) = Len(stack)
    BY <1>1, <1>5
  <2>2. dep = n
    BY <2>1 DEF Depth
  <2> HIDE DEF n, new, dep
  <2>3. new = [stack EXCEPT ![n] = g]
    BY <1>1
  <2> HIDE DEF g
  <2> QED
    BY <1>3, <1>6, <2>2, <2>3
<1> HIDE DEF y, n, new, dep, pl, g
<1>13. v \in DOMAIN m
  BY <1>2, <1>3, <1>6, <1>8 DEF n
<1> HIDE DEF v
<1>14. /\ DOMAIN m' = DOMAIN m \cup {y} /\ m'[y] = m[v] /\ m'[v] = y
       /\ \A x \in DOMAIN m : x # v => m'[x] = m[x]
  <2> DEFINE s == Store(m, y, NULL)
  <2>1. /\ DOMAIN s = DOMAIN m \cup {y} /\ s[y] = NULL
        /\ \A x \in DOMAIN m : s[x] = m[x]
    BY <1>9 DEF Store
  <2>2. m' = [s EXCEPT ![y] = s[v], ![v] = y]
    BY <1>1, <1>7, <1>9 DEF ll_push
  <2> HIDE DEF s
  <2> QED
    BY <1>9, <1>13, <2>1, <2>2
<1>15. data'[y] = tok /\ \A x \in Cells(m) : data'[x] = data[x]
  BY <1>1, <1>8, <1>9 DEF Store, Cells
<1>16. Memory(m') /\ y \in Cells(m') /\ y \notin Cells(m) /\ \A x \in Cells(m) : x \in DOMAIN m' /\ m'[x] = m[x]
  <2>1. IsFiniteSet(DOMAIN m')
    BY <1>8, <1>14, FS_AddElement DEF Memory
  <2> QED
    BY <1>7, <1>8, <1>9, <1>14, <2>1 DEF Memory, Cells
<1>17. NamesOf(m', data', m'[v]) = <<tok>> \o NamesOf(m, data, m[v])
  <2>1. PICK s : Chain(m, m[v], s)
    BY <1>2, <1>3, LeakLists DEF v, n
  <2> DEFINE mem == m'
             dat == data'
  <2>2. Memory(m) /\ Memory(mem) /\ y \in Cells(mem) /\ y \notin Cells(m) /\ mem[y] = m[v]
        /\ dat[y] = tok /\ mem[v] = y
    BY <1>8, <1>14, <1>15, <1>16
  <2>3. \A x \in Cells(m) : x \in DOMAIN mem /\ mem[x] = m[x]
    BY <1>16
  <2>4. \A x \in Cells(m) : dat[x] = data[x]
    BY <1>15
  <2> HIDE DEF mem, dat
  <2>5. NamesOf(mem, dat, y) = <<dat[y]>> \o NamesOf(m, data, m[v])
    BY <2>1, <2>2, <2>3, <2>4, NamesPushed
  <2> QED
    BY <2>2, <2>5 DEF mem, dat
<1>18. Is("kvs", g) => Says(S, g, NamesOf(m', data', m'[v]), TRUE)
  BY <1>2, <1>3, <1>10, <1>17, SaysKey DEF g
<1>19. ASSUME NEW k \in 1..n, k # n, Is("kvs", stack[k])
       PROVE  Says(S, stack[k], NamesOf(m', data', m'[KeysOf(k)]), TRUE)
  <2>1. Says(S, stack[k], NamesOf(m, data, m[KeysOf(k)]), TRUE)
    BY <1>11, <1>19
  <2>2. m'[KeysOf(k)] = m[KeysOf(k)]
    BY <1>7, <1>8, <1>14, <1>19
  <2>3. NamesOf(m', data', m[KeysOf(k)]) = NamesOf(m, data, m[KeysOf(k)])
    BY <1>6, <1>15, <1>16, <1>19, NamesUp
  <2> QED
    BY <2>1, <2>2, <2>3
<1>20. ASSUME NEW k \in DOMAIN new, Is("kvs", new[k])
       PROVE  Says(S, new[k], NamesOf(m', data', m'[KeysOf(k)]), k < dep \/ pl \in {"colon", "value"})
  <2>1. (k < dep \/ pl \in {"colon", "value"}) = TRUE
    BY <1>1
  <2>2. CASE k = n
    <3>1. KeysOf(k) = v
      BY <2>2 DEF v, n
    <3> QED
      BY <1>12, <1>18, <1>20, <2>1, <2>2, <3>1
  <2>3. CASE k # n
    BY <1>12, <1>19, <1>20, <2>1, <2>3
  <2> QED
    BY <2>2, <2>3
<1>21. pl # "done"
  BY <1>1
<1> QED
  BY <1>4, <1>20, <1>21 DEF TextInv, Pending, NamesOf, new, dep, pl

(* Where a step changes neither a frame nor a list, the names stay.        *)
LEMMA PlaceSays ==
    ASSUME NEW S, TextInv(S), place \in Reading, place' \in Reading,
           text' \in Seq(S), stack' = stack, m' = m, data' = data,
           \A k \in DOMAIN stack : Is("kvs", stack[k]) => (Pending(k)' <=> Pending(k))
    PROVE  TextInv(S)'
<1>1. "done" \notin Reading
  BY DEF Reading
<1>2. ASSUME NEW k \in DOMAIN stack, Is("kvs", stack[k])
      PROVE  Says(S, stack[k], NamesOf(m, data, m[KeysOf(k)]), Pending(k)')
  <2>1. Says(S, stack[k], NamesOf(m, data, m[KeysOf(k)]), Pending(k))
    BY <1>2 DEF TextInv
  <2>2. Pending(k)' = Pending(k)
    BY <1>2 DEF Pending
  <2> QED
    BY <2>1, <2>2
<1> QED
  BY <1>1, <1>2 DEF TextInv, NamesOf

(* Where no call is open, no frame says anything.                          *)
LEMMA NothingSays ==
    ASSUME NEW S, text' \in Seq(S), place' \in Reading => stack' = <<>>, place' # "done"
    PROVE  TextInv(S)'
<1>1. DOMAIN <<>> = {}
  OBVIOUS
<1> QED
  BY <1>1 DEF TextInv

(* The colon and the comma change no key.                                  *)
LEMMA ColonSays ==
    ASSUME NEW S, LeakInv, TextInv(S), ObjectColon \/ ObjectNext \/ ArrayNext \/ NoToken
    PROVE  TextInv(S)'
<1>1. stack' = stack /\ m' = m /\ data' = data /\ place \in Reading
  BY DEF ObjectColon, ObjectNext, ArrayNext, NoToken, Take, Goto, memory, Reading
<1>2. text' \in Seq(S)
  <2>1. text' = text \/ (~json_next_token_hangs(text) /\ token # <<>> /\ text' = json_next_token(text).f)
    BY DEF ObjectColon, ObjectNext, ArrayNext, NoToken, Take
  <2> QED
    BY <2>1, ScalarLiteral DEF TextInv
<1>3. place' # "done"
  BY DEF ObjectColon, ObjectNext, ArrayNext, NoToken, Goto
<1>4. CASE place' \notin Reading
  BY <1>2, <1>3, <1>4, NothingSays
<1>5. CASE place' \in Reading
  <2>1. \/ place = "colon" /\ place' = "value"
        \/ place = "next" /\ place' = "key"
        \/ place = "next" /\ place' = "value" /\ In("arr")
    BY <1>5 DEF ObjectColon, ObjectNext, ArrayNext, NoToken, Take, Goto, Reading
  <2>2. Depth' = Depth
    BY <1>1 DEF Depth
  <2>3. CASE In("arr")
    <3>1. stack # <<>> /\ "arr" \in DOMAIN Top
      BY <2>3 DEF In, Depth
    <3>2. PICK U : stack \in Seq(U) /\ \A k \in DOMAIN stack : Frame(stack[k])
      BY DEF LeakInv, Accounted, Shape
    <3>3. Depth \in Nat /\ DOMAIN stack = 1..Depth /\ Depth \in DOMAIN stack
      BY <3>1, <3>2 DEF Depth
    <3>4. ~Is("kvs", stack[Depth])
      BY <3>1, <3>2, <3>3 DEF Frame, Is, Top
    <3>5. \A k \in DOMAIN stack : Is("kvs", stack[k]) => k < Depth
      <4> SUFFICES ASSUME NEW k \in DOMAIN stack, k # Depth PROVE k < Depth
        BY <3>4
      <4> QED
        BY <3>3
    <3>6. \A k \in DOMAIN stack : Is("kvs", stack[k]) => Pending(k) /\ Pending(k)'
      BY <2>2, <3>5 DEF Pending
    <3> QED
      BY <1>1, <1>2, <1>5, <3>6, PlaceSays
  <2>4. CASE ~In("arr")
    <3>1. \A k : Pending(k)' <=> Pending(k)
      BY <2>1, <2>2, <2>4 DEF Pending
    <3> QED
      BY <1>1, <1>2, <1>5, <3>1, PlaceSays
  <2> QED
    BY <2>3, <2>4
<1> QED
  BY <1>4, <1>5

(* A new text begins with no object open.                                  *)
LEMMA AgainSays ==
    ASSUME NEW S, LeakInv, NEW next \in Seq(S), ParseAgain(next)
    PROVE  TextInv(S)'
<1>1. text' = next /\ place' = "value" /\ stack' = stack /\ stack = <<>>
  BY DEF ParseAgain, LeakInv, Places
<1> QED
  BY <1>1, NothingSays

(* Behind the end nothing is read.                                         *)
LEMMA FreeSays ==
    ASSUME NEW S, TextInv(S), FreeEntities
    PROVE  TextInv(S)'
<1>1. text' = text /\ place' = "freed" /\ "freed" \notin Reading
  BY DEF FreeEntities, Reading
<1> QED
  BY <1>1, NothingSays DEF TextInv

(* A step that changes nothing.                                            *)
LEMMA StutterSays ==
    ASSUME NEW S, TextInv(S), UNCHANGED parser_vars
    PROVE  TextInv(S)'
<1>1. \A k : Pending(k)' <=> Pending(k)
  BY DEF parser_vars, memory, Pending, Depth
<1>2. CASE place \in Reading
  BY <1>1, <1>2, PlaceSays DEF parser_vars, memory, TextInv
<1>3. CASE place \notin Reading
  BY <1>3 DEF parser_vars, memory, TextInv, NamesOf, KeysPut, KeysIn
<1> QED
  BY <1>2, <1>3

(* Every step of the parser keeps what the text says.                      *)
LEMMA ParseSays ==
    ASSUME NEW S, LeakInv, TextInv(S), Parse
    PROVE  TextInv(S)'
BY ValueSays, ObjectBeginSays, KeySays, ColonSays, ObjectSays, ArrayBeginSays, ArraySays DEF Parse

(* Nothing has been read of a first text.                                  *)
LEMMA TextInit ==
    ASSUME NEW S, InitParser, text \in Seq(S)
    PROVE  TextInv(S)
<1>1. stack = <<>> /\ place = "value" /\ DOMAIN <<>> = {}
  BY DEF InitParser
<1> QED
  BY <1>1 DEF TextInv

-----------------------------------------------------------------------------
(* What the parser is used for *)

(* Whatever texts a caller has parsed, however they end and whenever the    *)
(* caller frees what it holds: json_parser.c neither loses an entity nor a  *)
(* node of a list of keys, nor has it two owners.                           *)
THEOREM ParserLeaksNothing ==
    ASSUME NEW texts
    PROVE  ParserSpec(texts) => []NothingLeaks
<1>1. InitParser => LeakInv
  BY LeakInit
<1>2. LeakInv /\ [ParserNext(texts)]_parser_vars => LeakInv'
  <2> SUFFICES ASSUME LeakInv, [ParserNext(texts)]_parser_vars PROVE LeakInv'
    OBVIOUS
  <2>1. CASE Parse
    BY <2>1, ParseKeeps
  <2>2. ASSUME NEW next \in texts, ParseAgain(next)
        PROVE  LeakInv'
    BY <2>2, AgainKeeps
  <2>3. CASE FreeEntities
    BY <2>3, FreeKeeps
  <2>4. CASE UNCHANGED parser_vars
    BY <2>4, StutterKeeps
  <2> QED
    BY <2>1, <2>2, <2>3, <2>4 DEF ParserNext
<1>3. LeakInv => NothingLeaks
  BY NoneLeaks
<1> QED
  BY <1>1, <1>2, <1>3, PTL DEF ParserSpec

(* Whatever texts over S a caller has parsed: an object that the parser     *)
(* returns lists the keys that it was given, each as often as it was given, *)
(* the last one first; a string in it is a run of the text's characters     *)
(* that ends with a quote.                                                  *)
THEOREM ParserKeepsKeys ==
    ASSUME NEW S, NEW texts \in SUBSET Seq(S)
    PROVE  ParserSpec(texts) =>
               [](place = "done" /\ Is("kvs", ret) =>
                      KeyNames(ret) = KeysPut(ret) /\ Literals(S, ret.kvs))
<1>1. InitParser /\ text \in texts => LeakInv /\ TextInv(S)
  BY LeakInit, TextInit
<1>2. LeakInv /\ TextInv(S) /\ [ParserNext(texts)]_parser_vars => LeakInv' /\ TextInv(S)'
  <2> SUFFICES ASSUME LeakInv, TextInv(S), [ParserNext(texts)]_parser_vars
               PROVE  LeakInv' /\ TextInv(S)'
    OBVIOUS
  <2>1. CASE Parse
    BY <2>1, ParseKeeps, ParseSays
  <2>2. ASSUME NEW next \in texts, ParseAgain(next)
        PROVE  LeakInv' /\ TextInv(S)'
    BY <2>2, AgainKeeps, AgainSays
  <2>3. CASE FreeEntities
    BY <2>3, FreeKeeps, FreeSays
  <2>4. CASE UNCHANGED parser_vars
    BY <2>4, StutterKeeps, StutterSays
  <2> QED
    BY <2>1, <2>2, <2>3, <2>4 DEF ParserNext
<1>3. TextInv(S) => (place = "done" /\ Is("kvs", ret) =>
                         KeyNames(ret) = KeysPut(ret) /\ Literals(S, ret.kvs))
  BY DEF TextInv, KeyNames, NamesOf
<1> QED
  BY <1>1, <1>2, <1>3, PTL DEF ParserSpec

(* main.c and user.c keep that so: they hold the object of each file until  *)
(* dict_free of json_dict frees them all.                                   *)
THEOREM CorpusLeaksNothing ==
    ASSUME NEW corpora
    PROVE  CorpusSpec(corpora) => []NothingLeaks
<1>1. InitCorpus(corpora) => LeakInv
  BY LeakInit DEF InitCorpus
<1>2. LeakInv /\ [CorpusNext]_corpus_vars => LeakInv'
  <2> SUFFICES ASSUME LeakInv, [CorpusNext]_corpus_vars PROVE LeakInv'
    OBVIOUS
  <2>1. CASE ParseFile
    BY <2>1, ParseKeeps DEF ParseFile
  <2>2. CASE init_json_dict
    <3>1. CASE Current < Len(files)
      <4>1. ParseAgain(files[Current + 1].text)
        BY <2>2, <3>1 DEF init_json_dict
      <4> QED
        BY <4>1, AgainKeeps
    <3>2. CASE ~(Current < Len(files))
      <4>1. UNCHANGED parser_vars
        BY <2>2, <3>2 DEF init_json_dict
      <4> QED
        BY <4>1, StutterKeeps
    <3> QED
      BY <3>1, <3>2
  <2>3. CASE UseFiles
    <3>1. UNCHANGED parser_vars
      BY <2>3 DEF UseFiles
    <3> QED
      BY <3>1, StutterKeeps
  <2>4. CASE FreeFiles
    BY <2>4, FreeKeeps DEF FreeFiles
  <2>5. CASE UNCHANGED corpus_vars
    <3>1. UNCHANGED parser_vars
      BY <2>5 DEF corpus_vars
    <3> QED
      BY <3>1, StutterKeeps
  <2> QED
    BY <2>1, <2>2, <2>3, <2>4, <2>5 DEF CorpusNext
<1>3. LeakInv => NothingLeaks
  BY NoneLeaks
<1> QED
  BY <1>1, <1>2, <1>3, PTL DEF CorpusSpec

(* Where the files say nothing but words of Words, what main.c does with    *)
(* parsed files is what Vocabulary says of files that hold any words.       *)
THEOREM CorpusImplementsVocabulary ==
    ASSUME NEW corpora
    PROVE  CorpusSpec(corpora) /\ []Known => Spec
<1>1. InitCorpus(corpora) => Init
  BY DEF InitCorpus
<1>2. Known /\ [CorpusNext]_corpus_vars => [Next]_vars
  <2> SUFFICES ASSUME Known, [CorpusNext]_corpus_vars PROVE [Next]_vars
    OBVIOUS
  <2>1. CASE ParseFile
    BY <2>1 DEF ParseFile
  <2>2. CASE init_json_dict
    <3> DEFINE s    == files[Current].spec
               file == WordsOf(ret)
    <3>1. phase = "read" /\ place = "done" /\ PutFile(s, file)
      BY <2>2 DEF init_json_dict
    <3>2. s \in Specs /\ file \in Files
      BY <3>1 DEF Known
    <3> HIDE DEF s, file
    <3>3. s \in DOMAIN json_dict' /\ json_dict'[s] = file
      BY <3>1 DEF PutFile, With
    <3>4. ReadFile(s)
      BY <3>1, <3>2, <3>3 DEF ReadFile
    <3> QED
      BY <3>2, <3>4 DEF Next
  <2>3. CASE UseFiles
    <3>1. CASE \E s \in Specs : Collect(s)
      BY <3>1 DEF Next
    <3>2. CASE \E w \in Words : Count(w) \/ RemoveWord(w)
      BY <3>2 DEF Next
    <3> QED
      BY <2>3, <3>1, <3>2 DEF UseFiles, Next
  <2>4. CASE FreeFiles
    BY <2>4 DEF FreeFiles
  <2>5. CASE UNCHANGED corpus_vars
    BY <2>5 DEF corpus_vars
  <2> QED
    BY <2>1, <2>2, <2>3, <2>4, <2>5 DEF CorpusNext
<1> QED
  BY <1>1, <1>2, PTL DEF CorpusSpec, Spec

(* So the counts, the positions and the vectors of the prediction program   *)
(* are right of what the parser and the tokenizers make of the files.       *)
THEOREM CorpusVocabulary ==
    ASSUME NEW corpora
    PROVE  CorpusSpec(corpora) /\ []Known
               => [](CountsAreFiles /\ PositionsFit /\ UserSeesSameVector)
BY CorpusImplementsVocabulary, CountsRight, PositionsNumber, UserVectorsSame, PTL

-----------------------------------------------------------------------------
(* What the strings of an object hold *)

(* A set is as large with a mark on each element.                          *)
LEMMA Marked ==
    ASSUME NEW R, IsFiniteSet(R), NEW k
    PROVE  /\ IsFiniteSet({k} \X R)
           /\ Cardinality({k} \X R) = Cardinality(R)
<1> DEFINE T == {k} \X R
           f == [r \in R |-> <<k, r>>]
<1>1. f \in [R -> T]
  OBVIOUS
<1>2. \A x, y \in R : f[x] = f[y] => x = y
  OBVIOUS
<1>3. \A t \in T : \E x \in R : f[x] = t
  OBVIOUS
<1>4. f \in Bijection(R, T)
  <2> HIDE DEF f, T
  <2> QED
    BY <1>1, <1>2, <1>3 DEF Bijection, Injection, Surjection, IsInjective
<1> HIDE DEF T
<1>5. ExistsBijection(R, T)
  BY <1>4 DEF ExistsBijection
<1>6. IsFiniteSet(T) /\ Cardinality(T) = Cardinality(R)
  BY <1>5, FS_Bijection
<1> QED
  BY <1>6 DEF T

(* The words of a text are a sequence.                                     *)
LEMMA TokensType ==
    ASSUME NEW S, NEW s \in Seq(S), Plain(s), Ended(s)
    PROVE  Tokens(s) \in Seq(ToSet(Tokens(s)))
<1> DEFINE t == Tokens(s)
<1>1. PICK n, pos, from, to :
          /\ n \in Nat
          /\ Walk(s, n, pos, from, to)
          /\ t = [k \in 1..n |-> Spelled(s, <<from[k], to[k]>>)]
  BY TokensWalk
<1>2. n \in Nat /\ DOMAIN t = 1..n
  BY <1>1
<1> HIDE DEF t
<1>3. t = [k \in 1..n |-> t[k]]
  BY <1>1, <1>2
<1>4. \A k \in 1..n : t[k] \in ToSet(t)
  BY <1>2 DEF ToSet
<1>5. t \in Seq(ToSet(t))
  BY <1>2, <1>3, <1>4
<1> QED
  BY <1>5 DEF t

(* The words of several texts are counted together.                        *)
LEMMA WordsCounted ==
    ASSUME NEW S, NEW texts \in Seq(Seq(S)),
           \A k \in DOMAIN texts : Plain(texts[k]) /\ Ended(texts[k]), NEW w
    PROVE  /\ IsFiniteSet(Occurrences(texts, w))
           /\ Tally({w}, FlattenSeq([k \in DOMAIN texts |-> Tokens(texts[k])]))
                  = Cardinality(Occurrences(texts, w))
<1> DEFINE N == Len(texts)
           tok(k) == Tokens(texts[k])
           X == UNION {ToSet(tok(k)) : k \in DOMAIN texts}
           A(n) == [k \in 1..n |-> tok(k)]
           Q(k) == {k} \X WrittenAt(texts[k], w)
           P(n) == UNION {Q(k) : k \in 1..n}
           F(n) == FlattenSeq(A(n))
           Good(n) == IsFiniteSet(P(n)) /\ Tally({w}, F(n)) = Cardinality(P(n))
           Bad == {n \in 0..N : ~Good(n)}
<1>1. N \in Nat /\ DOMAIN texts = 1..N /\ 0 \in 0..N /\ N \in 0..N
  OBVIOUS
<1>2. ASSUME NEW k \in 1..N
      PROVE  /\ IsFiniteSet(Q(k)) /\ Tally({w}, tok(k)) = Cardinality(Q(k))
             /\ tok(k) \in Seq(X) /\ \A q \in Q(k) : q[1] = k
  <2> DEFINE s == texts[k]
             R == WrittenAt(s, w)
  <2>1. s \in Seq(S) /\ Plain(s) /\ Ended(s)
    BY <1>1
  <2>2. tok(k) = Tokens(s) /\ Q(k) = {k} \X R
    OBVIOUS
  <2> HIDE DEF s, Q
  <2>3. IsFiniteSet(R) /\ Tally({w}, Tokens(s)) = Cardinality(R)
    BY <2>1, TokensAreWords DEF WrittenAt
  <2>4. Tokens(s) \in Seq(ToSet(Tokens(s)))
    BY <2>1, TokensType
  <2>5. ToSet(tok(k)) \subseteq X
    BY <1>1
  <2> HIDE DEF R, X, tok
  <2>6. IsFiniteSet({k} \X R) /\ Cardinality({k} \X R) = Cardinality(R)
    BY <2>3, Marked
  <2>7. tok(k) \in Seq(X)
    BY <2>2, <2>4, <2>5, SeqWider
  <2>8. \A q \in Q(k) : q[1] = k
    BY <2>2
  <2> QED
    BY <2>2, <2>3, <2>6, <2>7, <2>8
<1> HIDE DEF X, tok, Q
<1>3. ASSUME NEW n \in 0..N
      PROVE  A(n) \in Seq(Seq(X)) /\ F(n) \in Seq(X) /\ Len(A(n)) = n
  <2>1. \A k \in 1..n : tok(k) \in Seq(X)
    BY <1>1, <1>2
  <2>2. n \in Nat
    BY <1>1
  <2>3. A(n) \in Seq(Seq(X)) /\ Len(A(n)) = n
    BY <2>1, <2>2
  <2> HIDE DEF A
  <2>4. F(n) \in Seq(X)
    <3>1. << >> \in Seq(X)
      OBVIOUS
    <3> QED
      BY <2>3, <3>1, FlattenAppend
  <2> QED
    BY <2>3, <2>4
<1>4. Good(0)
  <2>1. A(0) = << >>
    OBVIOUS
  <2>2. P(0) = {}
    OBVIOUS
  <2> HIDE DEF A, P
  <2>3. Tally({w}, F(0)) = 0
    BY <2>1, FlattenEmpty, TallyEmpty
  <2> QED
    BY <2>2, <2>3, FS_EmptySet
<1>5. ASSUME NEW n \in Nat, n + 1 \in 0..N, Good(n)
      PROVE  Good(n + 1)
  <2>1. n \in 0..N /\ n + 1 \in 1..N
    BY <1>1, <1>5
  <2>2. A(n + 1) = Append(A(n), tok(n + 1))
    <3>1. \A k \in 1..(n + 1) : k \in 1..n \/ k = n + 1
      BY <2>1
    <3> DEFINE a == A(n)
               b == A(n + 1)
               x == tok(n + 1)
    <3>2. a \in Seq(Seq(X)) /\ Len(a) = n /\ b \in Seq(Seq(X)) /\ Len(b) = n + 1 /\ x \in Seq(X)
      BY <1>2, <1>3, <1>5, <2>1
    <3>3. \A k \in 1..n : b[k] = a[k]
      OBVIOUS
    <3>4. b[n + 1] = x
      BY <2>1
    <3> HIDE DEF a, b, x
    <3>5. b = Append(a, x)
      BY <3>2, <3>3, <3>4
    <3> QED
      BY <3>5 DEF a, b, x
  <2>3. A(n) \in Seq(Seq(X)) /\ tok(n + 1) \in Seq(X)
    BY <1>2, <1>3, <2>1
  <2> HIDE DEF A
  <2>4. F(n + 1) = F(n) \o tok(n + 1) /\ F(n) \in Seq(X)
    BY <2>2, <2>3, FlattenAppend
  <2>5. Tally({w}, F(n + 1)) = Tally({w}, F(n)) + Tally({w}, tok(n + 1))
    BY <2>3, <2>4, TallyConcat
  <2>6. P(n + 1) = P(n) \cup Q(n + 1)
    <3>1. 1..(n + 1) = (1..n) \cup {n + 1}
      BY <2>1
    <3> QED
      BY <3>1
  <2>7. P(n) \cap Q(n + 1) = {}
    <3>1. \A k \in 1..n : k \in 1..N /\ k # n + 1
      BY <2>1
    <3>2. \A q \in P(n) : \E k \in 1..n : q[1] = k
      BY <1>2, <3>1
    <3>3. \A q \in Q(n + 1) : q[1] = n + 1
      BY <1>2, <2>1
    <3> HIDE DEF P
    <3> QED
      BY <3>1, <3>2, <3>3
  <2>8. IsFiniteSet(Q(n + 1)) /\ Tally({w}, tok(n + 1)) = Cardinality(Q(n + 1))
    BY <1>2, <2>1
  <2> HIDE DEF P, F
  <2>9. IsFiniteSet(P(n)) /\ Tally({w}, F(n)) = Cardinality(P(n))
    BY <1>5
  <2> DEFINE a == P(n)
             b == Q(n + 1)
             x == Cardinality(a)
             y == Cardinality(b)
             z == Cardinality(a \cup b)
  <2>10. IsFiniteSet(a) /\ IsFiniteSet(b) /\ a \cap b = {}
    BY <2>7, <2>8, <2>9
  <2> HIDE DEF a, b
  <2>11. IsFiniteSet(a \cup b) /\ z = x + y - Cardinality(a \cap b)
    BY <2>10, FS_Union
  <2>12. x \in Nat /\ y \in Nat /\ Cardinality({}) = 0
    BY <2>10, FS_EmptySet, FS_CardinalityType
  <2>13. z = x + y
    <3> HIDE DEF x, y, z
    <3>1. Cardinality(a \cap b) = 0
      BY <2>10, <2>12
    <3> QED
      BY <2>11, <2>12, <3>1
  <2>14. Tally({w}, F(n + 1)) = x + y
    BY <2>5, <2>8, <2>9 DEF a, b
  <2>15. IsFiniteSet(P(n + 1)) /\ Cardinality(P(n + 1)) = z
    BY <2>6, <2>11 DEF a, b
  <2> HIDE DEF x, y, z
  <2> QED
    BY <2>13, <2>14, <2>15
<1>6. Good(N)
  <2> HIDE DEF Good
  <2> SUFFICES ASSUME ~Good(N) PROVE FALSE
    OBVIOUS
  <2>1. Bad \subseteq Nat /\ Bad # {}
    BY <1>1
  <2>2. PICK n \in Bad : \A j \in Bad : n <= j
    BY <2>1, Least
  <2>3. n \in 0..N /\ ~Good(n) /\ n # 0
    BY <1>4, <2>2
  <2>4. n - 1 \in Nat /\ n - 1 \in 0..N /\ (n - 1) + 1 = n /\ ~(n <= n - 1)
    BY <1>1, <2>3
  <2>5. Good(n - 1)
    BY <2>2, <2>4
  <2> QED
    BY <1>5, <2>3, <2>4, <2>5
<1>7. P(N) = Occurrences(texts, w)
  <2>1. Occurrences(texts, w) = UNION {Q(k) : k \in DOMAIN texts}
    BY DEF Occurrences, Q
  <2> HIDE DEF N
  <2> QED
    BY <1>1, <2>1
<1>8. A(N) = [k \in DOMAIN texts |-> Tokens(texts[k])]
  BY <1>1 DEF tok
<1> HIDE DEF P, A
<1> QED
  BY <1>6, <1>7, <1>8

(* Where a word is written does not depend on the order of the strings.    *)
LEMMA OccurrencesReversed ==
    ASSUME NEW X, NEW texts \in Seq(X), NEW w, IsFiniteSet(Occurrences(texts, w))
    PROVE  Cardinality(Occurrences(Reverse(texts), w)) = Cardinality(Occurrences(texts, w))
<1> DEFINE n == Len(texts)
           back == Reverse(texts)
           W(k) == WrittenAt(texts[k], w)
           V(k) == WrittenAt(back[k], w)
           A == Occurrences(texts, w)
           B == Occurrences(back, w)
           f == [p \in A |-> <<(n - p[1]) + 1, p[2]>>]
<1>1. n \in Nat /\ DOMAIN texts = 1..n
  OBVIOUS
<1>2. back = [k \in 1..n |-> texts[(n - k) + 1]]
  BY DEF Reverse
<1>3. \A k \in 1..n : (n - k) + 1 \in 1..n /\ (n - ((n - k) + 1)) + 1 = k
  BY <1>1
<1>4. \A j, k \in 1..n : (n - j) + 1 = (n - k) + 1 => j = k
  BY <1>1
<1> HIDE DEF n, back
<1>5. \A k \in 1..n : V((n - k) + 1) = W(k)
  BY <1>2, <1>3
<1>6. \A q : q \in A <=> \E k \in 1..n : \E r \in W(k) : q = <<k, r>>
  BY <1>1 DEF Occurrences
<1>7. \A q : q \in B <=> \E k \in 1..n : \E r \in V(k) : q = <<k, r>>
  BY <1>2 DEF Occurrences
<1> HIDE DEF A, B, W, V
<1>8. \A p \in A : p[1] \in 1..n /\ p[2] \in W(p[1]) /\ p = <<p[1], p[2]>>
  <2> SUFFICES ASSUME NEW p \in A PROVE p[1] \in 1..n /\ p[2] \in W(p[1]) /\ p = <<p[1], p[2]>>
    OBVIOUS
  <2>1. PICK k \in 1..n : \E r \in W(k) : p = <<k, r>>
    BY <1>6
  <2>2. PICK r \in W(k) : p = <<k, r>>
    BY <2>1
  <2> QED
    BY <2>2
<1>9. \A p \in A : f[p] \in B
  <2> SUFFICES ASSUME NEW p \in A PROVE f[p] \in B
    OBVIOUS
  <2> DEFINE k == p[1]
             j == (n - k) + 1
  <2>1. k \in 1..n /\ p[2] \in W(k) /\ f[p] = <<j, p[2]>>
    BY <1>8
  <2>2. j \in 1..n /\ V(j) = W(k)
    BY <1>3, <1>5, <1>8
  <2> HIDE DEF j, k, f
  <2> QED
    BY <1>7, <2>1, <2>2
<1>10. f \in [A -> B]
  <2> HIDE DEF f
  <2>1. f = [p \in A |-> f[p]]
    BY DEF f
  <2> QED
    BY <1>9, <2>1
<1>11. \A p, q \in A : f[p] = f[q] => p = q
  <2> SUFFICES ASSUME NEW p \in A, NEW q \in A, f[p] = f[q] PROVE p = q
    OBVIOUS
  <2>1. (n - p[1]) + 1 = (n - q[1]) + 1 /\ p[2] = q[2]
    OBVIOUS
  <2>2. p[1] = q[1]
    BY <1>4, <1>8, <2>1
  <2> QED
    BY <1>8, <2>1, <2>2
<1>12. \A t \in B : \E p \in A : f[p] = t
  <2> SUFFICES ASSUME NEW t \in B PROVE \E p \in A : f[p] = t
    OBVIOUS
  <2>1. PICK j \in 1..n : \E r \in V(j) : t = <<j, r>>
    BY <1>7
  <2>2. PICK r \in V(j) : t = <<j, r>>
    BY <2>1
  <2> DEFINE k == (n - j) + 1
             p == <<k, r>>
  <2>3. k \in 1..n /\ (n - k) + 1 = j
    BY <1>3
  <2>35. p[1] = k /\ p[2] = r
    OBVIOUS
  <2> HIDE DEF k
  <2>4. r \in W(k)
    BY <1>5, <2>2, <2>3
  <2>5. p \in A
    BY <1>6, <2>3, <2>4
  <2> HIDE DEF p
  <2>6. f[p] = <<(n - p[1]) + 1, p[2]>>
    BY <2>5
  <2>7. f[p] = t
    BY <2>2, <2>3, <2>35, <2>6
  <2> QED
    BY <2>5, <2>7
<1>13. f \in Bijection(A, B)
  <2> HIDE DEF f
  <2> QED
    BY <1>10, <1>11, <1>12 DEF Bijection, Injection, Surjection, IsInjective
<1>14. Cardinality(B) = Cardinality(A)
  <2>1. ExistsBijection(A, B)
    BY <1>13 DEF ExistsBijection
  <2>2. IsFiniteSet(A)
    BY DEF A
  <2> QED
    BY <2>1, <2>2, FS_Bijection
<1> QED
  BY <1>14 DEF A, B, back

(* An object whose keys differ has the words of its strings, the last ones *)
(* first: no key finds the value of another.                               *)
LEMMA SentencesAre ==
    ASSUME NEW X, NEW obj, obj.kvs \in Seq(X), KeyNames(obj) = KeysPut(obj), KeysDiffer(obj)
    PROVE  Sentences(obj) = Reverse(StringsOf(obj))
<1> DEFINE kvs == obj.kvs
           n == Len(kvs)
           keys == KeyNames(obj)
           a == KeysIn(kvs)
           Value(k) == json_get(obj, keys[k])
           s == StringsOf(obj)
           at(k) == (n - k) + 1
<1>1. n \in Nat /\ DOMAIN kvs = 1..n
  OBVIOUS
<1>2. a = [k \in 1..n |-> kvs[k].key]
  BY <1>1 DEF KeysIn
<1>3. Len(a) = n
  BY <1>1, <1>2
<1>4. keys = [k \in 1..n |-> a[at(k)]]
  BY <1>3 DEF KeysPut, Reverse
<1>5. \A j, k \in 1..n : a[j] = a[k] => j = k
  BY <1>1, <1>2 DEF KeysDiffer, IsInjective
<1>6. s = [k \in 1..n |-> IF Is("str", kvs[k].value) THEN kvs[k].value.str ELSE <<>>]
  BY <1>1 DEF StringsOf
<1>7. \A k \in 1..n : at(k) \in 1..n
  BY <1>1
<1>75. DOMAIN s = 1..n
  BY <1>6
<1> HIDE DEF n, a, keys, s, kvs
<1>76. Len(s) = n
  BY <1>1, <1>6
<1> HIDE DEF at
<1>8. ASSUME NEW k \in 1..n
      PROVE  Value(k) = kvs[at(k)].value
  <2> DEFINE T == {x \in DOMAIN kvs : kvs[x].key = keys[k]}
  <2>1. keys[k] = a[at(k)]
    BY <1>4
  <2>2. \A x : x \in T <=> x = at(k)
    BY <1>1, <1>2, <1>5, <1>7, <2>1
  <2>3. T \subseteq Nat /\ T # {}
    <3>1. \A x \in 1..n : x \in Nat
      BY <1>1
    <3> QED
      BY <1>1, <2>2, <3>1
  <2>4. Min(T) = at(k)
    <3> HIDE DEF T
    <3> QED
      BY <2>2, <2>3, MinIs
  <2>5. Value(k) = kvs[Min(T)].value
    BY DEF json_get, kvs
  <2> QED
    BY <2>4, <2>5
<1>9. Sentences(obj) = [k \in DOMAIN keys |-> IF Is("str", Value(k)) THEN Value(k).str ELSE <<>>]
  BY DEF Sentences, keys
<1>10. DOMAIN keys = 1..n
  BY <1>4
<1>11. \A k \in 1..n : (IF Is("str", Value(k)) THEN Value(k).str ELSE <<>>) = s[at(k)]
  <2> HIDE DEF Value
  <2> QED
    BY <1>6, <1>7, <1>8
<1>12. Sentences(obj) = [k \in 1..n |-> s[at(k)]]
  <2> DEFINE V(k) == IF Is("str", Value(k)) THEN Value(k).str ELSE <<>>
  <2>1. Sentences(obj) = [k \in 1..n |-> V(k)]
    BY <1>9, <1>10
  <2>2. \A k \in 1..n : V(k) = s[at(k)]
    BY <1>11
  <2> HIDE DEF V
  <2> QED
    BY <2>1, <2>2
<1>13. Reverse(s) = [k \in 1..n |-> s[at(k)]]
  BY <1>76 DEF Reverse, at
<1> QED
  BY <1>12, <1>13 DEF s

(* The strings of an object are texts whose words the tokenizer finds.     *)
LEMMA StringsPlain ==
    ASSUME NEW S, Nul \notin S, NEW X, NEW obj, obj.kvs \in Seq(X), Literals(S, obj.kvs)
    PROVE  /\ StringsOf(obj) \in Seq(Seq(S))
           /\ \A k \in DOMAIN StringsOf(obj) : Plain(StringsOf(obj)[k]) /\ Ended(StringsOf(obj)[k])
<1> DEFINE kvs == obj.kvs
           n == Len(kvs)
           s == StringsOf(obj)
           Text(k) == IF Is("str", kvs[k].value) THEN kvs[k].value.str ELSE <<>>
<1>1. n \in Nat /\ DOMAIN kvs = 1..n
  OBVIOUS
<1>2. s = [k \in 1..n |-> Text(k)]
  BY <1>1 DEF StringsOf
<1>3. \A k \in 1..n : Text(k) = <<>> \/ Literal(S, Text(k))
  BY <1>1 DEF Literals
<1>4. \A t : Literal(S, t) => t \in Seq(S) /\ Plain(t) /\ Ended(t)
  <2> SUFFICES ASSUME NEW t, Literal(S, t) PROVE t \in Seq(S) /\ Plain(t) /\ Ended(t)
    OBVIOUS
  <2>1. t \in Seq(S) /\ t[Len(t)] = Quote
    BY DEF Literal
  <2>2. \A k \in DOMAIN t : t[k] \in S
    BY <2>1
  <2>3. Quote \in Separators
    BY DEF Separators, ispunct
  <2> QED
    BY <2>1, <2>2, <2>3 DEF Plain, Ended
<1>5. <<>> \in Seq(S) /\ Plain(<<>>) /\ Ended(<<>>)
  <2>1. DOMAIN <<>> = {} /\ <<>> \in Seq(S)
    OBVIOUS
  <2> QED
    BY <2>1 DEF Plain, Ended
<1>6. \A k \in 1..n : Text(k) \in Seq(S) /\ Plain(Text(k)) /\ Ended(Text(k))
  <2> HIDE DEF Text
  <2> QED
    BY <1>3, <1>4, <1>5
<1> HIDE DEF n, s, Text, kvs
<1>7. s \in Seq(Seq(S)) /\ DOMAIN s = 1..n /\ \A k \in 1..n : s[k] = Text(k)
  BY <1>1, <1>2, <1>6
<1> QED
  BY <1>6, <1>7 DEF s

(* The words of an object are those of its strings, in another order.      *)
LEMMA WordsRight ==
    ASSUME NEW S, Nul \notin S, NEW X, NEW obj, obj.kvs \in Seq(X), Literals(S, obj.kvs),
           KeyNames(obj) = KeysPut(obj), KeysDiffer(obj), NEW w
    PROVE  Tally({w}, WordsOf(obj).all) = Cardinality(Occurrences(StringsOf(obj), w))
<1> DEFINE s == StringsOf(obj)
           t == Reverse(s)
           n == Len(s)
           all == FlattenSeq([k \in DOMAIN t |-> Tokens(t[k])])
<1>1. s \in Seq(Seq(S)) /\ \A k \in DOMAIN s : Plain(s[k]) /\ Ended(s[k])
  BY StringsPlain
<1>2. Sentences(obj) = t
  BY SentencesAre
<1>3. WordsOf(obj).all = all
  BY <1>2 DEF WordsOf
<1> HIDE DEF s
<1>4. n \in Nat /\ DOMAIN s = 1..n /\ t = [k \in 1..n |-> s[(n - k) + 1]]
  BY <1>1 DEF Reverse
<1>5. \A k \in 1..n : (n - k) + 1 \in 1..n
  BY <1>4
<1> HIDE DEF n, t, all
<1>6. \A k \in 1..n : t[k] \in Seq(S) /\ Plain(t[k]) /\ Ended(t[k])
  <2>1. \A k \in 1..n : s[k] \in Seq(S)
    BY <1>1, <1>4
  <2> QED
    BY <1>1, <1>4, <1>5, <2>1
<1>7. t \in Seq(Seq(S)) /\ DOMAIN t = 1..n
  <2>1. DOMAIN t = 1..n /\ t = [k \in 1..n |-> t[k]]
    BY <1>4
  <2> QED
    BY <1>4, <1>6, <2>1
<1>8. Tally({w}, all) = Cardinality(Occurrences(t, w))
  BY <1>6, <1>7, WordsCounted DEF all
<1>9. IsFiniteSet(Occurrences(s, w))
  BY <1>1, WordsCounted
<1>10. Cardinality(Occurrences(t, w)) = Cardinality(Occurrences(s, w))
  BY <1>1, <1>9, OccurrencesReversed DEF t
<1> QED
  BY <1>3, <1>8, <1>10 DEF s

-----------------------------------------------------------------------------
(* The vectors count the words of the files *)

\* Lists of files: texts of Chars, each spec once.
FileLists(Chars) ==
    {list \in Seq([spec : Specs, text : Seq(Chars)]) :
        list # <<>> /\ \A j, k \in DOMAIN list : list[j].spec = list[k].spec => j = k}

\* The text of each file is an object: of another value json_get_obj_keys has
\* no keys.
ObjectFiles == place = "done" /\ phase = "read" => Is("kvs", ret)

\* A file of json_dict has the words of its object.
Right(file, obj) ==
    KeysDiffer(obj) => \A w : Tally({w}, file.all) = Cardinality(Occurrences(StringsOf(obj), w))

\* The k-th file has been parsed.
Parsed(k) == k < Current \/ (k = Current /\ place = "done")

CorpusInv(Chars) ==
    /\ files \in FileLists(Chars) /\ LeakInv /\ TextInv(Chars)
    /\ phase # "done" =>
          /\ Len(held) < Len(files)
          /\ \A k \in DOMAIN files : files[k].spec \in DOMAIN json_dict =>
                Parsed(k) /\ Right(json_dict[files[k].spec], Object(k))

(* The files that a caller holds and the one that is being parsed.         *)
LEMMA ObjectsAre ==
    ASSUME LeakInv
    PROVE  /\ Len(held) \in Nat /\ Current = Len(held) + 1
           /\ \A k \in 1..Len(held) : Object(k) = held[k]
           /\ Object(Current) = ret
<1>1. PICK U : held \in Seq(U) /\ ret \in U
  BY DEF LeakInv, Accounted, Shape
<1> DEFINE n == Len(held)
           s == Append(held, ret)
<1>2. n \in Nat /\ s[n + 1] = ret /\ \A k \in 1..n : s[k] = held[k]
  BY <1>1
<1> QED
  BY <1>2 DEF Object, Current

(* ObjectsAre, of the next state.                                          *)
LEMMA ObjectsAreLater ==
    ASSUME LeakInv'
    PROVE  /\ Len(held') \in Nat /\ Current' = Len(held') + 1
           /\ \A k \in 1..Len(held') : Object(k)' = held'[k]
           /\ Append(held', ret')[Current'] = ret'
<1> DEFINE h == held'
           r == ret'
<1>0. \E U : Accounted(U)'
  BY DEF LeakInv
<1>05. PICK U : Accounted(U)'
  BY <1>0
<1>1. h \in Seq(U) /\ r \in U
  BY <1>05 DEF Accounted, Shape
<1> DEFINE n == Len(h)
           s == Append(h, r)
           cur == Current'
<1>15. cur = Len(h) + 1
  BY DEF Current
<1>16. \A k : Object(k)' = s[k]
  BY DEF Object
<1> HIDE DEF h, r, cur
<1>2. n \in Nat /\ s[n + 1] = r /\ \A k \in 1..n : s[k] = h[k]
  BY <1>1
<1>3. n \in Nat /\ cur = n + 1 /\ s[cur] = r
  BY <1>15, <1>2
<1> HIDE DEF s
<1>4. \A k \in 1..n : Object(k)' = h[k]
  BY <1>16, <1>2
<1> QED
  BY <1>3, <1>4 DEF h, r, cur, s

(* A step that reads nothing changes no file that has been read.           *)
LEMMA FilesStay ==
    ASSUME NEW Chars, CorpusInv(Chars), LeakInv', TextInv(Chars)', files' = files,
           phase' # "done" => phase # "done" /\ json_dict' = json_dict /\ held' = held,
           (place' = place /\ ret' = ret) \/ place # "done"
    PROVE  CorpusInv(Chars)'
<1>1. (files \in FileLists(Chars))'
  BY DEF CorpusInv, FileLists
<1> SUFFICES ASSUME phase' # "done"
             PROVE  /\ Len(held') < Len(files')
                    /\ \A k \in DOMAIN files' : files'[k].spec \in DOMAIN json_dict' =>
                          Parsed(k)' /\ Right(json_dict[files[k].spec], Object(k))'
  BY <1>1 DEF CorpusInv
<1>2. phase # "done" /\ json_dict' = json_dict /\ held' = held
  OBVIOUS
<1>3. /\ Len(held) < Len(files)
      /\ \A k \in DOMAIN files : files[k].spec \in DOMAIN json_dict =>
            Parsed(k) /\ Right(json_dict[files[k].spec], Object(k))
      /\ LeakInv /\ files \in FileLists(Chars)
  BY <1>2 DEF CorpusInv
<1>4. /\ Len(held) \in Nat /\ Current = Len(held) + 1
      /\ \A k \in 1..Len(held) : Object(k) = held[k]
      /\ Object(Current) = ret
  BY <1>3, ObjectsAre
<1>5. /\ Len(held') \in Nat /\ Current' = Len(held') + 1
      /\ \A k \in 1..Len(held') : Object(k)' = held'[k]
      /\ Append(held', ret')[Current'] = ret'
  BY ObjectsAreLater
<1>6. Current' = Current
  BY <1>2 DEF Current
<1>7. \A k \in DOMAIN files : k \in Nat \ {0}
  <2>1. files \in Seq([spec : Specs, text : Seq(Chars)])
    BY <1>3 DEF FileLists
  <2> QED
    BY <2>1
<1>8. ASSUME NEW k \in DOMAIN files, Parsed(k)
      PROVE  Parsed(k)' /\ Object(k)' = Object(k)
  <2>1. CASE place' = place /\ ret' = ret
    BY <1>2, <1>6, <1>8, <2>1 DEF Parsed, Object
  <2>2. CASE place # "done"
    <3>1. k < Current
      BY <1>8, <2>2 DEF Parsed
    <3>2. k \in 1..Len(held)
      BY <1>4, <1>7, <3>1
    <3>3. Object(k)' = held[k]
      BY <1>2, <1>5, <3>2
    <3>4. Parsed(k)'
      BY <1>6, <3>1 DEF Parsed
    <3> QED
      BY <1>4, <3>2, <3>3, <3>4
  <2> QED
    BY <2>1, <2>2
<1>9. ASSUME NEW k \in DOMAIN files', files'[k].spec \in DOMAIN json_dict'
      PROVE  Parsed(k)' /\ Right(json_dict[files[k].spec], Object(k))'
  <2>1. k \in DOMAIN files /\ files[k].spec \in DOMAIN json_dict
    BY <1>2, <1>9
  <2>2. Parsed(k) /\ Right(json_dict[files[k].spec], Object(k))
    BY <1>3, <2>1
  <2>3. Parsed(k)' /\ Object(k)' = Object(k)
    BY <1>8, <2>1, <2>2
  <2>4. Right(json_dict[files[k].spec], Object(k))' = Right(json_dict[files[k].spec], Object(k))
    BY <1>2, <2>3 DEF Right, KeysDiffer, StringsOf
  <2> QED
    BY <2>2, <2>3, <2>4
<1> QED
  BY <1>2, <1>3, <1>9

(* Nothing is read of the first file when main.c begins.                   *)
LEMMA CorpusInit ==
    ASSUME NEW Chars, NEW corpora \in SUBSET FileLists(Chars), InitCorpus(corpora)
    PROVE  CorpusInv(Chars)
<1>1. InitParser /\ files \in FileLists(Chars) /\ text = files[1].text
      /\ held = <<>> /\ json_dict = <<>>
  BY DEF InitCorpus, InitParser, Init
<1>2. LeakInv
  BY <1>1, LeakInit
<1>3. files \in Seq([spec : Specs, text : Seq(Chars)]) /\ files # <<>>
  BY <1>1 DEF FileLists
<1>4. text \in Seq(Chars) /\ Len(files) > 0
  <2> DEFINE R == [spec : Specs, text : Seq(Chars)]
  <2>1. files \in Seq(R) /\ files # <<>>
    BY <1>3
  <2>2. \A x \in R : x.text \in Seq(Chars)
    OBVIOUS
  <2> HIDE DEF R
  <2>3. Len(files) \in Nat /\ Len(files) > 0 /\ files[1] \in R
    BY <2>1
  <2> QED
    BY <1>1, <2>2, <2>3
<1>5. TextInv(Chars)
  BY <1>1, <1>4, TextInit
<1>6. Len(held) < Len(files)
  <2>1. Len(held) = 0
    BY <1>1
  <2> QED
    BY <1>4, <2>1
<1>7. DOMAIN json_dict = {}
  BY <1>1
<1> QED
  BY <1>1, <1>2, <1>5, <1>6, <1>7 DEF CorpusInv

(* A step of the parser holds nothing and reads on.                        *)
LEMMA ParseReads ==
    ASSUME Parse
    PROVE  place # "done" /\ held' = held
BY DEF Parse, json_parse_value, ObjectBegin, ObjectKey, ObjectColon, ObjectNext, ObjectEnd,
       ArrayBegin, ArrayNext, ArrayEnd, NoToken, Take, Reading, given

(* What main.c and user.c do after the last file.                          *)
LEMMA UseReads ==
    ASSUME UseFiles
    PROVE  phase # "done" /\ json_dict' = json_dict
BY DEF UseFiles, Collect, init_json_train_set, Count, RemoveWord, CountEnd, CollectEnd,
       RemoveEnd, init_vectors_dict, Export, Predict

(* The object that the parser returns has the words of its strings.        *)
LEMMA ObjectRight ==
    ASSUME NEW Chars, Nul \notin Chars, LeakInv, TextInv(Chars), place = "done", Is("kvs", ret)
    PROVE  Right(WordsOf(ret), ret)
<1>1. PICK U : Sane(U) /\ ret \in U
  BY DEF LeakInv, Accounted, Shape
<1>2. ret.kvs \in Seq(Valued(U))
  BY <1>1 DEF Sane, Fits
<1>3. Literals(Chars, ret.kvs) /\ KeyNames(ret) = KeysPut(ret)
  BY DEF TextInv, KeyNames, NamesOf
<1> QED
  BY <1>2, <1>3, WordsRight DEF Right

(* The file just parsed is put into json_dict with the words of its object. *)
LEMMA FilePut ==
    ASSUME NEW Chars, Nul \notin Chars, CorpusInv(Chars), ObjectFiles, init_json_dict
    PROVE  CorpusInv(Chars)'
<1> DEFINE s    == files[Current].spec
           file == WordsOf(ret)
<1>1. /\ phase = "read" /\ place = "done" /\ files' = files
      /\ s \notin DOMAIN json_dict /\ json_dict' = With(json_dict, s, file)
  BY DEF init_json_dict, PutFile
<1>2. /\ files \in FileLists(Chars) /\ LeakInv /\ TextInv(Chars)
      /\ Len(held) < Len(files)
      /\ \A k \in DOMAIN files : files[k].spec \in DOMAIN json_dict =>
            Parsed(k) /\ Right(json_dict[files[k].spec], Object(k))
  BY <1>1 DEF CorpusInv
<1>3. Right(file, ret)
  BY <1>1, <1>2, ObjectRight DEF ObjectFiles
<1>4. /\ Len(held) \in Nat /\ Current = Len(held) + 1
      /\ \A k \in 1..Len(held) : Object(k) = held[k]
      /\ Object(Current) = ret
  BY <1>2, ObjectsAre
<1>5. /\ \A j, k \in DOMAIN files : files[j].spec = files[k].spec => j = k
      /\ Len(files) \in Nat /\ DOMAIN files = 1..Len(files)
      /\ \A k \in DOMAIN files : files[k].text \in Seq(Chars)
  <2> DEFINE R == [spec : Specs, text : Seq(Chars)]
  <2>1. files \in Seq(R) /\ \A j, k \in DOMAIN files : files[j].spec = files[k].spec => j = k
    BY <1>2 DEF FileLists
  <2>2. \A x \in R : x.text \in Seq(Chars)
    OBVIOUS
  <2> HIDE DEF R
  <2> QED
    BY <2>1, <2>2
<1>6. Current \in DOMAIN files /\ (Current < Len(files) => Current + 1 \in DOMAIN files)
  BY <1>2, <1>4, <1>5
<1>7. \A k \in DOMAIN files : files[k].spec \in DOMAIN json_dict => k < Current /\ k \in 1..Len(held)
  <2>1. \A k \in DOMAIN files : files[k].spec \in DOMAIN json_dict => k < Current
    BY <1>1, <1>2 DEF Parsed
  <2> QED
    BY <1>4, <1>5, <2>1
<1>8. \/ /\ Current < Len(files)
         /\ ParseAgain(files[Current + 1].text)
      \/ UNCHANGED parser_vars
  BY DEF init_json_dict
<1> HIDE DEF file
<1>9. (files \in FileLists(Chars))'
  BY <1>1, <1>2 DEF FileLists
<1>10. LeakInv' /\ TextInv(Chars)'
  <2>1. CASE /\ Current < Len(files)
             /\ ParseAgain(files[Current + 1].text)
    BY <1>2, <1>5, <1>6, <2>1, AgainKeeps, AgainSays
  <2>2. CASE UNCHANGED parser_vars
    BY <1>2, <2>2, StutterKeeps, StutterSays
  <2> QED
    BY <1>8, <2>1, <2>2
<1>11. /\ Len(held') \in Nat /\ Current' = Len(held') + 1
       /\ \A k \in 1..Len(held') : Object(k)' = held'[k]
  BY <1>10, ObjectsAreLater
<1>12. /\ Len(held') < Len(files)
       /\ \A k : k = Current => Parsed(k)' /\ Object(k)' = ret
       /\ \A k \in 1..Len(held) : Parsed(k)' /\ Object(k)' = Object(k)
  <2>1. CASE /\ Current < Len(files)
             /\ ParseAgain(files[Current + 1].text)
    <3> DEFINE h == held'
               n == Len(held)
               cur == Current'
    <3>1. h = Append(held, ret)
      BY <2>1 DEF ParseAgain
    <3>2. PICK U : held \in Seq(U) /\ ret \in U
      BY <1>2 DEF LeakInv, Accounted, Shape
    <3>3. Len(h) = n + 1 /\ h[n + 1] = ret /\ \A k \in 1..n : h[k] = held[k]
      <4> HIDE DEF h
      <4> QED
        BY <3>1, <3>2
    <3>4. cur = Len(h) + 1 /\ \A k \in 1..Len(h) : Object(k)' = h[k]
      BY <1>11
    <3>5. \A k : k < cur => Parsed(k)'
      BY DEF Parsed
    <3> HIDE DEF h, n, cur
    <3>6. n \in Nat /\ Current = n + 1 /\ \A k \in 1..n : Object(k) = held[k]
      BY <1>4 DEF n
    <3>7. Len(h) < Len(files) /\ Len(h) = n + 1 /\ cur = n + 2
      BY <2>1, <3>3, <3>4, <3>6
    <3>8. \A k : k = Current => Parsed(k)' /\ Object(k)' = ret
      BY <3>3, <3>4, <3>5, <3>6, <3>7
    <3>9. \A k \in 1..n : Parsed(k)' /\ Object(k)' = Object(k)
      BY <3>3, <3>4, <3>5, <3>6, <3>7
    <3> QED
      BY <3>7, <3>8, <3>9 DEF h, n
  <2>2. CASE UNCHANGED parser_vars
    <3>1. held' = held /\ ret' = ret /\ place' = place
      BY <2>2 DEF parser_vars, given
    <3>2. Current' = Current /\ \A k : Object(k)' = Object(k) /\ (Parsed(k)' <=> Parsed(k))
      BY <3>1 DEF Current, Object, Parsed
    <3>3. \A k \in 1..Len(held) : k < Current
      BY <1>4
    <3>4. \A k : k = Current => Parsed(k) /\ Object(k) = ret
      BY <1>1, <1>4 DEF Parsed
    <3>5. \A k \in 1..Len(held) : Parsed(k)
      BY <3>3 DEF Parsed
    <3> QED
      BY <1>2, <3>1, <3>2, <3>4, <3>5
  <2> QED
    BY <1>8, <2>1, <2>2
<1>13. ASSUME NEW k \in DOMAIN files, files[k].spec \in DOMAIN json_dict'
       PROVE  Parsed(k)' /\ Right(json_dict[files[k].spec], Object(k))'
  <2> DEFINE dict == json_dict'
             obj == Object(k)'
  <2>1. dict = [x \in DOMAIN json_dict \cup {s} |-> IF x = s THEN file ELSE json_dict[x]]
    BY <1>1 DEF With
  <2>2. Parsed(k)' /\ Right(dict[files[k].spec], obj)
    <3>1. CASE files[k].spec = s
      <4>1. k = Current
        BY <1>5, <1>6, <3>1
      <4>2. dict[files[k].spec] = file
        BY <2>1, <3>1
      <4> HIDE DEF dict, s
      <4> QED
        BY <1>3, <1>12, <4>1, <4>2
    <3>2. CASE files[k].spec # s
      <4>1. files[k].spec \in DOMAIN json_dict /\ dict[files[k].spec] = json_dict[files[k].spec]
        BY <1>13, <2>1, <3>2
      <4>2. Right(json_dict[files[k].spec], Object(k)) /\ k \in 1..Len(held)
        BY <1>2, <1>7, <4>1
      <4> HIDE DEF dict, s
      <4> QED
        BY <1>12, <4>1, <4>2
    <3> QED
      BY <3>1, <3>2
  <2>3. Right(json_dict[files[k].spec], Object(k))' = Right(dict[files[k].spec], obj)
    BY <1>1 DEF Right, KeysDiffer, StringsOf
  <2> HIDE DEF dict, obj
  <2> QED
    BY <2>2, <2>3
<1> QED
  BY <1>1, <1>9, <1>10, <1>12, <1>13 DEF CorpusInv

(* No other step changes what main.c has read.                             *)
LEMMA CorpusSteps ==
    ASSUME NEW Chars, Nul \notin Chars, CorpusInv(Chars), ObjectFiles, [CorpusNext]_corpus_vars
    PROVE  CorpusInv(Chars)'
<1>0. LeakInv /\ TextInv(Chars)
  BY DEF CorpusInv
<1>1. CASE ParseFile
  <2>1. Parse /\ files' = files /\ phase' = phase /\ json_dict' = json_dict
    BY <1>1 DEF ParseFile, vars
  <2>2. LeakInv' /\ TextInv(Chars)'
    BY <1>0, <2>1, ParseKeeps, ParseSays
  <2> QED
    BY <2>1, <2>2, ParseReads, FilesStay
<1>2. CASE init_json_dict
  BY <1>2, FilePut
<1>3. CASE UseFiles
  <2>1. UNCHANGED parser_vars /\ files' = files
    BY <1>3 DEF UseFiles
  <2>2. LeakInv' /\ TextInv(Chars)'
    BY <1>0, <2>1, StutterKeeps, StutterSays
  <2>3. held' = held /\ place' = place /\ ret' = ret
    BY <2>1 DEF parser_vars, given
  <2> QED
    BY <1>3, <2>1, <2>2, <2>3, UseReads, FilesStay
<1>4. CASE FreeFiles
  <2>1. FreeEntities /\ phase' = "done" /\ files' = files
    BY <1>4 DEF FreeFiles, vars
  <2>2. LeakInv' /\ TextInv(Chars)'
    BY <1>0, <2>1, FreeKeeps, FreeSays
  <2>3. files \in FileLists(Chars)
    BY DEF CorpusInv
  <2>4. (files \in FileLists(Chars))'
    BY <2>1, <2>3 DEF FileLists
  <2> QED
    BY <2>1, <2>2, <2>4 DEF CorpusInv
<1>5. CASE UNCHANGED corpus_vars
  <2>1. UNCHANGED parser_vars /\ files' = files /\ phase' = phase /\ json_dict' = json_dict
    BY <1>5 DEF corpus_vars, vars
  <2>2. LeakInv' /\ TextInv(Chars)'
    BY <1>0, <2>1, StutterKeeps, StutterSays
  <2>3. held' = held /\ place' = place /\ ret' = ret
    BY <2>1 DEF parser_vars, given
  <2> QED
    BY <2>1, <2>2, <2>3, FilesStay
<1> QED
  BY <1>1, <1>2, <1>3, <1>4, <1>5 DEF CorpusNext

(* The hits at the position of a word are the occurrences of that word.    *)
LEMMA HitsOfWord ==
    ASSUME NEW dict, Numbers(dict, DOMAIN dict), NEW w \in DOMAIN dict, NEW file
    PROVE  /\ dict[w].position \in 0..(Cardinality(DOMAIN dict) - 1)
           /\ Hits(dict, file, {dict[w].position}) = Tally({w}, file.all)
<1>1. \A v \in DOMAIN dict : dict[v].position = dict[w].position => v = w
  BY DEF Numbers
<1>2. {k \in DOMAIN file.all :
          file.all[k] \in DOMAIN dict /\ dict[file.all[k]].position \in {dict[w].position}}
      = {k \in DOMAIN file.all : file.all[k] \in {w}}
  BY <1>1
<1> QED
  BY <1>2 DEF Hits, Tally, Numbers

(* Vectors of files with the right words count them.                       *)
LEMMA VectorsRight ==
    ASSUME NEW Chars, CorpusInv(Chars), PositionInv, ExportInv
    PROVE  VectorsCountWords
<1> SUFFICES ASSUME phase \in {"export", "user"},
                    NEW k \in DOMAIN files, NEW w \in DOMAIN vocabulary, KeysDiffer(Object(k))
             PROVE  vectors[files[k].spec][vocabulary[w].position].n
                        = Cardinality(Occurrences(StringsOf(Object(k)), w))
  BY DEF VectorsCountWords
<1> DEFINE s == files[k].spec
           file == json_dict[s]
           p == vocabulary[w].position
<1>1. s \in Specs
  <2> DEFINE R == [spec : Specs, text : Seq(Chars)]
  <2>1. files \in Seq(R)
    BY DEF CorpusInv, FileLists
  <2>2. \A x \in R : x.spec \in Specs
    OBVIOUS
  <2> HIDE DEF R
  <2> QED
    BY <2>1, <2>2
<1>2. DOMAIN json_dict = Specs
  BY DEF PositionInv, VocabularyTypes
<1>3. Right(file, Object(k))
  BY <1>1, <1>2 DEF CorpusInv
<1>4. Tally({w}, file.all) = Cardinality(Occurrences(StringsOf(Object(k)), w))
  BY <1>3 DEF Right
<1>5. Numbers(vocabulary, DOMAIN vocabulary)
  BY DEF PositionInv, Numbered
<1>6. vectors[s] = Vector(vocabulary, file, tfidf)
  BY <1>1 DEF ExportInv
<1>7. p \in 0..(Cardinality(DOMAIN vocabulary) - 1) /\ Hits(vocabulary, file, {p}) = Tally({w}, file.all)
  BY <1>5, HitsOfWord
<1>8. vectors[s][p].n = Hits(vocabulary, file, {p})
  BY <1>6, <1>7, VectorCounts
<1> QED
  BY <1>4, <1>7, <1>8

-----------------------------------------------------------------------------
(* Whatever files of different specs main.c is given, objects without a NUL *)
(* character: the vector of each file counts the words of its strings, at   *)
(* the positions of the vocabulary.                                         *)
THEOREM CorpusCountsWords ==
    ASSUME NEW Chars, Nul \notin Chars, NEW corpora \in SUBSET FileLists(Chars)
    PROVE  CorpusSpec(corpora) /\ []Known /\ []ObjectFiles => []VectorsCountWords
<1>1. InitCorpus(corpora) => CorpusInv(Chars)
  BY CorpusInit
<1>2. CorpusInv(Chars) /\ ObjectFiles /\ [CorpusNext]_corpus_vars => CorpusInv(Chars)'
  BY CorpusSteps
<1>3. CorpusInv(Chars) /\ PositionInv /\ UserInv => VectorsCountWords
  BY VectorsRight DEF UserInv
<1>4. CorpusSpec(corpora) /\ []Known => Spec
  BY CorpusImplementsVocabulary
<1>5. CorpusSpec(corpora) /\ []ObjectFiles => []CorpusInv(Chars)
  BY <1>1, <1>2, PTL DEF CorpusSpec
<1>6. Spec => []PositionInv /\ []UserInv
  BY PositionInit, PositionNext, UserInit, UserNext, PTL DEF Spec
<1> QED
  BY <1>3, <1>4, <1>5, <1>6, PTL
==============================================================================
