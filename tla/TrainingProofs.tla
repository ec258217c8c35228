---------------------------- MODULE TrainingProofs ----------------------------
(***************************************************************************)
(* Proofs about Training.tla, for any numbers of pairs, any random number, *)
(* any losses, epochs and batch size: the numbers drawn, the merged sets,  *)
(* and the copy of the model that is kept.                                 *)
(***************************************************************************)
EXTENDS Training, TLAPS

-----------------------------------------------------------------------------
(* Arithmetic of the shares and the batches. *)

(* A half and its double differ by one at most. *)
LEMMA Halves ==
    ASSUME NEW m \in Nat
    PROVE  m \div 2 \in 0..m /\ m - 2 * (m \div 2) \in 0..1
OBVIOUS

(* A share is a part of the pairs, and the three leave out one at most. *)
LEMMA ShareFits ==
    ASSUME NEW n \in Nat
    PROVE  /\ \A s \in SetNames : Share(n, s) \in 0..n
           /\ Share(n, "train") = TrainSize(n)
           /\ n - (Share(n, "train") + Share(n, "test") + Share(n, "val")) \in 0..1
<1>1. TrainSize(n) \in 0..n
  BY DEF TrainSize
<1>2. Share(n, "train") = TrainSize(n)
  BY DEF Share
<1>3. ASSUME NEW s \in SetNames, s # "train"
      PROVE  /\ Share(n, s) \in 0..n
             /\ n - TrainSize(n) - 2 * Share(n, s) \in 0..1
  <2>1. Share(n, s) = (n - TrainSize(n)) \div 2
    BY <1>3 DEF Share
  <2>2. n - TrainSize(n) \in Nat
    BY <1>1
  <2>3. /\ Share(n, s) \in 0..(n - TrainSize(n))
        /\ n - TrainSize(n) - 2 * Share(n, s) \in 0..1
    BY <2>1, <2>2, Halves
  <2> QED
    BY <1>1, <2>3
<1>4. Share(n, "test") = Share(n, "val")
  BY DEF Share
<1>5. "test" \in SetNames /\ "val" \in SetNames /\ "test" # "train" /\ "val" # "train"
  BY DEF SetNames
<1>6. /\ Share(n, "test") \in Nat
      /\ n - TrainSize(n) - 2 * Share(n, "test") \in 0..1
  BY <1>3, <1>5
<1>7. n - (Share(n, "train") + Share(n, "test") + Share(n, "val")) \in 0..1
  BY <1>1, <1>2, <1>4, <1>6
<1> QED
  BY <1>1, <1>2, <1>3, <1>7

(* Whole batches do not need more rows than there are. *)
LEMMA BatchesFit ==
    ASSUME NEW a \in Nat, NEW b \in Nat \ {0}
    PROVE  a \div b \in Nat /\ (a \div b) * b =< a
OBVIOUS

(* A row of one of the batches is one of all their rows. *)
LEMMA RowsFit ==
    ASSUME NEW q \in Nat, NEW b \in Nat \ {0}, NEW x \in 0..(q - 1), NEW y \in 0..b
    PROVE  x * b + y =< q * b /\ (x + 1) * b + 0 = x * b + b
OBVIOUS

-----------------------------------------------------------------------------
(* The numbers of unique_rand.c *)

\* f gives each of the numbers below n to one of the places below n.
Permutation(f, n) ==
    /\ f \in [0..(n - 1) -> 0..(n - 1)]
    /\ \A x, y \in 0..(n - 1) : f[x] = f[y] => x = y
    /\ \A y \in 0..(n - 1) : \E x \in 0..(n - 1) : f[x] = y

(* To swap two places keeps a permutation and changes these two alone. *)
LEMMA SwapPermutes ==
    ASSUME NEW n \in Nat, NEW f, Permutation(f, n),
           NEW a \in 0..(n - 1), NEW b \in 0..(n - 1)
    PROVE  /\ Permutation(Swap(f, a, b), n)
           /\ \A k \in 0..(n - 1) : k # a /\ k # b => Swap(f, a, b)[k] = f[k]
<1>1. f \in [0..(n - 1) -> 0..(n - 1)]
  BY DEF Permutation
<1>2. \A k \in 0..(n - 1) :
         Swap(f, a, b)[k] = IF k = b THEN f[a] ELSE IF k = a THEN f[b] ELSE f[k]
  BY <1>1 DEF Swap
<1>3. Swap(f, a, b) \in [0..(n - 1) -> 0..(n - 1)]
  BY <1>1 DEF Swap
<1>4. \A x, y \in 0..(n - 1) : Swap(f, a, b)[x] = Swap(f, a, b)[y] => x = y
  BY <1>2 DEF Permutation
<1>5. ASSUME NEW y \in 0..(n - 1)
      PROVE  \E x \in 0..(n - 1) : Swap(f, a, b)[x] = y
  <2>1. PICK x \in 0..(n - 1) : f[x] = y
    BY DEF Permutation
  <2>2. CASE x = a
    BY <2>1, <2>2, <1>2
  <2>3. CASE x = b
    <3>1. Swap(f, a, b)[a] = f[b]
      BY <1>2
    <3> QED
      BY <2>1, <2>3, <3>1
  <2>4. CASE x # a /\ x # b
    BY <2>1, <2>4, <1>2
  <2> QED
    BY <2>2, <2>3, <2>4
<1> QED
  BY <1>2, <1>3, <1>4, <1>5 DEF Permutation

\* u gives the numbers from 0 to n - 1, and has given d, which lie behind the
\* places still in use, the first of them last.
Drawing(u, n, d) ==
    /\ u = [min |-> 0, max |-> n - 1, length |-> n - Len(d), values |-> u.values]
    /\ n \in Nat \ {0} /\ Permutation(u.values, n)
    /\ d \in Seq(Int) /\ Len(d) \in 0..n
    /\ \A x \in 1..Len(d) : d[x] = u.values[n - x]

Redraw(u, l, f) == [u EXCEPT !.length = l, !.values = f]

(* A new length and new values leave the range of an object alone. *)
LEMMA Redrawn ==
    ASSUME NEW u, NEW a, NEW b, NEW c, NEW w, NEW l, NEW f,
           u = [min |-> a, max |-> b, length |-> c, values |-> w]
    PROVE  Redraw(u, l, f)
             = [min |-> a, max |-> b, length |-> l, values |-> f]
<1> DEFINE v == [u EXCEPT !.length = l, !.values = f]
<1>1. u \in [min : {a}, max : {b}, length : {c}, values : {w}]
  OBVIOUS
<1>2. v \in [min : {a}, max : {b}, length : {l}, values : {f}]
  BY <1>1
<1> HIDE DEF v
<1>3. v = [min |-> a, max |-> b, length |-> l, values |-> f]
  BY <1>2
<1> QED
  BY <1>3, Zenon DEF v, Redraw

(* A new object has given nothing. *)
LEMMA NewDrawing ==
    ASSUME NEW n \in Nat \ {0}
    PROVE  Drawing(ur_create(0, n - 1), n, <<>>)
<1> DEFINE f == [x \in 0..((n - 1) - 0) |-> x + 0]
<1>1. Permutation(f, n)
  BY DEF Permutation
<1>2. ur_create(0, n - 1) = [min |-> 0, max |-> n - 1, length |-> n, values |-> f]
  BY DEF ur_create
<1> HIDE DEF f
<1> QED
  BY <1>1, <1>2 DEF Drawing

(* Nor has one that is reset. *)
LEMMA ResetDrawing ==
    ASSUME NEW u, NEW n, NEW d, Drawing(u, n, d)
    PROVE  Drawing(ur_reset(u), n, <<>>)
<1> DEFINE f == [x \in 0..((n - 1) - 0) |-> 0 + x]
<1>1. n \in Nat /\ u = [min |-> 0, max |-> n - 1, length |-> n - Len(d), values |-> u.values]
  BY DEF Drawing
<1>2. Permutation(f, n)
  BY <1>1 DEF Permutation
<1>3. u.min = 0 /\ u.max = n - 1
  BY <1>1
<1> DEFINE top == n - 1
           l == top - 0 + 1
           c == n - Len(d)
<1>4. ur_reset(u) = Redraw(u, l, f)
  BY <1>3, Zenon DEF ur_reset, Redraw
<1>5. u = [min |-> 0, max |-> top, length |-> c, values |-> u.values]
  BY <1>1
<1>6. l = n
  BY <1>1
<1> HIDE DEF f, top, l, c
<1>7. ur_reset(u) = [min |-> 0, max |-> top, length |-> n, values |-> f]
  BY <1>4, <1>5, <1>6, Redrawn
<1> QED
  BY <1>1, <1>2, <1>7 DEF Drawing, top

(* ur_get gives the last number in use of the swapped ones, and those that *)
(* it gave before stay where they are.                                     *)
LEMMA GetDraws ==
    ASSUME NEW u, NEW n, NEW d, Drawing(u, n, d), Len(d) < n, NEW r \in Nat
    PROVE  LET g == ur_get(u, r)
           IN  /\ Drawing(g.ur, n, Append(d, g.number))
               /\ g.number \in 0..(n - 1)
<1> DEFINE m == n - Len(d)
           k == r % m
           v == Swap(u.values, k, m - 1)
           g == ur_get(u, r)
<1>1. /\ n \in Nat /\ d \in Seq(Int) /\ Len(d) \in 0..n /\ Permutation(u.values, n)
      /\ u = [min |-> 0, max |-> n - 1, length |-> m, values |-> u.values]
  BY DEF Drawing
<1>2. m \in 1..n /\ m - 1 \in 0..(n - 1)
  BY <1>1
<1>3. u.length = m /\ m > 0
  BY <1>1, <1>2
<1>4. g = [ur |-> [u EXCEPT !.length = m - 1, !.values = v], number |-> v[m - 1]]
  BY <1>3, Zenon DEF ur_get
<1>5. [u EXCEPT !.length = m - 1, !.values = v]
        = [min |-> 0, max |-> n - 1, length |-> m - 1, values |-> v]
  <2> DEFINE top == n - 1
             l == m - 1
  <2>1. u = [min |-> 0, max |-> top, length |-> m, values |-> u.values]
    BY <1>1
  <2> HIDE DEF top, l, m, v
  <2>2. Redraw(u, l, v) = [min |-> 0, max |-> top, length |-> l, values |-> v]
    BY <2>1, Redrawn
  <2> QED
    BY <2>2, Zenon DEF top, l, Redraw
<1>6. k \in 0..(m - 1)
  <2> HIDE DEF m
  <2> QED BY <1>2
<1> HIDE DEF k
<1>7. k \in 0..(n - 1)
  <2>1. n \in Nat
    BY <1>1
  <2> QED
    BY <2>1, <1>2, <1>6
<1> HIDE DEF m
<1>8. /\ Permutation(v, n)
      /\ \A x \in 0..(n - 1) : x # k /\ x # m - 1 => v[x] = u.values[x]
  BY <1>1, <1>2, <1>7, SwapPermutes
<1> HIDE DEF v, g
<1>9. v[m - 1] \in 0..(n - 1)
  BY <1>2, <1>8 DEF Permutation
<1>10. m = n - Len(d)
  BY DEF m
<1>11. DEFINE c == Append(d, v[m - 1])
<1>12. /\ c \in Seq(Int) /\ Len(c) = Len(d) + 1 /\ c[Len(d) + 1] = v[m - 1]
       /\ \A x \in 1..Len(d) : c[x] = d[x]
  BY <1>1, <1>9
<1> HIDE DEF c
<1>13. ASSUME NEW x \in 1..Len(c)
       PROVE  c[x] = v[n - x]
  <2>1. CASE x = Len(d) + 1
    <3>1. n - x = m - 1
      BY <2>1, <1>10, <1>1
    <3> QED
      BY <2>1, <3>1, <1>12
  <2>2. CASE x \in 1..Len(d)
    <3>1. n - x \in 0..(n - 1) /\ n - x > m - 1 /\ n - x # k /\ n - x # m - 1
      BY <2>2, <1>1, <1>2, <1>6, <1>10
    <3>2. v[n - x] = u.values[n - x]
      BY <3>1, <1>8
    <3>3. d[x] = u.values[n - x]
      BY <2>2 DEF Drawing
    <3> QED
      BY <2>2, <3>2, <3>3, <1>12
  <2> QED
    BY <2>1, <2>2, <1>1, <1>12
<1>14. Len(c) \in 0..n /\ n - Len(c) = m - 1
  BY <1>1, <1>12, <1>10
<1>15. DEFINE w == [min |-> 0, max |-> n - 1, length |-> m - 1, values |-> v]
<1>16. w.values = v
  BY DEF w
<1>17. w = [min |-> 0, max |-> n - 1, length |-> n - Len(c), values |-> w.values]
  BY <1>14, <1>16 DEF w
<1> HIDE DEF w
<1>18. Drawing(w, n, c)
  BY <1>1, <1>8, <1>12, <1>13, <1>14, <1>16, <1>17 DEF Drawing
<1>19. g.ur = w /\ g.number = v[m - 1]
  BY <1>4, <1>5 DEF w
<1> QED
  BY <1>9, <1>18, <1>19 DEF c, g

(* What has been given is given once, in the range, and in the end is all. *)
LEMMA DrawnOnce ==
    ASSUME NEW u, NEW n, NEW d, Drawing(u, n, d)
    PROVE  /\ \A x, y \in 1..Len(d) : x # y => d[x] # d[y]
           /\ \A x \in 1..Len(d) : d[x] \in 0..(n - 1)
           /\ u.min = 0 /\ u.max = n - 1
           /\ Len(d) = n => \A y \in 0..(n - 1) : \E x \in 1..Len(d) : d[x] = y
<1>1. /\ n \in Nat /\ Len(d) \in 0..n /\ Permutation(u.values, n)
      /\ \A x \in 1..Len(d) : d[x] = u.values[n - x]
      /\ u = [min |-> 0, max |-> n - 1, length |-> n - Len(d), values |-> u.values]
  BY DEF Drawing
<1>2. \A x \in 1..Len(d) : n - x \in 0..(n - 1)
  BY <1>1
<1>3. \A x, y \in 1..Len(d) : x # y => d[x] # d[y]
  <2> SUFFICES ASSUME NEW x \in 1..Len(d), NEW y \in 1..Len(d), d[x] = d[y]
               PROVE  x = y
    OBVIOUS
  <2>1. n - x = n - y
    BY <1>1, <1>2 DEF Permutation
  <2> QED
    BY <2>1, <1>1
<1>4. \A x \in 1..Len(d) : d[x] \in 0..(n - 1)
  BY <1>1, <1>2 DEF Permutation
<1>5. ASSUME Len(d) = n, NEW y \in 0..(n - 1)
      PROVE  \E x \in 1..Len(d) : d[x] = y
  <2>1. PICK z \in 0..(n - 1) : u.values[z] = y
    BY <1>1 DEF Permutation
  <2>2. n - z \in 1..Len(d) /\ n - (n - z) = z
    BY <1>1, <1>5
  <2>3. d[n - z] = y
    BY <2>1, <2>2, <1>1
  <2> QED
    BY <2>2, <2>3
<1>6. u.min = 0 /\ u.max = n - 1
  BY <1>1
<1> QED
  BY <1>3, <1>4, <1>5, <1>6

-----------------------------------------------------------------------------
(* The numbers drawn *)

DataOK == <<similar_sz, different_sz>> \in Sizes /\ rand \in Rands

\* The set that the numbers are drawn for.
Turn == IF pc = "merge" THEN which ELSE "train"

\* The object goes with the set; i, and j and i, count what it has given.
Draws ==
    /\ which \in SetNames
    /\ pc \in {"merge", "train", "free", "done", "aborted"}
    /\ j \in Nat /\ i \in Nat
    /\ pc = "merge" => j = 0 /\ i = Len(drawn)
    /\ pc = "train" => /\ j \in 0..Batches /\ i \in 0..batch_size
                       /\ j = Batches => i = 0
                       /\ Len(drawn) = j * batch_size + i
    /\ IF ur = NoUR THEN drawn = <<>> ELSE Drawing(ur, SetSize(Turn), drawn)

DrawInv == DataOK /\ Draws

(* The sizes of the sets, which no step changes. *)
LEMMA SizesFit ==
    ASSUME DataOK
    PROVE  /\ similar_sz \in Nat /\ different_sz \in Nat /\ rand \in Nat
           /\ \A s \in SetNames : /\ Share(similar_sz, s) \in 0..similar_sz
                                   /\ Share(different_sz, s) \in 0..different_sz
                                   /\ SetSize(s) \in 0..(similar_sz + different_sz)
           /\ Batches \in Nat /\ Batches * batch_size =< SetSize("train")
<1>1. similar_sz \in Nat /\ different_sz \in Nat /\ rand \in Nat
  BY TrainingAssumption DEF DataOK
<1>2. \A s \in SetNames : /\ Share(similar_sz, s) \in 0..similar_sz
                          /\ Share(different_sz, s) \in 0..different_sz
  BY <1>1, ShareFits
<1>3. \A s \in SetNames : SetSize(s) \in 0..(similar_sz + different_sz)
  BY <1>1, <1>2 DEF SetSize
<1>4. SetSize("train") \in Nat
  BY <1>1, <1>3 DEF SetNames
<1>5. Batches \in Nat /\ Batches * batch_size =< SetSize("train")
  BY <1>4, BatchesFit, TrainingAssumption DEF Batches
<1> QED
  BY <1>1, <1>2, <1>3, <1>5

(* An object in use is not the missing one. *)
LEMMA DrawingIsThere ==
    ASSUME DataOK, NEW s \in SetNames, NEW u, NEW d, Drawing(u, SetSize(s), d)
    PROVE  u # NoUR
<1> DEFINE n == SetSize(s)
           top == similar_sz + different_sz
<1>1. n \in 0..top /\ top \in Nat
  BY SizesFit
<1>2. NoUR \notin URands(top)
  BY TrainingAssumption DEF DataOK
<1>3. /\ u = [min |-> 0, max |-> n - 1, length |-> n - Len(d), values |-> u.values]
      /\ Permutation(u.values, n) /\ Len(d) \in 0..n
  BY DEF Drawing
<1>4. u.values \in [0..(n - 1) -> 0..(n - 1)]
  BY <1>3 DEF Permutation
<1> HIDE DEF n, top
<1>5. n > 0
  BY <1>1 DEF Drawing, n
<1>6. n - 1 \in 0..top /\ n - Len(d) \in 0..(top + 1)
  BY <1>1, <1>3, <1>5
<1>7. u.values \in UNION {[0..m -> 0..m] : m \in 0..top}
  BY <1>6, <1>4
<1>8. u \in URands(top)
  BY <1>6, <1>7, <1>3 DEF URands
<1> QED
  BY <1>2, <1>8

(* The pairs, the random number and with them the sizes stay. *)
LEMMA DataKept ==
    ASSUME DataOK, UNCHANGED data
    PROVE  /\ DataOK' /\ similar_sz' = similar_sz /\ different_sz' = different_sz
           /\ \A s \in SetNames : SetSize(s)' = SetSize(s)
           /\ Batches' = Batches
<1>1. similar_sz' = similar_sz /\ different_sz' = different_sz /\ rand' = rand
  BY DEF data
<1>2. \A s : SetSize(s)' = SetSize(s)
  BY <1>1 DEF SetSize
<1> QED
  BY <1>1, <1>2 DEF DataOK, Batches

(* Every step keeps the data. *)
LEMMA DataSteps == [Next]_vars => UNCHANGED data
BY DEF Next, vars, MergeBegin, MergePut, MergeEnd, TrainBegin, DrawRow, lr_train, EpochEnd,
   FreeModels

(* ur_create makes an object for a set of two or more, or the program ends. *)
LEMMA CreateDraws ==
    ASSUME DataOK, NEW s \in SetNames, Create(SetSize(s) - 1)
    PROVE  \/ pc' = pc /\ drawn' = <<>> /\ Drawing(ur', SetSize(s), drawn')
           \/ pc' = "aborted" /\ UNCHANGED <<ur, drawn>>
<1>1. SetSize(s) \in Nat
  BY SizesFit
<1>2. CASE SetSize(s) - 1 > 0
  <2>1. ur' = ur_create(0, SetSize(s) - 1) /\ drawn' = <<>> /\ pc' = pc
    BY <1>2, Zenon DEF Create
  <2>2. SetSize(s) \in Nat \ {0}
    BY <1>1, <1>2
  <2>3. Drawing(ur_create(0, SetSize(s) - 1), SetSize(s), <<>>)
    BY <2>2, NewDrawing
  <2> QED
    BY <2>1, <2>3, Zenon
<1>3. CASE ~(SetSize(s) - 1 > 0)
  BY <1>3, Zenon DEF Create
<1> QED
  BY <1>2, <1>3

(* ur_get draws one number more, which is within the set. *)
LEMMA GetDrawsOne ==
    ASSUME DataOK, NEW s \in SetNames, Drawing(ur, SetSize(s), drawn),
           Len(drawn) < SetSize(s), Get
    PROVE  /\ Drawing(ur', SetSize(s), drawn')
           /\ drawn \in Seq(Int) /\ Len(drawn) \in Nat
           /\ drawn' = Append(drawn, ur_get(ur, rand).number)
           /\ ur_get(ur, rand).number \in 0..(SetSize(s) - 1)
           /\ Len(drawn') = Len(drawn) + 1
<1>1. ur' = ur_get(ur, rand).ur /\ drawn' = Append(drawn, ur_get(ur, rand).number)
  BY Zenon DEF Get
<1>2. rand \in Nat
  BY SizesFit
<1>3. /\ Drawing(ur_get(ur, rand).ur, SetSize(s), Append(drawn, ur_get(ur, rand).number))
      /\ ur_get(ur, rand).number \in 0..(SetSize(s) - 1)
  BY <1>2, GetDraws
<1>4. drawn \in Seq(Int) /\ Len(drawn) \in Nat
  BY DEF Drawing
<1>5. Len(Append(drawn, ur_get(ur, rand).number)) = Len(drawn) + 1
  BY <1>4
<1> QED
  BY <1>1, <1>3, <1>4, <1>5

(* Every step keeps the account of the numbers drawn. *)
LEMMA DrawsNext == DrawInv /\ [Next]_vars => DrawInv'
<1> SUFFICES ASSUME DrawInv, [Next]_vars
             PROVE  Draws'
  BY DataSteps, DataKept DEF DrawInv
<1>a. DataOK /\ UNCHANGED data /\ Draws
  BY DataSteps DEF DrawInv
<1>b. Batches' = Batches /\ \A s \in SetNames : SetSize(s)' = SetSize(s)
  BY <1>a, DataKept
<1>c. /\ Batches \in Nat /\ batch_size \in Nat \ {0}
      /\ Batches * batch_size =< SetSize("train")
      /\ \A s \in SetNames : SetSize(s) \in Nat
  BY <1>a, SizesFit, TrainingAssumption
<1>d. Turn \in SetNames
  BY <1>a DEF Draws, Turn, SetNames
<1>1. CASE MergeBegin
  <2>1. /\ pc = "merge" /\ ur = NoUR /\ which' = which /\ i' = i /\ j' = j
        /\ Create(SetSize(which) - 1) /\ which \in SetNames /\ drawn = <<>> /\ i = 0 /\ j = 0
    BY <1>1, <1>a DEF MergeBegin, Draws, merge
  <2>2. CASE pc' = pc /\ drawn' = <<>> /\ Drawing(ur', SetSize(which), drawn')
    <3>1. Turn' = which /\ SetSize(which') = SetSize(which)
      BY <2>1, <2>2 DEF Turn
    <3>2. SetSize(Turn)' = SetSize(which)
      BY <3>1, <2>1, <1>b
    <3> QED
      BY <2>1, <2>2, <3>2 DEF Draws
  <2>3. CASE pc' = "aborted" /\ UNCHANGED <<ur, drawn>>
    BY <2>1, <2>3 DEF Draws
  <2> QED
    BY <2>1, <2>2, <2>3, <1>a, CreateDraws
<1>2. CASE MergePut
  <2>1. /\ pc = "merge" /\ ur # NoUR /\ i < SetSize(which) /\ Get /\ i' = i + 1
        /\ pc' = pc /\ which' = which /\ j' = j /\ which \in SetNames
        /\ i = Len(drawn) /\ j = 0 /\ Drawing(ur, SetSize(which), drawn)
    BY <1>2, <1>a DEF MergePut, Draws, Turn
  <2>2. Drawing(ur', SetSize(which), drawn') /\ Len(drawn') = i + 1 /\ i \in Nat
    BY <2>1, <1>a, GetDrawsOne
  <2>3. SetSize(Turn)' = SetSize(which)
    BY <2>1, <1>b DEF Turn
  <2>4. ur' # NoUR
    BY <2>1, <2>2, <1>a, DrawingIsThere
  <2> QED
    BY <2>1, <2>2, <2>3, <2>4 DEF Draws
<1>3. CASE MergeEnd
  <2>1. /\ ur' = NoUR /\ drawn' = <<>> /\ i' = 0 /\ j' = j /\ j = 0
        /\ \/ pc' = "train" /\ which' = which
           \/ pc' = "merge" /\ which' \in SetNames
    BY <1>3, <1>a DEF MergeEnd, Draws, After, SetNames
  <2>2. which \in SetNames /\ 0 * batch_size + 0 = 0 /\ Len(drawn') = 0
    BY <1>a, <1>c, <2>1 DEF Draws
  <2> QED
    BY <2>1, <2>2, <1>b, <1>c DEF Draws
<1>4. CASE TrainBegin
  <2>1. /\ pc = "train" /\ ur = NoUR /\ which' = which /\ i' = i /\ j' = j
        /\ Create(SetSize("train") - 1) /\ "train" \in SetNames /\ drawn = <<>>
        /\ which \in SetNames /\ i \in Nat /\ j \in Nat
    BY <1>4, <1>a DEF TrainBegin, Draws, merge, SetNames
  <2>2. CASE pc' = pc /\ drawn' = <<>> /\ Drawing(ur', SetSize("train"), drawn')
    <3>1. SetSize(Turn)' = SetSize("train")
      BY <2>1, <2>2, <1>b DEF Turn
    <3> QED
      BY <2>1, <2>2, <3>1, <1>a, <1>b DEF Draws
  <2>3. CASE pc' = "aborted" /\ UNCHANGED <<ur, drawn>>
    BY <2>1, <2>3 DEF Draws
  <2> QED
    BY <2>1, <2>2, <2>3, <1>a, CreateDraws
<1>5. CASE DrawRow
  <2>1. /\ pc = "train" /\ ur # NoUR /\ j < Batches /\ i < batch_size /\ Get /\ i' = i + 1
        /\ pc' = pc /\ which' = which /\ j' = j /\ which \in SetNames /\ j \in Nat /\ i \in Nat
        /\ Len(drawn) = j * batch_size + i /\ Drawing(ur, SetSize("train"), drawn)
    BY <1>5, <1>a DEF DrawRow, Draws, Turn, merge
  <2>2. j * batch_size + (i + 1) =< Batches * batch_size
    <3>1. j \in 0..(Batches - 1) /\ i + 1 \in 0..batch_size
      BY <2>1, <1>c
    <3> QED
      BY <3>1, <1>c, RowsFit
  <2>3. /\ Len(drawn) \in Nat /\ Len(drawn) < SetSize("train")
        /\ Len(drawn) + 1 = j * batch_size + (i + 1) /\ "train" \in SetNames
    BY <2>1, <2>2, <1>c DEF Drawing, SetNames
  <2>4. Drawing(ur', SetSize("train"), drawn') /\ Len(drawn') = Len(drawn) + 1
    BY <2>1, <2>3, <1>a, GetDrawsOne
  <2>5. SetSize(Turn)' = SetSize("train")
    BY <2>1, <2>3, <1>b DEF Turn
  <2>6. ur' # NoUR
    BY <2>3, <2>4, <1>a, DrawingIsThere
  <2>7. i' \in 0..batch_size /\ j' \in 0..Batches /\ j' # Batches /\ i' \in Nat
    BY <2>1, <1>c
  <2>8. Len(drawn') = j' * batch_size + i'
    BY <2>1, <2>3, <2>4
  <2> QED
    BY <2>1, <2>4, <2>5, <2>6, <2>7, <2>8, <1>b DEF Draws
<1>6. CASE lr_train
  <2>1. /\ pc = "train" /\ ur # NoUR /\ j < Batches /\ i = batch_size /\ i' = 0 /\ j' = j + 1
        /\ UNCHANGED <<pc, which, ur, drawn>> /\ which \in SetNames /\ j \in Nat
        /\ Len(drawn) = j * batch_size + i /\ Drawing(ur, SetSize("train"), drawn)
    BY <1>6, <1>a DEF lr_train, Draws, Turn, merge
  <2>2. (j + 1) * batch_size + 0 = j * batch_size + batch_size
    <3>1. j \in 0..(Batches - 1) /\ 0 \in 0..batch_size
      BY <2>1, <1>c
    <3> QED
      BY <3>1, <1>c, RowsFit
  <2>3. SetSize(Turn)' = SetSize("train")
    BY <2>1, <1>b DEF Turn, SetNames
  <2>4. Len(drawn') = j' * batch_size + i'
    BY <2>1, <2>2
  <2>5. j' \in 0..Batches /\ i' \in 0..batch_size /\ j' \in Nat /\ i' = 0
    BY <2>1, <1>c
  <2> QED
    BY <2>1, <2>3, <2>4, <2>5, <1>b DEF Draws
<1>7. CASE EpochEnd
  <2>1. /\ pc = "train" /\ ur # NoUR /\ i = 0 /\ i' = 0 /\ j' = 0 /\ which' = which
        /\ which \in SetNames /\ Drawing(ur, SetSize("train"), drawn)
        /\ \/ pc' = "free" /\ UNCHANGED <<ur, drawn>>
           \/ pc' \in {"free", "train"} /\ ur' = ur_reset(ur) /\ drawn' = <<>>
    BY <1>7, <1>a DEF EpochEnd, Draws, Turn, merge
  <2>2. Drawing(ur', SetSize("train"), drawn') /\ pc' \in {"free", "train"}
    BY <2>1, ResetDrawing
  <2>3. SetSize(Turn)' = SetSize("train")
    BY <2>2, <1>b DEF Turn, SetNames
  <2>4. pc' = "train" => Len(drawn') = j' * batch_size + i'
    BY <2>1, <1>c
  <2> QED
    BY <2>1, <2>2, <2>3, <2>4, <1>b, <1>c DEF Draws
<1>8. CASE FreeModels
  BY <1>8, <1>a DEF FreeModels, Draws, merge
<1>9. CASE UNCHANGED vars
  <2>1. UNCHANGED <<pc, i, ur, drawn, j, which>>
    BY <1>9 DEF vars, merge
  <2>2. Turn' = Turn
    BY <2>1 DEF Turn
  <2>3. SetSize(Turn)' = SetSize(Turn)
    BY <2>2, <1>b, <1>d
  <2> QED
    BY <2>1, <2>3, <1>a, <1>b DEF Draws
<1> QED
  BY <1>1, <1>2, <1>3, <1>4, <1>5, <1>6, <1>7, <1>8, <1>9, Zenon DEF Next

(* The account holds from the start. *)
LEMMA DrawInvHolds == Spec => []DrawInv
<1>1. split => DrawInv
  <2> SUFFICES ASSUME split
               PROVE  DrawInv
    OBVIOUS
  <2>1. DataOK
    <3>1. PICK p \in Sizes : similar_sz = p[1] /\ different_sz = p[2]
      BY DEF split
    <3>2. p = <<p[1], p[2]>>
      BY <3>1, TrainingAssumption
    <3> QED
      BY <3>1, <3>2 DEF split, DataOK
  <2>2. Draws
    BY DEF split, Draws, SetNames
  <2> QED
    BY <2>1, <2>2 DEF DrawInv
<1> QED
  BY <1>1, DrawsNext, PTL DEF Spec

(* No number comes out of ur_get twice before a reset and none outside its *)
(* range: each place of a merged set is written once, and no pair is in    *)
(* two rows of the batches of an epoch, whatever the sizes, the random     *)
(* number and the batch size are (unique_rand.c:45-56, main.c:304-402).    *)
THEOREM UniqueDraws == Spec => []DrawsUnique
<1>1. DrawInv => DrawsUnique
  <2> SUFFICES ASSUME DrawInv
               PROVE  DrawsUnique
    OBVIOUS
  <2>1. CASE ur = NoUR
    BY <2>1 DEF DrawInv, Draws, DrawsUnique
  <2>2. CASE ur # NoUR
    <3>1. Drawing(ur, SetSize(Turn), drawn)
      BY <2>2 DEF DrawInv, Draws
    <3> QED
      BY <3>1, DrawnOnce DEF DrawsUnique
  <2> QED
    BY <2>1, <2>2
<1> QED
  BY <1>1, DrawInvHolds, PTL

-----------------------------------------------------------------------------
(* The merged sets *)

\* The sets that are complete while which is being merged.
MergedBefore == [train |-> {}, test |-> {"train"}, val |-> {"train", "test"}]

Complete ==
    IF pc \in {"train", "free", "done"} THEN SetNames
    ELSE IF pc = "merge" THEN MergedBefore[which] ELSE {}

TrainPairs == {<<1, n>> : n \in 0..(Share(similar_sz, "train") - 1)}
         \cup {<<0, n>> : n \in 0..(Share(different_sz, "train") - 1)}

Full(s) == /\ Unset \notin Merged(s)
           /\ s = "train" => Merged(s) = TrainPairs

\* Number x drawn is the place of pair x - 1; complete sets are full.
Fills ==
    /\ DOMAIN set = SetNames
    /\ \A s \in SetNames : set[s] = [x \in 0..(SetSize(s) - 1) |-> set[s][x]]
    /\ pc = "merge" => \A x \in 1..Len(drawn) : set[which][drawn[x]] = PairRead(x - 1)
    /\ \A s \in Complete : Full(s)

FillInv == DrawInv /\ Fills

(* What is read for a place of a set is a pair, or lies behind the pairs of *)
(* the train arrays; for the train set it is a pair.                        *)
LEMMA PairReadIs ==
    ASSUME DataOK, which \in SetNames, NEW n \in 0..(SetSize(which) - 1)
    PROVE  /\ PairRead(n) # Unset
           /\ which = "train" => PairRead(n) \in TrainPairs
<1> DEFINE sim == Share(similar_sz, which)
           dif == Share(different_sz, which)
<1>1. /\ similar_sz \in Nat /\ different_sz \in Nat /\ sim \in Nat /\ dif \in Nat
      /\ SetSize(which) = sim + dif
  BY SizesFit DEF SetSize
<1>2. PairRead(n) \in Pairs \cup {Garbage}
  <2> HIDE DEF sim
  <2>1. n \in Nat /\ (~(n < sim) => n - sim \in Nat)
    BY <1>1
  <2>2. PairRead(n) = IF n < sim THEN IF n < TrainSize(similar_sz) THEN <<1, n>> ELSE Garbage
                      ELSE IF n - sim < TrainSize(different_sz) THEN <<0, n - sim>> ELSE Garbage
    BY DEF PairRead, sim
  <2> QED
    BY <2>1, <2>2 DEF Pairs
<1>3. PairRead(n) # Unset
  BY <1>2, TrainingAssumption
<1>4. ASSUME which = "train"
      PROVE  PairRead(n) \in TrainPairs
  <2>1. sim = TrainSize(similar_sz) /\ dif = TrainSize(different_sz)
    BY <1>1, <1>4, ShareFits
  <2>2. PairRead(n) = IF n < sim THEN <<1, n>> ELSE IF n - sim < dif THEN <<0, n - sim>> ELSE Garbage
    BY <2>1 DEF PairRead
  <2>3. TrainPairs = {<<1, m>> : m \in 0..(sim - 1)} \cup {<<0, m>> : m \in 0..(dif - 1)}
    BY <1>4 DEF TrainPairs
  <2> HIDE DEF sim, dif
  <2>4. n < sim => n \in 0..(sim - 1)
    BY <1>1
  <2>5. ~(n < sim) => n - sim \in 0..(dif - 1) /\ n - sim < dif
    BY <1>1
  <2> QED
    BY <2>2, <2>3, <2>4, <2>5
<1> QED
  BY <1>3, <1>4

(* Every pair of the train set is read for one of its places. *)
LEMMA TrainPairRead ==
    ASSUME DataOK, which = "train", NEW q \in TrainPairs
    PROVE  \E n \in 0..(SetSize(which) - 1) : PairRead(n) = q
<1> DEFINE sim == Share(similar_sz, which)
           dif == Share(different_sz, which)
<1>1. /\ similar_sz \in Nat /\ different_sz \in Nat /\ sim \in Nat /\ dif \in Nat
      /\ SetSize(which) = sim + dif
  BY SizesFit DEF SetSize, SetNames
<1>2. sim = TrainSize(similar_sz) /\ dif = TrainSize(different_sz)
  BY <1>1, ShareFits
<1>3. \A n : PairRead(n) = IF n < sim THEN <<1, n>>
                          ELSE IF n - sim < dif THEN <<0, n - sim>> ELSE Garbage
  BY <1>2 DEF PairRead
<1>4. TrainPairs = {<<1, m>> : m \in 0..(sim - 1)} \cup {<<0, m>> : m \in 0..(dif - 1)}
  BY DEF TrainPairs
<1> HIDE DEF sim, dif
<1>5. CASE \E m \in 0..(sim - 1) : q = <<1, m>>
  <2>1. PICK m \in 0..(sim - 1) : q = <<1, m>>
    BY <1>5
  <2>2. m \in 0..(SetSize(which) - 1) /\ m < sim
    BY <1>1, <2>1
  <2>3. PairRead(m) = q
    BY <2>1, <2>2, <1>3
  <2> QED
    BY <2>2, <2>3
<1>6. CASE \E m \in 0..(dif - 1) : q = <<0, m>>
  <2>1. PICK m \in 0..(dif - 1) : q = <<0, m>>
    BY <1>6
  <2>2. /\ sim + m \in 0..(SetSize(which) - 1) /\ ~(sim + m < sim)
        /\ (sim + m) - sim = m /\ m < dif
    BY <1>1, <2>1
  <2>3. PairRead(sim + m) = q
    BY <2>1, <2>2, <1>3
  <2> QED
    BY <2>2, <2>3
<1> QED
  BY <1>4, <1>5, <1>6

(* When merge_set has drawn for every pair, the set is full. *)
LEMMA FullAtEnd ==
    ASSUME FillInv, pc = "merge", ur # NoUR, i = SetSize(which)
    PROVE  Full(which)
<1> DEFINE n == SetSize(which)
<1>1. which \in SetNames /\ i = Len(drawn) /\ Drawing(ur, n, drawn) /\ DataOK
  BY DEF FillInv, DrawInv, Draws, Turn
<1>2. /\ \A x \in 1..Len(drawn) : drawn[x] \in 0..(n - 1)
      /\ \A y \in 0..(n - 1) : \E x \in 1..Len(drawn) : drawn[x] = y
      /\ n \in Nat
  <2>1. Len(drawn) = n
    BY <1>1
  <2> HIDE DEF n
  <2>2. n \in Nat
    BY <1>1 DEF Drawing
  <2>3. Drawing(ur, n, drawn)
    BY <1>1
  <2>4. \A x \in 1..Len(drawn) : drawn[x] \in 0..(n - 1)
    BY <2>3, DrawnOnce
  <2>5. \A y \in 0..(n - 1) : \E x \in 1..Len(drawn) : drawn[x] = y
    BY <2>1, <2>3, DrawnOnce
  <2> QED
    BY <2>2, <2>4, <2>5
<1>3. /\ \A x \in 1..Len(drawn) : set[which][drawn[x]] = PairRead(x - 1)
      /\ DOMAIN set[which] = 0..(n - 1)
  BY <1>1 DEF FillInv, Fills
<1>4. Len(drawn) = n
  BY <1>1
<1>5. \A x \in 1..n : x - 1 \in 0..(n - 1)
  BY <1>2
<1>6. \A x \in 0..(n - 1) : x + 1 \in 1..n /\ (x + 1) - 1 = x
  BY <1>2
<1> HIDE DEF n
<1>7. ASSUME NEW y \in DOMAIN set[which]
      PROVE  \E x \in 0..(n - 1) : set[which][y] = PairRead(x)
  <2>1. PICK x \in 1..n : drawn[x] = y
    BY <1>2, <1>3, <1>4
  <2>2. set[which][y] = PairRead(x - 1)
    BY <2>1, <1>3, <1>4
  <2> QED
    BY <2>1, <2>2, <1>5
<1>8. \A x \in 0..(n - 1) : PairRead(x) # Unset /\ (which = "train" => PairRead(x) \in TrainPairs)
  BY <1>1, PairReadIs DEF n
<1>9. Unset \notin Merged(which)
  BY <1>7, <1>8 DEF Merged
<1>10. ASSUME which = "train"
       PROVE  Merged(which) = TrainPairs
  <2>1. Merged(which) \subseteq TrainPairs
    BY <1>7, <1>8, <1>10 DEF Merged
  <2>2. ASSUME NEW q \in TrainPairs
        PROVE  q \in Merged(which)
    <3>1. PICK x \in 0..(n - 1) : PairRead(x) = q
      BY <1>1, <1>10, TrainPairRead DEF n
    <3>2. set[which][drawn[x + 1]] = PairRead(x)
      BY <1>3, <1>4, <1>6
    <3>3. drawn[x + 1] \in DOMAIN set[which]
      BY <1>2, <1>3, <1>4, <1>6
    <3> QED
      BY <3>1, <3>2, <3>3 DEF Merged
  <2> QED
    BY <2>1, <2>2
<1> QED
  BY <1>9, <1>10 DEF Full

(* A set that a step does not touch is as full as before. *)
LEMMA FullKept ==
    ASSUME NEW s \in SetNames, set'[s] = set[s], Full(s),
           similar_sz' = similar_sz, different_sz' = different_sz
    PROVE  Full(s)'
<1>1. Merged(s)' = Merged(s)
  BY DEF Merged
<1>2. TrainPairs' = TrainPairs
  BY DEF TrainPairs
<1> QED
  BY <1>1, <1>2 DEF Full

(* Every step fills the sets that it should. *)
LEMMA FillsNext == FillInv /\ [Next]_vars => FillInv'
<1> SUFFICES ASSUME FillInv, [Next]_vars
             PROVE  Fills'
  BY DrawsNext DEF FillInv
<1>a. DataOK /\ Draws /\ Fills /\ DrawInv
  BY DEF FillInv, DrawInv
<1>b. /\ UNCHANGED data /\ similar_sz' = similar_sz /\ different_sz' = different_sz
      /\ \A s \in SetNames : SetSize(s)' = SetSize(s)
  BY <1>a, DataSteps, DataKept
<1>c. ASSUME set' = set, Complete' \subseteq Complete, pc' = "merge" => drawn' = <<>>
      PROVE  Fills'
  <2>1. \A s \in Complete' : Full(s)'
    <3>1. Complete \subseteq SetNames
      BY <1>a DEF Complete, MergedBefore, Draws, SetNames
    <3> QED
      BY <3>1, <1>a, <1>b, <1>c, FullKept DEF Fills
  <2>2. \A s \in SetNames : set'[s] = [x \in 0..(SetSize(s)' - 1) |-> set'[s][x]]
    BY <1>a, <1>b, <1>c DEF Fills
  <2> QED
    BY <2>1, <2>2, <1>a, <1>c DEF Fills
<1>1. CASE MergeBegin
  <2>1. /\ set' = set /\ which' = which /\ pc = "merge"
        /\ \/ pc' = pc /\ drawn' = <<>>
           \/ pc' = "aborted"
    BY <1>1, Zenon DEF MergeBegin, merge, Create
  <2>2. Complete' \subseteq Complete
    BY <2>1 DEF Complete
  <2> QED
    BY <2>1, <2>2, <1>c
<1>2. CASE MergePut
  <2>1. /\ pc = "merge" /\ pc' = "merge" /\ which' = which /\ which \in SetNames
        /\ i = Len(drawn) /\ i < SetSize(which) /\ Get /\ Drawing(ur, SetSize(which), drawn)
    BY <1>2, <1>a DEF MergePut, Draws, Turn
  <2> DEFINE q == ur_get(ur, rand).number
             n == SetSize(which)
             m == Len(drawn)
  <2>2. set' = [set EXCEPT ![which][q] = PairRead(m)]
    BY <1>2, <2>1 DEF MergePut
  <2>3. /\ Drawing(ur', n, drawn') /\ drawn \in Seq(Int) /\ m \in Nat
        /\ drawn' = Append(drawn, q) /\ q \in 0..(n - 1) /\ Len(drawn') = m + 1
    BY <2>1, <1>a, GetDrawsOne
  <2>4. \A x \in 1..m : drawn'[x] = drawn[x] /\ drawn'[x] # q
    <3>1. drawn'[m + 1] = q /\ \A x \in 1..m : drawn'[x] = drawn[x]
      BY <2>3
    <3>2. \A x, y \in 1..Len(drawn') : x # y => drawn'[x] # drawn'[y]
      <4>1. Drawing(ur', n, drawn')
        BY <2>3
      <4> QED
        BY <4>1, DrawnOnce
    <3> QED
      BY <3>1, <3>2, <2>3
  <2>5. drawn'[m + 1] = q
    BY <2>3
  <2>6. /\ DOMAIN set = SetNames /\ set[which] = [x \in 0..(n - 1) |-> set[which][x]]
        /\ \A s \in SetNames : set[s] = [x \in 0..(SetSize(s) - 1) |-> set[s][x]]
    BY <2>1, <1>a DEF Fills
  <2> HIDE DEF q, n, m
  <2>7. /\ DOMAIN set' = SetNames
        /\ \A s \in SetNames : s # which => set'[s] = set[s]
        /\ set'[which] = [set[which] EXCEPT ![q] = PairRead(m)]
    BY <2>1, <2>2, <2>6
  <2>8. set'[which] = [x \in 0..(n - 1) |-> IF x = q THEN PairRead(m) ELSE set[which][x]]
    BY <2>6, <2>7
  <2>9. \A x \in 1..Len(drawn') : set'[which][drawn'[x]] = PairRead(x - 1)
    <3> TAKE x \in 1..Len(drawn')
    <3>1. CASE x = m + 1
      <4>1. x - 1 = m /\ drawn'[x] = q
        BY <3>1, <2>3, <2>5
      <4> QED
        BY <4>1, <2>3, <2>8
    <3>2. CASE x \in 1..m
      <4>1. drawn'[x] = drawn[x] /\ drawn'[x] # q /\ drawn'[x] \in 0..(n - 1)
        BY <3>2, <2>3, <2>4, DrawnOnce
      <4>2. set[which][drawn[x]] = PairRead(x - 1)
        BY <3>2, <2>1, <1>a DEF Fills, m
      <4> QED
        BY <4>1, <4>2, <2>8
    <3> QED
      BY <3>1, <3>2, <2>3
  <2>10. \A x : PairRead(x)' = PairRead(x)
    BY <1>b, <2>1 DEF PairRead
  <2>11. \A s \in Complete' : Full(s)'
    <3>1. Complete' = Complete /\ Complete \subseteq SetNames /\ which \notin Complete
      BY <2>1 DEF Complete, MergedBefore, SetNames
    <3> QED
      BY <3>1, <2>7, <1>a, <1>b, FullKept DEF Fills
  <2>12. \A s \in SetNames : set'[s] = [x \in 0..(SetSize(s)' - 1) |-> set'[s][x]]
    <3> TAKE s \in SetNames
    <3>1. CASE s = which
      BY <3>1, <2>8, <1>b, <2>1 DEF n
    <3>2. CASE s # which
      BY <3>2, <2>6, <2>7, <1>b
    <3> QED
      BY <3>1, <3>2
  <2>13. \A x \in 1..Len(drawn') : set'[which'][drawn'[x]] = PairRead(x - 1)'
    BY <2>1, <2>9, <2>10
  <2> QED
    BY <2>7, <2>11, <2>12, <2>13 DEF Fills
<1>3. CASE MergeEnd
  <2>1. /\ pc = "merge" /\ ur # NoUR /\ i = SetSize(which) /\ set' = set /\ drawn' = <<>>
        /\ which \in SetNames
        /\ \/ which = "val" /\ pc' = "train" /\ which' = which
           \/ which # "val" /\ which' = After[which] /\ pc' = "merge"
    BY <1>3, <1>a DEF MergeEnd, Draws
  <2>2. Full(which)
    BY <2>1, FullAtEnd
  <2>3. Complete' \subseteq Complete \cup {which} /\ Complete \cup {which} \subseteq SetNames
    BY <2>1 DEF Complete, MergedBefore, After, SetNames
  <2>4. \A s \in Complete' : Full(s)'
    BY <2>1, <2>2, <2>3, <1>a, <1>b, FullKept DEF Fills
  <2>5. \A s \in SetNames : set'[s] = [x \in 0..(SetSize(s)' - 1) |-> set'[s][x]]
    BY <1>a, <1>b, <2>1 DEF Fills
  <2>6. Len(drawn') = 0
    BY <2>1
  <2> QED
    BY <2>1, <2>4, <2>5, <2>6, <1>a DEF Fills
<1>4. CASE TrainBegin \/ DrawRow \/ lr_train \/ EpochEnd \/ FreeModels
  <2>1. /\ set' = set /\ pc' # "merge" /\ pc \in {"train", "free"}
    BY <1>4, Zenon DEF TrainBegin, DrawRow, lr_train, EpochEnd, FreeModels, merge, Create
  <2>2. Complete' \subseteq Complete
    BY <2>1 DEF Complete
  <2> QED
    BY <2>1, <2>2, <1>c
<1>5. CASE UNCHANGED vars
  <2>1. UNCHANGED <<set, pc, which, drawn>>
    BY <1>5 DEF vars, merge
  <2>2. Complete' = Complete /\ Complete \subseteq SetNames
    BY <2>1, <1>a DEF Complete, MergedBefore, Draws, SetNames
  <2>3. \A x : PairRead(x)' = PairRead(x)
    BY <1>b, <2>1 DEF PairRead
  <2>4. \A s \in Complete' : Full(s)'
    BY <2>1, <2>2, <1>a, <1>b, FullKept DEF Fills
  <2> QED
    BY <2>1, <2>3, <2>4, <1>a, <1>b DEF Fills
<1> QED
  BY <1>1, <1>2, <1>3, <1>4, <1>5, Zenon DEF Next

(* The sets begin typed and none of them is complete. *)
LEMMA FillInvHolds == Spec => []FillInv
<1>1. split => Fills
  BY DEF split, Fills, Complete, MergedBefore
<1>2. FillInv /\ [Next]_vars => FillInv'
  BY FillsNext
<1>3. split /\ DrawInv => FillInv
  BY <1>1 DEF FillInv
<1> QED
  BY <1>2, <1>3, DrawInvHolds, PTL DEF Spec

(* When training begins its three sets are full, the train set holds its   *)
(* half of the similar and of the different pairs, each of them, and the   *)
(* shares leave out one pair of a kind at most, whatever the numbers of    *)
(* pairs and the random number are (main.c:304-402).                       *)
THEOREM FullShares == Spec => []SetsHoldTheirShare
<1>1. FillInv => SetsHoldTheirShare
  <2> SUFFICES ASSUME FillInv, pc \in {"train", "free", "done"}
               PROVE  /\ \A s \in SetNames : Unset \notin Merged(s)
                      /\ Merged("train") = TrainPairs
                      /\ \A n \in {similar_sz, different_sz} :
                            n - (Share(n, "train") + Share(n, "test") + Share(n, "val")) \in 0..1
    BY Zenon DEF SetsHoldTheirShare, TrainPairs
  <2>1. \A s \in SetNames : Full(s)
    BY DEF FillInv, Fills, Complete
  <2>2. similar_sz \in Nat /\ different_sz \in Nat
    BY SizesFit DEF FillInv, DrawInv
  <2> QED
    BY <2>1, <2>2, ShareFits DEF Full, SetNames
<1> QED
  BY <1>1, FillInvHolds, PTL

-----------------------------------------------------------------------------
(* The copies of the model and the early stop *)

\* The first m copies are there, each of the model after its epoch of b batches.
CopiesTo(m, b) == [x \in 0..(epochs - 1) |-> IF x < m THEN (x + 1) * b ELSE NoModel]

\* The loss does not fall from l[n - 3] to l[n + 1].
Flat(l, n) == \A q \in (n - 4)..n : q > 0 => l[q + 1] >= l[q]

\* Where the loop of the epochs ends: at the first early stop, or at the end.
Stopped ==
    /\ \A n \in 5..(Len(med_losses) - 2) : ~Flat(med_losses, n)
    /\ \/ kept = NoModel /\ Len(med_losses) = epochs
       \/ /\ Len(med_losses) >= 5 /\ kept = Len(med_losses) - 5
          /\ Flat(med_losses, Len(med_losses) - 1)

Progress ==
    /\ med_losses \in Seq(Int) /\ Len(med_losses) \in 0..epochs
    /\ models = CopiesTo(Len(med_losses), Batches)
    /\ pc = "merge" => e = 0
    /\ pc \in {"merge", "train"} => /\ e \in Nat /\ e < epochs /\ Len(med_losses) = e
                                   /\ trained = e * Batches + j /\ kept = NoModel
                                   /\ \A n \in 5..(e - 1) : ~Flat(med_losses, n)
    /\ pc \in {"free", "done"} => Stopped
    /\ pc = "done" => freed = Copies

ProgressInv == DrawInv /\ Progress

(* Later losses do not change what the losses said before. *)
LEMMA FlatKept ==
    ASSUME NEW l \in Seq(Int), NEW loss \in Int, NEW n \in Nat, n < Len(l)
    PROVE  Flat(Append(l, loss), n) <=> Flat(l, n)
<1> DEFINE c == Append(l, loss)
<1>1. \A x \in 1..Len(l) : c[x] = l[x]
  OBVIOUS
<1> HIDE DEF c
<1>2. \A q \in (n - 4)..n : q > 0 => q \in 1..Len(l) /\ q + 1 \in 1..Len(l)
  OBVIOUS
<1>3. Flat(c, n) <=> Flat(l, n)
  BY <1>1, <1>2 DEF Flat
<1> QED
  BY <1>3 DEF c

(* The test of an epoch: from the fifth on it is exact, in the fourth it   *)
(* may also miss a stop, by the value from outside the array.              *)
LEMMA TestIsFlat ==
    ASSUME e \in Nat, NEW l \in Seq(Int), Len(l) = e + 1, NEW rises
    PROVE  /\ check_local_maximum(l, rises) => e >= 4 /\ Flat(l, e)
           /\ e >= 5 /\ ~check_local_maximum(l, rises) => ~Flat(l, e)
<1>1. \A q \in (e - 4)..e : q > 0 =>
         /\ l[q] \in Int /\ l[q + 1] \in Int
         /\ ~(l[q + 1] < l[q]) <=> l[q + 1] >= l[q]
  OBVIOUS
<1>2. ASSUME check_local_maximum(l, rises)
      PROVE  e >= 4 /\ Flat(l, e)
  <2>1. e > 3
    BY <1>2 DEF check_local_maximum
  <2>2. \A q \in (e - 4)..e : q > 0 => ~(l[q + 1] < l[q])
    BY <1>2 DEF check_local_maximum
  <2> QED
    BY <2>1, <2>2, <1>1 DEF Flat
<1>3. ASSUME e >= 5, Flat(l, e)
      PROVE  check_local_maximum(l, rises)
  <2>1. \A q \in (e - 4)..e : q > 0 /\ q # 0
    BY <1>3
  <2>2. \A q \in (e - 4)..e : ~(l[q + 1] < l[q])
    BY <2>1, <1>1, <1>3 DEF Flat
  <2>3. e > 3
    BY <1>3
  <2> QED
    BY <2>1, <2>2, <2>3, Zenon DEF check_local_maximum
<1> QED
  BY <1>2, <1>3

(* One more batch or one more epoch, in numbers of batches. *)
LEMMA OneMoreRound ==
    ASSUME NEW a \in Nat, NEW b \in Nat
    PROVE  a * b \in Nat /\ a * b + b = (a + 1) * b /\ (a + 1) * b + 0 = (a + 1) * b
OBVIOUS

(* Every step keeps the progress. *)
LEMMA ProgressNext == ProgressInv /\ [Next]_vars => ProgressInv'
<1> SUFFICES ASSUME ProgressInv, [Next]_vars
             PROVE  Progress'
  BY DrawsNext DEF ProgressInv
<1>a. DataOK /\ Draws /\ Progress
  BY DEF ProgressInv, DrawInv
<1>b. Batches' = Batches /\ Batches \in Nat
  BY <1>a, DataSteps, DataKept, SizesFit
<1>d. epochs \in Nat \ {0}
  BY TrainingAssumption
<1>e. /\ med_losses \in Seq(Int) /\ Len(med_losses) \in 0..epochs
      /\ models = CopiesTo(Len(med_losses), Batches)
  BY <1>a DEF Progress
<1>1. CASE MergeBegin \/ TrainBegin
  <2>1. /\ pc \in {"merge", "train"} /\ UNCHANGED model /\ UNCHANGED <<e, j>>
        /\ pc' = pc \/ pc' = "aborted"
    BY <1>1, Zenon DEF MergeBegin, TrainBegin, Create
  <2>2. UNCHANGED <<med_losses, trained, models, kept>>
    BY <2>1 DEF model
  <2> QED
    BY <2>1, <2>2, <1>a, <1>b DEF Progress
<1>2. CASE MergePut \/ MergeEnd \/ DrawRow
  <2>1. /\ pc \in {"merge", "train"} /\ UNCHANGED <<e, j>>
        /\ \/ pc' = pc
           \/ pc' = "train" /\ pc = "merge"
        /\ UNCHANGED <<med_losses, trained, models, kept>>
    BY <1>2 DEF MergePut, MergeEnd, DrawRow, model
  <2> QED
    BY <2>1, <1>a, <1>b DEF Progress
<1>3. CASE lr_train
  <2>1. /\ pc = "train" /\ pc' = pc /\ e' = e /\ j' = j + 1 /\ trained' = trained + 1
        /\ UNCHANGED <<med_losses, models, kept>> /\ j \in Nat
    BY <1>3, <1>a DEF lr_train, Draws
  <2>2. /\ e \in Nat /\ e < epochs /\ Len(med_losses) = e /\ kept = NoModel
        /\ trained = e * Batches + j /\ \A n \in 5..(e - 1) : ~Flat(med_losses, n)
    BY <2>1, <1>a DEF Progress
  <2>3. e * Batches \in Nat
    BY <2>2, <1>b, OneMoreRound
  <2>4. trained' = e' * Batches' + j'
    BY <2>1, <2>2, <2>3, <1>b
  <2> QED
    BY <2>1, <2>2, <2>4, <1>b, <1>e DEF Progress
<1>4. CASE EpochEnd
  <2>1. PICK loss \in Losses, rises \in BOOLEAN :
          /\ med_losses' = Append(med_losses, loss)
          /\ models' = [models EXCEPT ![e] = trained]
          /\ IF check_local_maximum(med_losses', rises)
             THEN kept' = e - 4 /\ pc' = "free"
             ELSE /\ e' = e + 1 /\ kept' = kept
                  /\ pc' = IF e + 1 = epochs THEN "free" ELSE "train"
    BY <1>4, Zenon DEF EpochEnd
  <2>2. pc = "train" /\ j = Batches /\ j' = 0 /\ trained' = trained
    BY <1>4 DEF EpochEnd
  <2>3. /\ e \in Nat /\ e < epochs /\ Len(med_losses) = e /\ kept = NoModel
        /\ trained = e * Batches + j /\ \A n \in 5..(e - 1) : ~Flat(med_losses, n)
    BY <2>2, <1>a DEF Progress
  <2>4. loss \in Int
    BY TrainingAssumption
  <2>5. med_losses' \in Seq(Int) /\ Len(med_losses') = e + 1 /\ e + 1 \in 0..epochs
    BY <2>1, <2>3, <2>4, <1>d, <1>e
  <2>6. trained = (e + 1) * Batches
    BY <2>2, <2>3, <1>b, OneMoreRound
  <2>7. models' = CopiesTo(e + 1, Batches)
    <3>1. models' = [x \in 0..(epochs - 1) |-> IF x = e THEN trained ELSE CopiesTo(e, Batches)[x]]
      BY <2>1, <2>3, <1>d, <1>e DEF CopiesTo
    <3>2. ASSUME NEW x \in 0..(epochs - 1)
          PROVE  (IF x = e THEN trained ELSE CopiesTo(e, Batches)[x])
                   = IF x < e + 1 THEN (x + 1) * Batches ELSE NoModel
      <4>1. CopiesTo(e, Batches)[x] = IF x < e THEN (x + 1) * Batches ELSE NoModel
        BY DEF CopiesTo
      <4>2. CASE x = e
        BY <4>2, <2>3, <2>6
      <4>3. CASE x # e
        <5>1. x < e + 1 <=> x < e
          BY <4>3, <2>3
        <5> QED
          BY <5>1, <4>1, <4>3
      <4> QED
        BY <4>2, <4>3
    <3> QED
      BY <3>1, <3>2, Zenon DEF CopiesTo
  <2>8. models' = CopiesTo(Len(med_losses'), Batches')
    BY <2>5, <2>7, <1>b
  <2>9. \A n \in 5..(e - 1) : ~Flat(med_losses', n)
    BY <2>1, <2>3, <2>4, <1>e, FlatKept
  <2>10. CASE check_local_maximum(med_losses', rises)
    <3>1. e >= 4 /\ Flat(med_losses', e)
      BY <2>3, <2>5, <2>10, TestIsFlat
    <3>2. /\ kept' = Len(med_losses') - 5 /\ Len(med_losses') - 1 = e
          /\ Len(med_losses') >= 5 /\ Len(med_losses') - 2 = e - 1 /\ pc' = "free"
      BY <2>1, <2>3, <2>5, <2>10, <3>1
    <3>3. Stopped'
      BY <2>9, <3>1, <3>2 DEF Stopped
    <3> QED
      BY <2>5, <2>8, <3>2, <3>3 DEF Progress
  <2>11. CASE ~check_local_maximum(med_losses', rises)
    <3>1. e >= 5 => ~Flat(med_losses', e)
      BY <2>3, <2>5, <2>11, TestIsFlat
    <3>2. \A n \in 5..e : ~Flat(med_losses', n)
      BY <3>1, <2>3, <2>9
    <3>3. e' = e + 1 /\ kept' = NoModel /\ e' \in Nat /\ e' - 1 = e
      BY <2>1, <2>3, <2>11
    <3>4. CASE e + 1 = epochs
      <4>1. pc' = "free" /\ Len(med_losses') = epochs /\ Len(med_losses') - 2 = e - 1
        BY <2>1, <2>3, <2>5, <2>11, <3>4
      <4>2. Stopped'
        BY <2>9, <3>3, <4>1 DEF Stopped
      <4> QED
        BY <2>5, <2>8, <4>1, <4>2 DEF Progress
    <3>5. CASE e + 1 # epochs
      <4>1. pc' = "train" /\ e' < epochs /\ Len(med_losses') = e'
        BY <2>1, <2>3, <2>5, <2>11, <3>3, <3>5, <1>d
      <4>2. trained' = e' * Batches' + j'
        <5>1. e' * Batches' = (e + 1) * Batches
          BY <3>3, <1>b
        <5>2. (e + 1) * Batches + 0 = (e + 1) * Batches
          BY <2>3, <1>b, OneMoreRound
        <5> QED
          BY <5>1, <5>2, <2>2, <2>6
      <4> QED
        BY <2>5, <2>8, <3>2, <3>3, <4>1, <4>2 DEF Progress
    <3> QED
      BY <3>4, <3>5
  <2> QED
    BY <2>10, <2>11
<1>5. CASE FreeModels
  <2>1. /\ pc = "free" /\ pc' = "done" /\ freed' = Copies
        /\ UNCHANGED <<med_losses, models, kept>>
    BY <1>5 DEF FreeModels
  <2>2. Copies' = Copies /\ Stopped'
    BY <2>1, <1>a DEF Copies, Progress, Stopped
  <2> QED
    BY <2>1, <2>2, <1>b, <1>e DEF Progress
<1>6. CASE UNCHANGED vars
  <2>1. UNCHANGED <<pc, e, j, med_losses, trained, models, kept, freed>>
    BY <1>6 DEF vars, model
  <2>2. Copies' = Copies /\ (Stopped' <=> Stopped)
    BY <2>1 DEF Copies, Stopped
  <2> QED
    BY <2>1, <2>2, <1>a, <1>b DEF Progress
<1> QED
  BY <1>1, <1>2, <1>3, <1>4, <1>5, <1>6, Zenon DEF Next

(* Training stops early exactly when the loss has not fallen in the last   *)
(* five epochs, for the first time, keeps the copy of the first of these   *)
(* and frees all others, whatever the losses, the epochs and the batch     *)
(* size are (main.c:508-523, 580-600).                                     *)
THEOREM WindowCopyKept == Spec => []KeepsWindowCopy
<1>1. split => Progress
  <2> SUFFICES ASSUME split
               PROVE  Progress
    OBVIOUS
  <2>1. /\ pc = "merge" /\ e = 0 /\ j = 0 /\ med_losses = <<>> /\ trained = 0 /\ kept = NoModel
        /\ models = [x \in 0..(epochs - 1) |-> NoModel]
    BY DEF split
  <2>2. DataOK
    <3>1. PICK p \in Sizes : similar_sz = p[1] /\ different_sz = p[2]
      BY DEF split
    <3>2. p = <<p[1], p[2]>>
      BY <3>1, TrainingAssumption
    <3> QED
      BY <3>1, <3>2 DEF split, DataOK
  <2>3. Batches \in Nat /\ 0 * Batches + 0 = 0
    BY <2>2, SizesFit
  <2>4. models = CopiesTo(0, Batches)
    BY <2>1 DEF CopiesTo
  <2> QED
    BY <2>1, <2>3, <2>4, TrainingAssumption DEF Progress
<1>2. split /\ DrawInv => ProgressInv
  BY <1>1 DEF ProgressInv
<1>3. ProgressInv => KeepsWindowCopy
  <2> SUFFICES ASSUME ProgressInv, pc = "done"
               PROVE  KeepsWindowCopy
    BY DEF KeepsWindowCopy
  <2> DEFINE m == Len(med_losses)
  <2>1. /\ m \in 0..epochs /\ models = CopiesTo(m, Batches) /\ Stopped /\ freed = Copies
        /\ Batches \in Nat /\ epochs \in Nat \ {0} /\ NoModel \notin Nat
    BY SizesFit, TrainingAssumption DEF ProgressInv, Progress, DrawInv
  <2>2. \A n \in 5..(m - 2) : ~NoFall(n)
    BY <2>1 DEF Stopped, Flat, NoFall
  <2>3. \A x \in 0..(epochs - 1) : models[x] # NoModel <=> x < m
    <3> TAKE x \in 0..(epochs - 1)
    <3>1. (x + 1) * Batches \in Nat
      BY <2>1, OneMoreRound
    <3>2. models[x] = IF x < m THEN (x + 1) * Batches ELSE NoModel
      BY <2>1 DEF CopiesTo
    <3> QED
      BY <3>1, <3>2, <2>1
  <2>4. freed = {x \in 0..(epochs - 1) : x < m /\ x # kept}
    BY <2>1, <2>3 DEF Copies, CopiesTo
  <2>5. CASE kept = NoModel
    <3>1. m = epochs
      BY <2>1, <2>5 DEF Stopped
    <3>2. freed = 0..(epochs - 1)
      BY <2>1, <2>4, <2>5, <3>1
    <3> QED
      BY <2>2, <2>5, <3>1, <3>2 DEF KeepsWindowCopy
  <2>6. CASE kept # NoModel
    <3>1. m >= 5 /\ kept = m - 5 /\ Flat(med_losses, m - 1)
      BY <2>1, <2>6 DEF Stopped
    <3>2. NoFall(m - 1) /\ m - 1 >= 4
      BY <3>1, <2>1 DEF Flat, NoFall
    <3>3. models[kept] = ((m - 1) - 3) * Batches
      <4>1. kept \in 0..(epochs - 1) /\ kept < m /\ kept + 1 = (m - 1) - 3
        BY <3>1, <2>1
      <4>2. models[kept] = (kept + 1) * Batches
        BY <4>1, <2>1 DEF CopiesTo
      <4> QED
        BY <4>1, <4>2
    <3>4. freed = (0..(m - 1)) \ {kept}
      BY <2>1, <2>4
    <3>5. kept = (m - 1) - 4
      BY <3>1, <2>1
    <3> QED
      BY <2>2, <2>6, <3>2, <3>3, <3>4, <3>5, Zenon DEF KeepsWindowCopy
  <2> QED
    BY <2>5, <2>6
<1> QED
  BY <1>2, <1>3, ProgressNext, DrawInvHolds, PTL DEF Spec
=============================================================================
