--------------------------- MODULE DictionaryProofs ---------------------------
(***************************************************************************)
(* Proofs about Dictionary.                                                *)
(*                                                                         *)
(* TableOK is the order the open addressing keeps: every entry is where    *)
(* the search for its key finds it, over buckets that are not clear; no    *)
(* key has two entries; the load is the number of entries.  htab_put,      *)
(* htab_del, htab_rehash and a change of a value keep it (PutOK, DelOK,    *)
(* RehashOK, ReplaceOK), and in such a table htab_get finds the entries    *)
(* (GetFinds) and nothing else (GetMisses).  DictInv relates the table to  *)
(* the calls that were made, and LoopInv a loop to the entries it began    *)
(* with.                                                                   *)
(***************************************************************************)
EXTENDS Dictionary, FiniteSetTheorems, WellFoundedInduction, TLAPS

-----------------------------------------------------------------------------
(* A set of naturals that is not empty has a least element, *)
LEMMA Least ==
    ASSUME NEW T, T \subseteq Nat, T # {}
    PROVE  \E m \in T : \A k \in T : m <= k
<1>1. PICK m \in T : \A k \in T : ~(<<k, m>> \in OpToRel(<, Nat))
  BY WFMin, NatLessThanWellFounded
<1>2. ASSUME NEW k \in T, k < m
      PROVE  FALSE
  <2>1. <<k, m>> \in OpToRel(<, Nat)
    BY <1>2 DEF OpToRel
  <2>2. QED
    BY <1>1, <2>1
<1>3. \A k \in T : m <= k
  BY <1>2
<1>4. QED
  BY <1>3

(* which is Min of it. *)
LEMMA MinIs ==
    ASSUME NEW T, T \subseteq Nat, T # {}
    PROVE  Min(T) \in T /\ \A k \in T : Min(T) <= k
<1>1. \E m \in T : \A k \in T : m <= k
  BY Least
<1>2. \E m \in T : \A k \in T : k >= m
  BY <1>1
<1>3. QED
  BY <1>1 DEF Min

(* Max of a set below a bound is an element of it. *)
LEMMA MaxIs ==
    ASSUME NEW T, NEW n \in Nat, T \subseteq 0..n, T # {}
    PROVE  Max(T) \in T
<1> DEFINE Up == {m \in Nat : \A k \in T : k <= m}
<1>1. PICK m \in Up : \A k \in Up : m <= k
  <2>1. Up \subseteq Nat /\ n \in Up
    OBVIOUS
  <2> HIDE DEF Up
  <2>2. Up # {}
    BY <2>1
  <2>3. QED
    BY <2>1, <2>2, Least
<1>2. m \in T
  <2>1. SUFFICES ASSUME m \notin T PROVE FALSE
    OBVIOUS
  <2>2. \A k \in T : k <= m - 1 /\ k >= 0
    BY <2>1
  <2>3. m - 1 \in Up
    <3>1. PICK k \in T : TRUE
      OBVIOUS
    <3>2. m - 1 \in Nat
      BY <2>2, <3>1
    <3>3. QED
      BY <2>2, <3>2
  <2>4. QED
    BY <1>1, <2>3
<1>3. \A k \in T : m >= k
  OBVIOUS
<1>4. QED
  BY <1>2, <1>3 DEF Max

-----------------------------------------------------------------------------
\* The i-th probe for a key, with the hash function as a parameter.
Spot(h, t, k, i) == Probe(h[k], t.buf_cap, i)

\* Bucket b was found by the search for its key that stops at a clear bucket.
WellPlaced(h, t, b) ==
    LET e == t.buf[b]
    IN  /\ e.key \in Keys
        /\ e.hash \in 0..(MAX_PROBES - 1)
        /\ Spot(h, t, e.key, e.hash) = b
        /\ \A j \in 0..(e.hash - 1) : t.buf[Spot(h, t, e.key, j)].flags # "clear"

(* A table: every entry is where the search for its key finds it, no key   *)
(* has two entries, and the load is the number of entries.                 *)
TableOK(h, t) ==
    /\ t = [key_sz |-> t.key_sz, buf_cap |-> t.buf_cap, buf_load |-> t.buf_load, buf |-> t.buf]
    /\ t.buf_cap \in 1..MaxCap
    /\ t.buf \in [0..(t.buf_cap - 1) -> Buckets]
    /\ t.buf_load = Cardinality(Entries(t))
    /\ \A b \in Entries(t) : WellPlaced(h, t, b)
    /\ \A b, c \in Entries(t) : t.buf[b].key = t.buf[c].key => b = c

(* The probes stay in the table. *)
LEMMA SpotIn ==
    ASSUME NEW h \in [Keys -> Hashes], NEW t, t.buf_cap \in 1..MaxCap, NEW k \in Keys,
           NEW i \in 0..Period
    PROVE  Spot(h, t, k, i) \in 0..(t.buf_cap - 1)
<1>1. h[k] \in Hashes
  OBVIOUS
<1>2. QED
  BY <1>1, DictionaryAssumption DEF Spot

(* A table has finitely many entries. *)
LEMMA EntriesFinite ==
    ASSUME NEW h, NEW t, TableOK(h, t)
    PROVE  IsFiniteSet(Entries(t)) /\ Entries(t) \subseteq 0..(t.buf_cap - 1)
           /\ Cardinality(Entries(t)) \in Nat
<1>1. Entries(t) \subseteq 0..(t.buf_cap - 1) /\ t.buf_cap \in Nat
  BY DictionaryAssumption DEF Entries, TableOK
<1>2. PICK m \in Int : m = t.buf_cap - 1
  BY <1>1
<1>3. 0 \in Int
  OBVIOUS
<1>4. IsFiniteSet(0..m)
  BY <1>3, FS_Interval
<1>5. IsFiniteSet(Entries(t))
  BY <1>1, <1>2, <1>4, FS_Subset
<1>6. QED
  BY <1>1, <1>5, FS_CardinalityType

-----------------------------------------------------------------------------
(* htab_get *)

(* The search finds the entry of a key that has one. *)
LEMMA GetFinds ==
    ASSUME hash \in [Keys -> Hashes], NEW t, TableOK(hash, t), NEW b \in Entries(t)
    PROVE  /\ Found(t, t.buf[b].key)
           /\ Bucket(t, t.buf[b].key) = b
<1> DEFINE k == t.buf[b].key
           n == t.buf[b].hash
           First(i) == Stops(t, k, i) /\ \A j \in 0..(i - 1) : ~Stops(t, k, j)
<1>1. /\ k \in Keys /\ n \in 0..(MAX_PROBES - 1)
      /\ Place(t, k, n) = b
      /\ \A j \in 0..(n - 1) : t.buf[Place(t, k, j)].flags # "clear"
      /\ t.buf[b].flags = "occupied"
  BY DEF TableOK, WellPlaced, Spot, Place, Entries
<1>2. n \in 0..Period /\ MAX_PROBES \in Nat /\ Period \in Nat
  BY <1>1, DictionaryAssumption
<1>3. Stops(t, k, n)
  BY <1>1 DEF Stops
<1>4. ASSUME NEW j \in 0..(n - 1)
      PROVE  ~Stops(t, k, j)
  <2> DEFINE c == Place(t, k, j)
  <2>1. SUFFICES ASSUME t.buf[c].flags = "occupied", t.buf[c].hash = j, t.buf[c].key = k
                 PROVE  FALSE
    BY <1>1 DEF Stops
  <2>2. j \in 0..Period
    BY <1>2
  <2>3. c \in 0..(t.buf_cap - 1)
    BY <1>1, <2>2, SpotIn DEF TableOK, Spot, Place
  <2>4. c \in Entries(t)
    BY <2>1, <2>3 DEF Entries, TableOK
  <2>5. c = b
    BY <2>1, <2>4 DEF TableOK
  <2>6. QED
    BY <1>2, <2>1, <2>5
<1>5. First(n)
  BY <1>3, <1>4
<1>6. \A i \in 0..Period : First(i) => i = n
  <2>1. TAKE i \in 0..Period
  <2>2. HAVE First(i)
  <2>3. ~(i < n)
    BY <1>2, <1>4, <2>2
  <2>4. ~(n < i)
    BY <1>2, <1>3, <2>2
  <2>5. QED
    BY <1>2, <2>3, <2>4
<1> HIDE DEF First
<1>7. (CHOOSE i \in 0..Period : First(i)) = n
  BY <1>2, <1>5, <1>6
<1>8. Bucket(t, k) = b
  BY <1>1, <1>7 DEF Bucket, First
<1>9. Ends(t, k)
  BY <1>2, <1>3 DEF Ends
<1>10. QED
  BY <1>1, <1>8, <1>9 DEF Found

(* The search finds no key that has no entry. *)
LEMMA GetMisses ==
    ASSUME hash \in [Keys -> Hashes], NEW t, TableOK(hash, t), NEW k \in Keys,
           k \notin KeysOf(t)
    PROVE  ~Found(t, k)
<1>1. SUFFICES ASSUME Ends(t, k), t.buf[Bucket(t, k)].flags = "occupied"
               PROVE  FALSE
  BY DEF Found
<1> DEFINE Stopping == {i \in 0..Period : Stops(t, k, i)}
           First(i) == Stops(t, k, i) /\ \A j \in 0..(i - 1) : ~Stops(t, k, j)
<1>2. Period \in Nat
  BY DictionaryAssumption
<1>3. \E i \in 0..Period : First(i)
  <2>1. Stopping \subseteq Nat /\ Stopping # {}
    BY <1>1 DEF Ends
  <2> HIDE DEF Stopping
  <2>2. PICK i \in Stopping : \A j \in Stopping : i <= j
    BY <2>1, Least
  <2> USE DEF Stopping
  <2>3. \A j \in 0..(i - 1) : j \in 0..Period /\ ~(i <= j)
    BY <1>2, <2>2
  <2>4. \A j \in 0..(i - 1) : ~Stops(t, k, j)
    BY <2>2, <2>3
  <2>5. QED
    BY <2>2, <2>4
<1> HIDE DEF First
<1>4. PICK i \in 0..Period : First(i) /\ Bucket(t, k) = Place(t, k, i)
  BY <1>3 DEF Bucket, First
<1>5. Stops(t, k, i)
  BY <1>4 DEF First
<1> DEFINE b == Place(t, k, i)
<1>6. t.buf[b].flags = "occupied" /\ t.buf[b].key = k
  BY <1>1, <1>4, <1>5 DEF Stops
<1>7. b \in 0..(t.buf_cap - 1)
  BY SpotIn DEF TableOK, Spot, Place
<1>8. b \in Entries(t)
  BY <1>6, <1>7 DEF Entries, TableOK
<1>9. QED
  BY <1>6, <1>8 DEF KeysOf

-----------------------------------------------------------------------------
(* htab_put and htab_del *)

\* u is t with e in bucket b and load n.
Changed(t, u, b, e, n) ==
    u = [key_sz |-> t.key_sz, buf_cap |-> t.buf_cap, buf_load |-> n,
         buf |-> [t.buf EXCEPT ![b] = e]]

(* A changed table has another bucket b, and the same others. *)
LEMMA ChangedFields ==
    ASSUME NEW h, NEW t, TableOK(h, t), NEW b \in DOMAIN t.buf, NEW e \in Buckets, NEW n,
           NEW u, Changed(t, u, b, e, n)
    PROVE  /\ u = [key_sz |-> u.key_sz, buf_cap |-> u.buf_cap, buf_load |-> u.buf_load,
                   buf |-> u.buf]
           /\ u.buf_cap = t.buf_cap /\ u.buf_load = n
           /\ u.buf \in [0..(u.buf_cap - 1) -> Buckets]
           /\ u.buf[b] = e
           /\ \A c \in DOMAIN t.buf : c # b => u.buf[c] = t.buf[c]
           /\ \A k, i : Spot(h, u, k, i) = Spot(h, t, k, i)
BY DEF Changed, TableOK, Spot

(* The bucket that htab_put writes on is free, and the probes before it    *)
(* are not.                                                                *)
LEMMA PutPlace ==
    ASSUME hash \in [Keys -> Hashes], NEW t, TableOK(hash, t), NEW k \in Keys, ~Refuses(t, k)
    PROVE  LET i == Min(FreeProbes(t, k))
           IN  /\ i \in 0..(MAX_PROBES - 1)
               /\ Place(t, k, i) \in DOMAIN t.buf \ Entries(t)
               /\ \A j \in 0..(i - 1) : t.buf[Place(t, k, j)].flags = "occupied"
<1> DEFINE T == FreeProbes(t, k)
           i == Min(T)
<1>1. T \subseteq Nat /\ T \subseteq 0..(MAX_PROBES - 1) /\ T # {}
  BY DictionaryAssumption DEF FreeProbes, Refuses
<1> HIDE DEF T
<1>2. i \in T /\ \A j \in T : i <= j
  BY <1>1, MinIs
<1> HIDE DEF i
<1>3. i \in 0..(MAX_PROBES - 1) /\ i \in 0..Period
  BY <1>1, <1>2, DictionaryAssumption
<1>4. Place(t, k, i) \in DOMAIN t.buf
  BY <1>3, SpotIn DEF TableOK, Spot, Place
<1>5. t.buf[Place(t, k, i)].flags # "occupied"
  BY <1>2 DEF T, FreeProbes
<1>6. ASSUME NEW j \in 0..(i - 1)
      PROVE  t.buf[Place(t, k, j)].flags = "occupied"
  <2>1. j \in 0..(MAX_PROBES - 1) /\ ~(i <= j)
    BY <1>3, DictionaryAssumption
  <2>2. j \notin T
    BY <1>2, <2>1
  <2>3. QED
    BY <2>1, <2>2 DEF T, FreeProbes
<1>7. QED
  BY <1>3, <1>4, <1>5, <1>6 DEF Entries, i, T

(* A table after htab_put of an absent key: one entry more. *)
PutDone(t, u, b, k, v) ==
    /\ b \in DOMAIN t.buf \ Entries(t)
    /\ Entries(u) = Entries(t) \cup {b}
    /\ u.buf[b].key = k /\ u.buf[b].val = v
    /\ \A c \in Entries(t) : u.buf[c] = t.buf[c]
    /\ u.buf_cap = t.buf_cap /\ u.buf_load = t.buf_load + 1

(* htab_put keeps a table in order. *)
LEMMA PutOK ==
    ASSUME hash \in [Keys -> Hashes], NEW t, TableOK(hash, t), NEW k \in Keys, k \notin KeysOf(t),
           NEW v \in Values \cup {NoValue}, ~Refuses(t, k), NEW u, u = htab_put(t, k, v)
    PROVE  TableOK(hash, u) /\ \E b : PutDone(t, u, b, k, v)
<1> DEFINE i == Min(FreeProbes(t, k))
           b == Place(t, k, i)
           e == [flags |-> "occupied", key |-> k, hash |-> i, val |-> v]
<1>1. /\ i \in 0..(MAX_PROBES - 1) /\ b \in DOMAIN t.buf \ Entries(t)
      /\ \A j \in 0..(i - 1) : t.buf[Place(t, k, j)].flags = "occupied"
  BY PutPlace
<1>2. u = [t EXCEPT !.buf_load = t.buf_load + 1, !.buf[b] = e]
  BY DEF htab_put
<1> HIDE DEF i
<1>3. e \in Buckets
  BY <1>1, DictionaryAssumption DEF Buckets
<1> DEFINE n == t.buf_load + 1
<1>4. Changed(t, u, b, e, n)
  BY <1>2 DEF TableOK, Changed
<1>5. Place(t, k, i) = Spot(hash, t, k, i) /\ \A j : Place(t, k, j) = Spot(hash, t, k, j)
  BY DEF Place, Spot
<1>6. e.flags = "occupied" /\ e.key = k /\ e.hash = i /\ e.val = v
  OBVIOUS
<1> HIDE DEF b, e, n
<1>7. /\ u = [key_sz |-> u.key_sz, buf_cap |-> u.buf_cap, buf_load |-> u.buf_load,
               buf |-> u.buf]
      /\ u.buf_cap = t.buf_cap /\ u.buf_load = n
      /\ u.buf \in [0..(u.buf_cap - 1) -> Buckets]
      /\ u.buf[b] = e
      /\ \A c \in DOMAIN t.buf : c # b => u.buf[c] = t.buf[c]
      /\ \A x, j : Spot(hash, u, x, j) = Spot(hash, t, x, j)
  BY <1>1, <1>3, <1>4, ChangedFields
<1>8. DOMAIN u.buf = DOMAIN t.buf
  BY <1>7 DEF TableOK
<1>9. Entries(u) = Entries(t) \cup {b}
  BY <1>1, <1>7, <1>8, <1>6 DEF Entries
<1>10. u.buf_load = Cardinality(Entries(u))
  <2>1. IsFiniteSet(Entries(t)) /\ b \notin Entries(t)
    BY <1>1, EntriesFinite
  <2>2. Cardinality(Entries(t) \cup {b}) = Cardinality(Entries(t)) + 1
    BY <2>1, FS_AddElement
  <2>3. QED
    BY <1>7, <1>9, <2>2 DEF n, TableOK
<1>11. \A c \in DOMAIN t.buf : t.buf[c].flags # "clear" => u.buf[c].flags # "clear"
  BY <1>7, <1>6
<1>12. ASSUME NEW x \in Keys, NEW m \in 0..(MAX_PROBES - 1), NEW j \in 0..(m - 1)
       PROVE  Spot(hash, t, x, j) \in DOMAIN t.buf
  <2>1. j \in 0..Period
    BY DictionaryAssumption
  <2>2. QED
    BY <2>1, SpotIn DEF TableOK
<1>13. ASSUME NEW c \in Entries(u)
       PROVE  WellPlaced(hash, u, c)
  <2>1. CASE c = b
    <3>1. \A j \in 0..(i - 1) : u.buf[Spot(hash, u, k, j)].flags # "clear"
      BY <1>1, <1>7, <1>11, <1>5, <1>12
    <3>2. Spot(hash, u, k, i) = b
      BY <1>7, <1>5 DEF b
    <3>3. QED
      BY <1>1, <1>7, <1>6, <2>1, <3>1, <3>2 DEF WellPlaced
  <2>2. CASE c # b
    <3>1. c \in Entries(t) /\ c \in DOMAIN t.buf /\ u.buf[c] = t.buf[c]
      BY <1>7, <1>9, <2>2 DEF Entries
    <3>2. WellPlaced(hash, t, c)
      BY <3>1 DEF TableOK
    <3>3. QED
      BY <1>7, <1>11, <1>12, <3>1, <3>2 DEF WellPlaced
  <2>3. QED
    BY <2>1, <2>2
<1>14. ASSUME NEW c \in Entries(u), NEW d \in Entries(u), u.buf[c].key = u.buf[d].key
       PROVE  c = d
  <2>1. \A x \in Entries(t) : u.buf[x] = t.buf[x] /\ u.buf[x].key # k
    BY <1>1, <1>7 DEF KeysOf, Entries
  <2>2. u.buf[b].key = k
    BY <1>7, <1>6
  <2>3. QED
    BY <1>9, <1>14, <2>1, <2>2 DEF TableOK
<1>15. TableOK(hash, u)
  <2>1. u.buf_cap \in 1..MaxCap
    BY <1>7 DEF TableOK
  <2>2. QED
    BY <1>7, <1>10, <1>13, <1>14, <2>1 DEF TableOK
<1>16. PutDone(t, u, b, k, v)
  BY <1>1, <1>7, <1>9, <1>6 DEF PutDone, n, Entries
<1>17. QED
  BY <1>15, <1>16

(* A table without the entry in b. *)
DelDone(t, u, b) ==
    /\ Entries(u) = Entries(t) \ {b}
    /\ \A c \in Entries(u) : u.buf[c] = t.buf[c]
    /\ u.buf_cap = t.buf_cap /\ u.buf_load = t.buf_load - 1

(* htab_del keeps a table in order: the bucket is not cleared, so the      *)
(* searches that went past it still do.                                    *)
LEMMA DelOK ==
    ASSUME hash \in [Keys -> Hashes], NEW t, TableOK(hash, t), NEW b \in Entries(t),
           NEW u, u = htab_del(t, t.buf[b].key)
    PROVE  TableOK(hash, u) /\ DelDone(t, u, b)
<1> DEFINE e == DeletedBucket
           n == t.buf_load - 1
<1>1. b \in DOMAIN t.buf /\ t.buf[b].flags = "occupied"
  BY DEF Entries
<1>2. e \in Buckets /\ e.flags = "deleted"
  BY DictionaryAssumption DEF DeletedBucket, ClearBucket, Buckets
<1>3. Changed(t, u, b, e, n)
  <2>1. Bucket(t, t.buf[b].key) = b
    BY GetFinds
  <2>2. u = [t EXCEPT !.buf_load = t.buf_load - 1, !.buf[b] = DeletedBucket]
    BY <2>1 DEF htab_del
  <2>3. QED
    BY <2>2 DEF Changed, TableOK
<1> HIDE DEF e, n
<1>4. /\ u = [key_sz |-> u.key_sz, buf_cap |-> u.buf_cap, buf_load |-> u.buf_load,
               buf |-> u.buf]
      /\ u.buf_cap = t.buf_cap /\ u.buf_load = n
      /\ u.buf \in [0..(u.buf_cap - 1) -> Buckets]
      /\ u.buf[b] = e
      /\ \A c \in DOMAIN t.buf : c # b => u.buf[c] = t.buf[c]
      /\ \A x, j : Spot(hash, u, x, j) = Spot(hash, t, x, j)
  BY <1>1, <1>2, <1>3, ChangedFields
<1>5. DOMAIN u.buf = DOMAIN t.buf
  BY <1>4 DEF TableOK
<1>6. Entries(u) = Entries(t) \ {b}
  BY <1>1, <1>2, <1>4, <1>5 DEF Entries
<1>7. u.buf_load = Cardinality(Entries(u))
  <2>1. IsFiniteSet(Entries(t))
    BY EntriesFinite
  <2>2. Cardinality(Entries(t) \ {b}) = Cardinality(Entries(t)) - 1
    BY <2>1, FS_RemoveElement
  <2>3. QED
    BY <1>4, <1>6, <2>2 DEF n, TableOK
<1>8. \A c \in DOMAIN t.buf : t.buf[c].flags # "clear" => u.buf[c].flags # "clear"
  BY <1>2, <1>4
<1>9. ASSUME NEW x \in Keys, NEW m \in 0..(MAX_PROBES - 1), NEW j \in 0..(m - 1)
       PROVE  Spot(hash, t, x, j) \in DOMAIN t.buf
  <2>1. j \in 0..Period
    BY DictionaryAssumption
  <2>2. QED
    BY <2>1, SpotIn DEF TableOK
<1>10. ASSUME NEW c \in Entries(u)
       PROVE  WellPlaced(hash, u, c)
  <2>1. c \in Entries(t) /\ u.buf[c] = t.buf[c]
    BY <1>4, <1>6 DEF Entries
  <2>2. WellPlaced(hash, t, c)
    BY <2>1 DEF TableOK
  <2>3. QED
    BY <1>4, <1>8, <1>9, <2>1, <2>2 DEF WellPlaced
<1>11. \A c \in Entries(u) : c \in Entries(t) /\ u.buf[c] = t.buf[c]
  BY <1>4, <1>6 DEF Entries
<1>12. TableOK(hash, u)
  <2>1. u.buf_cap \in 1..MaxCap
    BY <1>4 DEF TableOK
  <2>2. \A c, d \in Entries(u) : u.buf[c].key = u.buf[d].key => c = d
    BY <1>11 DEF TableOK
  <2>3. QED
    BY <1>4, <1>7, <1>10, <2>1, <2>2 DEF TableOK
<1>13. DelDone(t, u, b)
  BY <1>4, <1>6, <1>11 DEF DelDone, n
<1>14. QED
  BY <1>12, <1>13

(* Another value in the bucket of an entry keeps a table in order, *)
LEMMA ReplaceOK ==
    ASSUME hash \in [Keys -> Hashes], NEW t, TableOK(hash, t), NEW b \in Entries(t),
           NEW e \in Buckets, e.flags = "occupied", e.key = t.buf[b].key, e.hash = t.buf[b].hash,
           NEW u, Changed(t, u, b, e, t.buf_load)
    PROVE  /\ TableOK(hash, u)
           /\ Entries(u) = Entries(t)
           /\ \A c \in Entries(t) : /\ u.buf[c].key = t.buf[c].key
                                    /\ u.buf[c].val = IF c = b THEN e.val ELSE t.buf[c].val
           /\ u.buf_cap = t.buf_cap /\ u.buf_load = t.buf_load
<1> DEFINE n == t.buf_load
<1>1. b \in DOMAIN t.buf /\ t.buf[b].flags = "occupied" /\ t.buf[b] \in Buckets
  BY DEF Entries, TableOK
<1>2. Changed(t, u, b, e, n)
  OBVIOUS
<1>3. /\ e \in Buckets /\ e.flags = "occupied" /\ e.key = t.buf[b].key
      /\ e.hash = t.buf[b].hash
  OBVIOUS
<1> HIDE DEF n
<1>4. /\ u = [key_sz |-> u.key_sz, buf_cap |-> u.buf_cap, buf_load |-> u.buf_load,
               buf |-> u.buf]
      /\ u.buf_cap = t.buf_cap /\ u.buf_load = n
      /\ u.buf \in [0..(u.buf_cap - 1) -> Buckets]
      /\ u.buf[b] = e
      /\ \A c \in DOMAIN t.buf : c # b => u.buf[c] = t.buf[c]
      /\ \A x, j : Spot(hash, u, x, j) = Spot(hash, t, x, j)
  <2>1. b \in DOMAIN t.buf /\ e \in Buckets
    BY <1>1, <1>3
  <2>2. QED
    BY <1>2, <2>1, ChangedFields
<1>5. DOMAIN u.buf = DOMAIN t.buf
  BY <1>4 DEF TableOK
<1>6. Entries(u) = Entries(t)
  BY <1>1, <1>3, <1>4, <1>5 DEF Entries
<1>7. \A c \in DOMAIN t.buf : /\ u.buf[c].flags = t.buf[c].flags /\ u.buf[c].key = t.buf[c].key
                              /\ u.buf[c].hash = t.buf[c].hash
  BY <1>1, <1>3, <1>4
<1>8. ASSUME NEW x \in Keys, NEW m \in 0..(MAX_PROBES - 1), NEW j \in 0..(m - 1)
       PROVE  Spot(hash, t, x, j) \in DOMAIN t.buf
  <2>1. j \in 0..Period
    BY DictionaryAssumption
  <2>2. QED
    BY <2>1, SpotIn DEF TableOK
<1>9. ASSUME NEW c \in Entries(u)
       PROVE  WellPlaced(hash, u, c)
  <2>1. c \in Entries(t) /\ c \in DOMAIN t.buf
    BY <1>6 DEF Entries
  <2>2. WellPlaced(hash, t, c)
    BY <2>1 DEF TableOK
  <2>3. QED
    BY <1>4, <1>7, <1>8, <2>1, <2>2 DEF WellPlaced
<1>10. \A c \in Entries(t) : c \in DOMAIN t.buf
  BY DEF Entries
<1>11. TableOK(hash, u)
  <2>1. u.buf_cap \in 1..MaxCap
    BY <1>4 DEF TableOK
  <2>2. \A c, d \in Entries(u) : u.buf[c].key = u.buf[d].key => c = d
    BY <1>6, <1>7, <1>10 DEF TableOK
  <2>3. u.buf_load = Cardinality(Entries(u))
    BY <1>4, <1>6 DEF TableOK, n
  <2>4. QED
    BY <1>4, <1>9, <2>1, <2>2, <2>3 DEF TableOK
<1>12. \A c \in Entries(t) : /\ u.buf[c].key = t.buf[c].key
                             /\ u.buf[c].val = IF c = b THEN e.val ELSE t.buf[c].val
  BY <1>3, <1>4, <1>7, <1>10
<1>13. QED
  BY <1>4, <1>6, <1>11, <1>12 DEF n

(* as dict_update puts one. *)
LEMMA UpdateChanges ==
    ASSUME NEW h, NEW t, TableOK(h, t), NEW b \in Entries(t), NEW v \in Values
    PROVE  \E e \in Buckets :
              /\ e.flags = "occupied" /\ e.key = t.buf[b].key /\ e.hash = t.buf[b].hash
              /\ e.val = v
              /\ Changed(t, [t EXCEPT !.buf[b].val = v], b, e, t.buf_load)
<1> DEFINE e == [t.buf[b] EXCEPT !.val = v]
<1>1. b \in DOMAIN t.buf /\ t.buf[b].flags = "occupied" /\ t.buf[b] \in Buckets
  BY DEF Entries, TableOK
<1>2. /\ e \in Buckets /\ e.flags = "occupied" /\ e.key = t.buf[b].key
      /\ e.hash = t.buf[b].hash /\ e.val = v
  BY <1>1 DEF Buckets
<1>3. ASSUME NEW u, u = [t EXCEPT !.buf[b].val = v]
      PROVE  Changed(t, u, b, e, t.buf_load)
  BY <1>1, <1>3 DEF Changed, TableOK
<1> HIDE DEF e
<1>4. QED
  BY <1>2, <1>3

-----------------------------------------------------------------------------
(* htab_rehash *)

\* One entry of the old table, put in the new one if it takes it.
CopyOne(e, t) == IF Refuses(t, e.key) THEN t ELSE htab_put(t, e.key, e.val)

\* The function by which the fold of htab_rehash copies a set of entries.
Copies(g, S, old, new) ==
    g = [s \in SUBSET S |->
            IF s = {} THEN new ELSE CopyOne(old.buf[Max(s)], g[s \ {Max(s)}])]

(* There is such a function: it is built from the small sets up. *)
LEMMA CopiesExist ==
    ASSUME NEW h, NEW old, TableOK(h, old), NEW new
    PROVE  \E g : Copies(g, Entries(old), old, new)
<1> DEFINE S == Entries(old)
           Value(s, g) == IF s = {} THEN new ELSE CopyOne(old.buf[Max(s)], g[s \ {Max(s)}])
           UpTo(g, m) == \A s \in SUBSET S : Cardinality(s) <= m => g[s] = Value(s, g)
           Bad == {m \in Nat : ~\E g : UpTo(g, m)}
<1>1. /\ IsFiniteSet(S) /\ S \subseteq 0..(old.buf_cap - 1) /\ Cardinality(S) \in Nat
      /\ old.buf_cap - 1 \in Nat
  <2>1. IsFiniteSet(S) /\ S \subseteq 0..(old.buf_cap - 1) /\ Cardinality(S) \in Nat
    BY EntriesFinite
  <2>2. old.buf_cap - 1 \in Nat
    BY DictionaryAssumption DEF TableOK
  <2>3. QED
    BY <2>1, <2>2
<1>2. ASSUME NEW s \in SUBSET S
      PROVE  /\ IsFiniteSet(s) /\ Cardinality(s) \in Nat /\ Cardinality(s) <= Cardinality(S)
             /\ s # {} => /\ Max(s) \in s
                          /\ Cardinality(s \ {Max(s)}) = Cardinality(s) - 1
                          /\ s \ {Max(s)} \in SUBSET S
  <2>1. IsFiniteSet(s) /\ Cardinality(s) \in Nat /\ Cardinality(s) <= Cardinality(S)
    BY <1>1, FS_Subset, FS_CardinalityType
  <2>2. ASSUME s # {}
        PROVE  Max(s) \in s
    <3>1. PICK n \in Nat : n = old.buf_cap - 1
      BY <1>1
    <3>2. s \subseteq 0..n
      BY <1>1, <3>1
    <3>3. QED
      BY <2>2, <3>2, MaxIs
  <2>3. ASSUME s # {}
        PROVE  Cardinality(s \ {Max(s)}) = Cardinality(s) - 1
    BY <2>1, <2>2, <2>3, FS_RemoveElement
  <2>4. QED
    BY <2>1, <2>2, <2>3
<1> HIDE DEF S
<1>3. Bad = {}
  <2>1. SUFFICES ASSUME Bad # {} PROVE FALSE
    OBVIOUS
  <2>2. PICK m \in Bad : \A k \in Bad : m <= k
    <3>1. Bad \subseteq Nat
      OBVIOUS
    <3> HIDE DEF Bad
    <3>2. QED
      BY <2>1, <3>1, Least
  <2>3. CASE m = 0
    <3> DEFINE g == [s \in SUBSET S |-> new]
    <3>1. ASSUME NEW s \in SUBSET S, Cardinality(s) <= 0
          PROVE  s = {}
      <4>1. IsFiniteSet(s) /\ Cardinality(s) \in Nat
        BY <1>2
      <4>2. IsFiniteSet(s) /\ Cardinality(s) = 0
        BY <3>1, <4>1
      <4>3. QED
        BY <4>2, FS_EmptySet
    <3>2. UpTo(g, 0)
      BY <3>1
    <3>3. QED
      BY <2>2, <2>3, <3>2
  <2>4. CASE m # 0
    <3>1. m - 1 \in Nat /\ m - 1 \notin Bad
      <4>1. m \in Nat
        OBVIOUS
      <4> HIDE DEF Bad
      <4>2. m - 1 \in Nat /\ ~(m <= m - 1)
        BY <4>1, <2>4
      <4>3. QED
        BY <2>2, <4>2
    <3>2. PICK g : UpTo(g, m - 1)
      BY <3>1
    <3> DEFINE f == [s \in SUBSET S |-> IF Cardinality(s) <= m - 1 THEN g[s] ELSE Value(s, g)]
    <3>3. ASSUME NEW s \in SUBSET S, Cardinality(s) <= m
          PROVE  f[s] = Value(s, f)
      <4>1. f[s] = Value(s, g)
        BY <3>2
      <4>2. s # {} => f[s \ {Max(s)}] = g[s \ {Max(s)}]
        BY <1>2, <2>2, <3>3
      <4> HIDE DEF f
      <4>3. QED
        BY <4>1, <4>2
    <3> HIDE DEF f
    <3>4. UpTo(f, m)
      BY <3>3
    <3>5. QED
      BY <2>2, <3>4
  <2>5. QED
    BY <2>3, <2>4
<1>4. PICK g : UpTo(g, Cardinality(S))
  <2>1. Cardinality(S) \in Nat /\ Cardinality(S) \notin Bad
    BY <1>1, <1>3
  <2>2. QED
    BY <2>1
<1> DEFINE f == [s \in SUBSET S |-> g[s]]
<1>5. ASSUME NEW s \in SUBSET S
      PROVE  f[s] = Value(s, f)
  <2>1. g[s] = Value(s, g)
    BY <1>2, <1>4
  <2>2. s # {} => f[s \ {Max(s)}] = g[s \ {Max(s)}]
    BY <1>2
  <2>3. f[s] = g[s]
    OBVIOUS
  <2> HIDE DEF f
  <2>4. QED
    BY <2>1, <2>2, <2>3
<1>6. f = [s \in SUBSET S |-> f[s]]
  OBVIOUS
<1> HIDE DEF f
<1>7. Copies(f, S, old, new)
  BY <1>5, <1>6 DEF Copies
<1>8. QED
  BY <1>7 DEF S

\* t holds entries of the set s of the old table, and no others.
Part(t, s, old, cap) ==
    /\ TableOK(hash, t)
    /\ t.buf_cap = cap
    /\ t.buf_load <= Cardinality(s)
    /\ \A b \in Entries(t) : \E c \in s : /\ t.buf[b].key = old.buf[c].key
                                          /\ t.buf[b].val = old.buf[c].val

(* A new table has no entries. *)
LEMMA NewOK ==
    ASSUME NEW ks, NEW cap \in 1..MaxCap
    PROVE  LET t == htab_new(ks, cap)
           IN  TableOK(hash, t) /\ Entries(t) = {} /\ t.buf_load = 0 /\ t.buf_cap = cap
<1> DEFINE t == htab_new(ks, cap)
<1>1. ClearBucket \in Buckets /\ ClearBucket.flags = "clear"
  BY DictionaryAssumption DEF ClearBucket, Buckets
<1>2. /\ t = [key_sz |-> t.key_sz, buf_cap |-> t.buf_cap, buf_load |-> t.buf_load, buf |-> t.buf]
      /\ t.buf_cap = cap /\ t.buf_load = 0
      /\ t.buf \in [0..(t.buf_cap - 1) -> Buckets]
      /\ \A b \in DOMAIN t.buf : t.buf[b] = ClearBucket
  BY <1>1 DEF htab_new
<1> HIDE DEF t
<1>3. Entries(t) = {}
  BY <1>1, <1>2 DEF Entries
<1>4. Cardinality(Entries(t)) = 0
  BY <1>3, FS_EmptySet
<1>5. QED
  BY <1>2, <1>3, <1>4 DEF TableOK, t

(* One more entry copied. *)
LEMMA CopyOneOK ==
    ASSUME hash \in [Keys -> Hashes], NEW old, TableOK(hash, old), NEW s \in SUBSET Entries(old),
           NEW x \in s, IsFiniteSet(s), NEW cap, NEW t, Part(t, s \ {x}, old, cap)
    PROVE  Part(CopyOne(old.buf[x], t), s, old, cap)
<1> DEFINE k == old.buf[x].key
           v == old.buf[x].val
<1>1. Cardinality(s \ {x}) = Cardinality(s) - 1 /\ Cardinality(s) \in Nat
  BY FS_RemoveElement, FS_CardinalityType
<1>2. x \in Entries(old) /\ k \in Keys /\ v \in Values \cup {NoValue}
  BY DEF TableOK, WellPlaced, Entries, Buckets
<1>3. t.buf_load \in Nat /\ t.buf_load <= Cardinality(s) - 1
  <2>1. Cardinality(Entries(t)) \in Nat
    BY EntriesFinite DEF Part
  <2>2. QED
    BY <1>1, <2>1 DEF Part, TableOK
<1>4. CASE Refuses(t, k)
  <2>1. CopyOne(old.buf[x], t) = t
    BY <1>4 DEF CopyOne
  <2>2. t.buf_load <= Cardinality(s)
    BY <1>1, <1>3
  <2>3. QED
    BY <2>1, <2>2 DEF Part
<1>5. CASE ~Refuses(t, k)
  <2>1. k \notin KeysOf(t)
    <3>1. SUFFICES ASSUME NEW b \in Entries(t), t.buf[b].key = k PROVE FALSE
      BY DEF KeysOf
    <3>2. PICK c \in s \ {x} : t.buf[b].key = old.buf[c].key
      BY DEF Part
    <3>3. c = x
      BY <1>2, <3>1, <3>2 DEF TableOK
    <3>4. QED
      BY <3>2, <3>3
  <2>2. PICK u : u = htab_put(t, k, v)
    OBVIOUS
  <2>3. CopyOne(old.buf[x], t) = u
    BY <1>5, <2>2 DEF CopyOne
  <2>4. TableOK(hash, t)
    BY DEF Part
  <2>5. TableOK(hash, u) /\ \E b : PutDone(t, u, b, k, v)
    <3>1. k \in Keys /\ v \in Values \cup {NoValue}
      BY <1>2
    <3> HIDE DEF k, v
    <3>2. QED
      BY <1>5, <2>1, <2>2, <2>4, <3>1, PutOK
  <2>6. PICK b : PutDone(t, u, b, k, v)
    BY <2>5
  <2>7. u.buf_cap = cap /\ u.buf_load <= Cardinality(s)
    BY <1>1, <1>3, <2>6 DEF PutDone, Part
  <2>8. \A c \in Entries(u) : \E d \in s : /\ u.buf[c].key = old.buf[d].key
                                          /\ u.buf[c].val = old.buf[d].val
    BY <2>6 DEF PutDone, Part
  <2>9. QED
    BY <2>3, <2>5, <2>7, <2>8 DEF Part
<1>6. QED
  BY <1>4, <1>5

(* htab_rehash copies entries of the old table, and no others. *)
LEMMA RehashOK ==
    ASSUME hash \in [Keys -> Hashes], NEW old, TableOK(hash, old), NEW ks, NEW cap \in 1..MaxCap
    PROVE  Part(htab_rehash(old, htab_new(ks, cap)), Entries(old), old, cap)
<1> DEFINE S == Entries(old)
           new == htab_new(ks, cap)
<1>1. TableOK(hash, new) /\ Entries(new) = {} /\ new.buf_load = 0 /\ new.buf_cap = cap
  BY NewOK
<1> HIDE DEF new
<1> DEFINE g == CHOOSE g : Copies(g, S, old, new)
<1>2. htab_rehash(old, new) = g[S]
  BY DEF htab_rehash, MapThenFoldSet, Copies, CopyOne
<1>3. Copies(g, S, old, new)
  BY CopiesExist
<1> HIDE DEF g
<1>4. /\ IsFiniteSet(S) /\ S \subseteq 0..(old.buf_cap - 1) /\ old.buf_cap - 1 \in Nat
  <2>1. IsFiniteSet(S) /\ S \subseteq 0..(old.buf_cap - 1)
    BY EntriesFinite
  <2>2. old.buf_cap - 1 \in Nat
    BY DictionaryAssumption DEF TableOK
  <2>3. QED
    BY <2>1, <2>2
<1> DEFINE Sizes == {m \in Nat : \E s \in SUBSET S : Cardinality(s) = m /\ ~Part(g[s], s, old, cap)}
<1>5. Sizes = {}
  <2>1. SUFFICES ASSUME Sizes # {} PROVE FALSE
    OBVIOUS
  <2>2. PICK m \in Sizes : \A k \in Sizes : m <= k
    <3>1. Sizes \subseteq Nat
      OBVIOUS
    <3> HIDE DEF Sizes
    <3>2. QED
      BY <2>1, <3>1, Least
  <2>3. PICK s \in SUBSET S : Cardinality(s) = m /\ ~Part(g[s], s, old, cap)
    OBVIOUS
  <2>4. IsFiniteSet(s)
    BY <1>4, FS_Subset
  <2>5. g[s] = IF s = {} THEN new ELSE CopyOne(old.buf[Max(s)], g[s \ {Max(s)}])
    BY <1>3 DEF Copies
  <2>6. CASE s = {}
    <3>1. Cardinality(s) = 0
      BY <2>6, FS_EmptySet
    <3>2. Part(new, s, old, cap)
      BY <1>1, <3>1 DEF Part
    <3>3. QED
      BY <2>3, <2>5, <2>6, <3>2
  <2>7. CASE s # {}
    <3>1. Max(s) \in s
      <4>1. PICK n \in Nat : n = old.buf_cap - 1
        BY <1>4
      <4>2. s \subseteq 0..n
        BY <1>4, <4>1
      <4>3. QED
        BY <2>7, <4>2, MaxIs
    <3>2. PICK x \in s : x = Max(s)
      BY <3>1
    <3> DEFINE r == s \ {x}
    <3>3. r \in SUBSET S /\ Cardinality(r) = m - 1 /\ IsFiniteSet(r)
      BY <2>3, <2>4, FS_RemoveElement
    <3>4. Cardinality(r) \in Nat /\ Cardinality(r) < m
      BY <3>3, FS_CardinalityType
    <3> HIDE DEF r
    <3>5. Part(g[r], r, old, cap)
      <4>1. Cardinality(r) \notin Sizes
        <5>1. m \in Nat
          OBVIOUS
        <5> HIDE DEF Sizes
        <5>2. ~(m <= Cardinality(r))
          BY <3>4, <5>1
        <5>3. QED
          BY <2>2, <5>2
      <4>2. QED
        BY <3>3, <3>4, <4>1
    <3>6. Part(CopyOne(old.buf[x], g[r]), s, old, cap)
      BY <2>4, <3>5, CopyOneOK DEF r
    <3>7. g[s] = CopyOne(old.buf[x], g[r])
      BY <2>5, <2>7, <3>2 DEF r
    <3>8. QED
      BY <2>3, <3>6, <3>7
  <2>8. QED
    BY <2>6, <2>7
<1>6. Part(g[S], S, old, cap)
  <2>1. Cardinality(S) \in Nat
    BY <1>4, FS_CardinalityType
  <2>2. QED
    BY <1>5, <2>1
<1>7. QED
  BY <1>2, <1>6 DEF new

-----------------------------------------------------------------------------
(* The dictionary between two steps: the table is in order, it has the     *)
(* keys that were put and neither deleted nor dropped, with their values,  *)
(* and there is room for the entry that is being put.                      *)
Holds(t, m, d) ==
    /\ KeysOf(t) = DOMAIN m \ d
    /\ \A b \in Entries(t) : t.buf[b].val = m[t.buf[b].key]

HasRoom(t, n) == 10 * (t.buf_load + n) <= 7 * t.buf_cap

DictInv ==
    /\ hash \in [Keys -> Hashes]
    /\ TableOK(hash, htab)
    /\ Holds(htab, map, dropped)
    /\ HasRoom(htab, IF pc = "put" THEN 1 ELSE 0)
    /\ pc = "put" => arg.key \in Keys /\ arg.val \in Values /\ arg.key \notin KeysOf(htab)

(* The load and the capacity are numbers. *)
LEMMA Numbers ==
    ASSUME NEW h, NEW t, TableOK(h, t)
    PROVE  t.buf_load \in Nat /\ t.buf_cap \in Nat \ {0}
<1>1. Cardinality(Entries(t)) \in Nat
  BY EntriesFinite
<1>2. QED
  BY <1>1, DictionaryAssumption DEF TableOK

(* A new dictionary. *)
LEMMA DictStart == dict_new3 => DictInv
<1> SUFFICES ASSUME dict_new3 PROVE DictInv
  OBVIOUS
<1> DEFINE t == htab_new(InitialKeySz, InitialCap)
<1>1. InitialCap \in 1..MaxCap
  BY DictionaryAssumption
<1>2. TableOK(hash, t) /\ Entries(t) = {} /\ t.buf_load = 0 /\ t.buf_cap = InitialCap
  BY <1>1, NewOK
<1> HIDE DEF t
<1>3. htab = t /\ hash \in [Keys -> Hashes] /\ pc = "idle" /\ map = <<>> /\ dropped = {}
  BY DEF dict_new3, t
<1>4. KeysOf(t) = {} /\ DOMAIN map = {}
  BY <1>2, <1>3 DEF KeysOf
<1>5. HasRoom(t, 0)
  BY <1>1, <1>2 DEF HasRoom
<1>6. QED
  BY <1>2, <1>3, <1>4, <1>5 DEF DictInv, Holds

(* A rehash keeps what it does not drop. *)
LEMMA RehashKeeps ==
    ASSUME DictInv, NEW cap \in Nat \ {0}, NEW ks, dict_force_rehash3(cap, ks)
    PROVE  /\ TableOK(hash, htab') /\ Holds(htab', map, dropped')
           /\ KeysOf(htab') \subseteq KeysOf(htab)
           /\ htab'.buf_cap = cap /\ htab'.buf_load <= htab.buf_load
<1>1. cap \in 1..MaxCap
  BY DictionaryAssumption DEF dict_force_rehash3
<1>2. PICK t : t = htab'
  OBVIOUS
<1>3. Part(t, Entries(htab), htab, cap)
  <2>1. Part(htab_rehash(htab, htab_new(ks, cap)), Entries(htab), htab, cap)
    BY <1>1, RehashOK DEF DictInv
  <2>2. QED
    BY <1>2, <2>1 DEF dict_force_rehash3
<1>4. KeysOf(t) \subseteq KeysOf(htab)
  BY <1>3 DEF Part, KeysOf
<1>5. dropped' = dropped \cup (KeysOf(htab) \ KeysOf(t))
  BY <1>2 DEF dict_force_rehash3
<1>6. KeysOf(t) = DOMAIN map \ dropped'
  BY <1>4, <1>5 DEF DictInv, Holds
<1>7. \A b \in Entries(t) : t.buf[b].val = map[t.buf[b].key]
  BY <1>3 DEF Part, DictInv, Holds
<1>8. t.buf_load <= htab.buf_load
  BY <1>3 DEF Part, DictInv, TableOK
<1>9. QED
  BY <1>2, <1>3, <1>4, <1>6, <1>7, <1>8 DEF Part, Holds

(* dict_put makes room for one entry more: twice as many buckets are       *)
(* enough (hash.c, dict_put).                                              *)
LEMMA DictPutOK ==
    ASSUME DictInv, NEW k \in Keys, NEW v \in Values, PutAbsent(k, v)
    PROVE  DictInv'
<1>1. /\ pc = "idle" /\ pc' = "put" /\ arg' = [key |-> k, val |-> v]
      /\ UNCHANGED <<hash, map>>
      /\ ~Found(htab, k)
  BY DEF PutAbsent, dict_put
<1>2. k \notin KeysOf(htab)
  <2>1. SUFFICES ASSUME NEW b \in Entries(htab), htab.buf[b].key = k PROVE FALSE
    BY DEF KeysOf
  <2>2. Found(htab, htab.buf[b].key)
    BY GetFinds DEF DictInv
  <2>3. QED
    BY <1>1, <2>1, <2>2
<1> DEFINE cap == IF Loaded(htab) THEN 2 * htab.buf_cap ELSE htab.buf_cap
           ks == Widened(htab.key_sz, k)
<1>3. htab.buf_load \in Nat /\ htab.buf_cap \in Nat \ {0}
  BY Numbers DEF DictInv
<1>4. 10 * htab.buf_load <= 7 * htab.buf_cap
  BY <1>1, <1>3 DEF DictInv, HasRoom
<1>5. cap \in Nat \ {0} /\ 10 * (htab.buf_load + 1) <= 7 * cap
  BY <1>3, <1>4 DEF Loaded
<1>6. \/ UNCHANGED <<htab, dropped>> /\ cap = htab.buf_cap
      \/ dict_force_rehash3(cap, ks)
  BY DEF PutAbsent, dict_put
<1> HIDE DEF cap, ks
<1>7. /\ TableOK(hash, htab') /\ Holds(htab', map, dropped')
      /\ KeysOf(htab') \subseteq KeysOf(htab)
      /\ htab'.buf_cap = cap /\ htab'.buf_load <= htab.buf_load
  <2>1. CASE UNCHANGED <<htab, dropped>> /\ cap = htab.buf_cap
    BY <1>3, <2>1 DEF DictInv
  <2>2. CASE dict_force_rehash3(cap, ks)
    BY <1>5, <2>2, RehashKeeps
  <2>3. QED
    BY <1>6, <2>1, <2>2
<1>8. htab'.buf_load \in Nat
  BY <1>7, Numbers
<1>9. HasRoom(htab', 1)
  BY <1>3, <1>5, <1>7, <1>8 DEF HasRoom
<1>10. QED
  BY <1>1, <1>2, <1>7, <1>9 DEF DictInv

(* A refused entry makes the table four times as large. *)
LEMMA PutAgainOK ==
    ASSUME DictInv, PutAgain
    PROVE  DictInv'
<1>1. /\ pc = "put" /\ UNCHANGED <<hash, pc, arg, map>>
      /\ dict_force_rehash3(4 * htab.buf_cap, htab.key_sz)
  BY DEF PutAgain
<1>2. htab.buf_load \in Nat /\ htab.buf_cap \in Nat \ {0}
  BY Numbers DEF DictInv
<1>3. PICK cap \in Nat \ {0} : cap = 4 * htab.buf_cap
  BY <1>2
<1>4. /\ TableOK(hash, htab') /\ Holds(htab', map, dropped')
      /\ KeysOf(htab') \subseteq KeysOf(htab)
      /\ htab'.buf_cap = cap /\ htab'.buf_load <= htab.buf_load
  BY <1>1, <1>3, RehashKeeps
<1>5. htab'.buf_load \in Nat
  BY <1>4, Numbers
<1>6. HasRoom(htab', 1)
  <2>1. 10 * (htab.buf_load + 1) <= 7 * htab.buf_cap
    BY <1>1 DEF DictInv, HasRoom
  <2>2. QED
    BY <1>2, <1>3, <1>4, <1>5, <2>1 DEF HasRoom
<1>7. QED
  BY <1>1, <1>4, <1>6 DEF DictInv

(* The entry put is the newest of its key. *)
LEMMA PutEntryOK ==
    ASSUME DictInv, PutEntry
    PROVE  DictInv'
<1>1. /\ pc = "put" /\ pc' = "idle" /\ hash' = hash /\ ~Refuses(htab, arg.key)
      /\ htab' = htab_put(htab, arg.key, arg.val)
      /\ map' = With(arg.key, arg.val) /\ dropped' = dropped \ {arg.key}
  BY DEF PutEntry
<1>2. PICK k \in Keys, v \in Values : k = arg.key /\ v = arg.val /\ k \notin KeysOf(htab)
  BY <1>1 DEF DictInv
<1>3. PICK u : u = htab_put(htab, k, v)
  OBVIOUS
<1>4. TableOK(hash, u) /\ \E b : PutDone(htab, u, b, k, v)
  <2>1. v \in Values \cup {NoValue} /\ ~Refuses(htab, k) /\ TableOK(hash, htab)
        /\ hash \in [Keys -> Hashes]
    BY <1>1, <1>2 DEF DictInv
  <2>2. QED
    BY <1>2, <1>3, <2>1, PutOK
<1>5. PICK b : PutDone(htab, u, b, k, v)
  BY <1>4
<1>6. /\ DOMAIN map' = DOMAIN map \cup {k} /\ map'[k] = v
      /\ \A x \in DOMAIN map : x # k => map'[x] = map[x]
  BY <1>1, <1>2 DEF With
<1>7. KeysOf(u) = KeysOf(htab) \cup {k}
  BY <1>5 DEF PutDone, KeysOf
<1>8. KeysOf(u) = DOMAIN map' \ dropped'
  BY <1>1, <1>2, <1>6, <1>7 DEF DictInv, Holds
<1>9. ASSUME NEW c \in Entries(u)
      PROVE  u.buf[c].val = map'[u.buf[c].key]
  <2>1. CASE c = b
    BY <1>5, <1>6, <2>1 DEF PutDone
  <2>2. CASE c # b
    <3>1. c \in Entries(htab) /\ u.buf[c] = htab.buf[c]
      BY <1>5, <2>2 DEF PutDone
    <3>2. htab.buf[c].key \in KeysOf(htab)
      BY <3>1 DEF KeysOf
    <3>3. htab.buf[c].key \in DOMAIN map /\ htab.buf[c].key # k
      BY <1>2, <3>2 DEF DictInv, Holds
    <3>4. QED
      BY <1>6, <3>1, <3>3 DEF DictInv, Holds
  <2>3. QED
    BY <2>1, <2>2
<1>10. HasRoom(u, 0)
  <2>1. HasRoom(htab, 1)
    BY <1>1 DEF DictInv
  <2>2. htab.buf_load \in Nat
    BY Numbers DEF DictInv
  <2>3. QED
    BY <1>5, <2>1, <2>2 DEF PutDone, HasRoom
<1>11. htab' = u
  BY <1>1, <1>2, <1>3
<1>12. Holds(htab', map', dropped')
  BY <1>8, <1>9, <1>11 DEF Holds
<1>13. QED
  BY <1>1, <1>4, <1>10, <1>11, <1>12 DEF DictInv

(* An entry is deleted, in dict_del or in the body of a loop. *)
LEMMA DeleteOK ==
    ASSUME DictInv, NEW b \in Entries(htab), pc \in {"idle", "loop"},
           UNCHANGED <<hash, pc, dropped>>,
           htab' = htab_del(htab, htab.buf[b].key), map' = Without(htab.buf[b].key)
    PROVE  DictInv' /\ DelDone(htab, htab', b)
<1> DEFINE k == htab.buf[b].key
<1>1. PICK u : u = htab_del(htab, k)
  OBVIOUS
<1>2. TableOK(hash, u) /\ DelDone(htab, u, b)
  BY <1>1, DelOK DEF DictInv
<1>3. htab' = u
  BY <1>1
<1>4. DOMAIN map' = DOMAIN map \ {k} /\ \A x \in DOMAIN map : x # k => map'[x] = map[x]
  BY DEF Without
<1>5. \A c \in Entries(u) : c \in Entries(htab) /\ u.buf[c] = htab.buf[c] /\ htab.buf[c].key # k
  BY <1>2 DEF DelDone, DictInv, TableOK
<1>6. KeysOf(u) = KeysOf(htab) \ {k}
  <2>1. \A c \in Entries(htab) : c # b => c \in Entries(u)
    BY <1>2 DEF DelDone
  <2>2. QED
    BY <1>5, <2>1 DEF KeysOf
<1>7. KeysOf(u) = DOMAIN map' \ dropped'
  BY <1>4, <1>6 DEF DictInv, Holds
<1>8. ASSUME NEW c \in Entries(u)
      PROVE  u.buf[c].val = map'[u.buf[c].key]
  <2>1. htab.buf[c].key \in KeysOf(htab)
    BY <1>5 DEF KeysOf
  <2>2. htab.buf[c].key \in DOMAIN map
    BY <2>1 DEF DictInv, Holds
  <2>3. QED
    BY <1>4, <1>5, <2>2 DEF DictInv, Holds
<1>9. HasRoom(u, 0)
  <2>1. 10 * htab.buf_load <= 7 * htab.buf_cap
    <3>1. htab.buf_load \in Nat /\ htab.buf_cap \in Nat
      BY Numbers DEF DictInv
    <3>2. pc # "put" /\ HasRoom(htab, IF pc = "put" THEN 1 ELSE 0)
      BY DEF DictInv
    <3>3. QED
      BY <3>1, <3>2 DEF HasRoom
  <2>2. htab.buf_load \in Nat /\ htab.buf_cap \in Nat
    BY Numbers DEF DictInv
  <2>3. u.buf_load = htab.buf_load - 1 /\ u.buf_cap = htab.buf_cap
    BY <1>2 DEF DelDone
  <2>4. QED
    BY <2>1, <2>2, <2>3 DEF HasRoom
<1>10. Holds(htab', map', dropped')
  BY <1>3, <1>7, <1>8 DEF Holds
<1>11. pc' # "put" /\ hash' \in [Keys -> Hashes] /\ TableOK(hash', htab') /\ HasRoom(htab', 0)
  BY <1>2, <1>3, <1>9 DEF DictInv
<1>12. QED
  BY <1>2, <1>3, <1>10, <1>11 DEF DictInv

(* A value is changed. *)
LEMMA DictUpdateOK ==
    ASSUME DictInv, NEW k \in Keys, NEW v \in Values, dict_update(k, v)
    PROVE  DictInv'
<1>1. /\ pc = "idle" /\ Found(htab, k) /\ UNCHANGED <<hash, pc, dropped>>
      /\ htab' = [htab EXCEPT !.buf[Bucket(htab, k)].val = v]
      /\ map' = [map EXCEPT ![k] = v]
  BY DEF dict_update
<1>2. PICK b \in Entries(htab) : htab.buf[b].key = k
  BY <1>1, GetMisses DEF DictInv, KeysOf
<1>3. Bucket(htab, k) = b
  BY <1>2, GetFinds DEF DictInv
<1>4. PICK e \in Buckets :
         /\ e.flags = "occupied" /\ e.key = htab.buf[b].key /\ e.hash = htab.buf[b].hash
         /\ e.val = v
         /\ Changed(htab, [htab EXCEPT !.buf[b].val = v], b, e, htab.buf_load)
  BY UpdateChanges DEF DictInv
<1>5. PICK u : u = [htab EXCEPT !.buf[b].val = v]
  OBVIOUS
<1>6. Changed(htab, u, b, e, htab.buf_load) /\ htab' = u
  BY <1>1, <1>3, <1>4, <1>5
<1>7. /\ TableOK(hash, u) /\ Entries(u) = Entries(htab)
      /\ \A c \in Entries(htab) : /\ u.buf[c].key = htab.buf[c].key
                                  /\ u.buf[c].val = IF c = b THEN e.val ELSE htab.buf[c].val
      /\ u.buf_cap = htab.buf_cap /\ u.buf_load = htab.buf_load
  <2>1. e.flags = "occupied" /\ e.key = htab.buf[b].key /\ e.hash = htab.buf[b].hash
    BY <1>4
  <2>2. Changed(htab, u, b, e, htab.buf_load)
    BY <1>6
  <2>3. hash \in [Keys -> Hashes] /\ TableOK(hash, htab)
    BY DEF DictInv
  <2>4. QED
    BY <2>1, <2>2, <2>3, ReplaceOK
<1>8. KeysOf(u) = KeysOf(htab)
  BY <1>7 DEF KeysOf
<1>9. DOMAIN map' = DOMAIN map
  BY <1>1
<1>10. ASSUME NEW c \in Entries(u)
       PROVE  u.buf[c].val = map'[u.buf[c].key]
  <2>1. c \in Entries(htab) /\ u.buf[c].key = htab.buf[c].key
    BY <1>7
  <2>2. htab.buf[c].key \in DOMAIN map
    BY <2>1 DEF DictInv, Holds, KeysOf
  <2>3. CASE c = b
    BY <1>1, <1>2, <1>4, <1>7, <2>1, <2>2, <2>3
  <2>4. CASE c # b
    <3>1. htab.buf[c].key # k
      BY <1>2, <2>1, <2>4 DEF DictInv, TableOK
    <3>2. map'[htab.buf[c].key] = map[htab.buf[c].key]
      BY <1>1, <2>2, <3>1
    <3>3. QED
      BY <1>7, <2>1, <2>4, <3>2 DEF DictInv, Holds
  <2>5. QED
    BY <2>3, <2>4
<1>11. Holds(htab', map', dropped')
  BY <1>1, <1>6, <1>8, <1>9, <1>10 DEF Holds, DictInv
<1>12. HasRoom(htab', 0)
  BY <1>1, <1>6, <1>7 DEF HasRoom, DictInv
<1>13. QED
  BY <1>1, <1>6, <1>7, <1>11, <1>12 DEF DictInv

-----------------------------------------------------------------------------
(* The entry of a key that is found is deleted. *)
LEMMA DictDelOK ==
    ASSUME DictInv, NEW k \in Keys, dict_del(k)
    PROVE  DictInv'
<1>1. /\ pc = "idle" /\ Found(htab, k) /\ UNCHANGED <<hash, pc, dropped>>
      /\ htab' = htab_del(htab, k) /\ map' = Without(k)
  BY DEF dict_del
<1>2. PICK b \in Entries(htab) : htab.buf[b].key = k
  BY <1>1, GetMisses DEF DictInv, KeysOf
<1>3. pc \in {"idle", "loop"} /\ UNCHANGED <<hash, pc, dropped>>
  BY <1>1
<1>4. htab' = htab_del(htab, htab.buf[b].key) /\ map' = Without(htab.buf[b].key)
  BY <1>1, <1>2
<1>5. QED
  BY <1>3, <1>4, DeleteOK

(* What a loop over the entries has still to return is what it has begun   *)
(* with, without what it has returned.                                     *)
LoopInv ==
    pc = "loop" =>
       /\ iter = [state |-> iter.state, i |-> iter.i, end |-> iter.end,
                  seen |-> iter.seen, begun |-> iter.begun]
       /\ iter.state \in Nat /\ iter.i \in Nat /\ iter.end \in Nat
       /\ iter.begun = iter.seen \cup {htab.buf[b].key : b \in Coming}
       /\ iter.i + Cardinality(Coming) = iter.end

(* The entries that are coming are finitely many, and their first is Min. *)
LEMMA ComingFinite ==
    ASSUME DictInv
    PROVE  /\ Coming \subseteq Entries(htab) /\ Coming \subseteq Nat
           /\ IsFiniteSet(Coming) /\ Cardinality(Coming) \in Nat
           /\ Cardinality(Coming) = 0 <=> Coming = {}
<1>1. /\ IsFiniteSet(Entries(htab)) /\ Entries(htab) \subseteq 0..(htab.buf_cap - 1)
      /\ htab.buf_cap \in Nat
  BY EntriesFinite, Numbers DEF DictInv
<1>2. Coming \subseteq Entries(htab)
  BY DEF Coming
<1>3. IsFiniteSet(Coming)
  BY <1>1, <1>2, FS_Subset
<1>4. Cardinality(Coming) \in Nat /\ (Cardinality(Coming) = 0 <=> Coming = {})
  BY <1>3, FS_CardinalityType, FS_EmptySet
<1>5. Coming \subseteq Nat
  BY <1>1, <1>2
<1>6. QED
  BY <1>2, <1>3, <1>4, <1>5

(* A loop begins with all the entries. *)
LEMMA LoopBeginOK ==
    ASSUME DictInv, LoopBegin
    PROVE  DictInv' /\ LoopInv'
<1>1. /\ pc = "idle" /\ pc' = "loop" /\ UNCHANGED <<hash, htab, map, dropped>>
      /\ iter' = [state |-> 0, i |-> 0, end |-> htab.buf_load, seen |-> {},
                  begun |-> KeysOf(htab)]
  BY DEF LoopBegin
<1>2. DictInv'
  BY <1>1 DEF DictInv, Holds
<1>3. Coming' = Entries(htab)
  <2>1. Entries(htab) \subseteq Nat
    BY EntriesFinite, Numbers DEF DictInv
  <2>2. Coming' = {b \in Entries(htab) : b >= 0}
    BY <1>1 DEF Coming, Entries
  <2>3. QED
    BY <2>1, <2>2
<1>4. htab.buf_load \in Nat /\ htab.buf_load = Cardinality(Entries(htab))
  BY Numbers DEF DictInv, TableOK
<1>5. iter'.begun = iter'.seen \cup {htab'.buf[b].key : b \in Coming'}
  BY <1>1, <1>3 DEF KeysOf
<1>6. iter'.i + Cardinality(Coming') = iter'.end
  BY <1>1, <1>3, <1>4
<1>7. iter'.state \in Nat /\ iter'.i \in Nat /\ iter'.end \in Nat
  BY <1>1, <1>4
<1>8. QED
  BY <1>1, <1>2, <1>5, <1>6, <1>7 DEF LoopInv

(* A loop returns the first of the entries that are coming, whether its    *)
(* body deletes it or not.                                                 *)
LEMMA LoopEntryOK ==
    ASSUME DictInv, LoopInv, LoopEntry
    PROVE  DictInv' /\ LoopInv'
<1>1. /\ pc = "loop" /\ Coming # {} /\ UNCHANGED <<hash, pc, dropped>>
  BY DEF LoopEntry
<1>2. PICK b \in Coming : b = Min(Coming) /\ \A c \in Coming : b <= c
  BY <1>1, ComingFinite, MinIs
<1>3. /\ b \in Entries(htab) /\ b \in Nat
  BY ComingFinite
<1>4. /\ iter' = [iter EXCEPT !.state = b + 1, !.i = @ + 1,
                              !.seen = @ \cup {htab.buf[b].key}]
      /\ \/ UNCHANGED <<htab, map>>
         \/ /\ htab' = htab_del(htab, htab.buf[b].key)
            /\ map' = Without(htab.buf[b].key)
  BY <1>2 DEF LoopEntry
<1>5. /\ DictInv'
      /\ Entries(htab') \in {Entries(htab), Entries(htab) \ {b}}
      /\ \A c \in Entries(htab') : htab'.buf[c] = htab.buf[c]
  <2>1. CASE UNCHANGED <<htab, map>>
    BY <1>1, <2>1 DEF DictInv, Holds
  <2>2. CASE /\ htab' = htab_del(htab, htab.buf[b].key)
             /\ map' = Without(htab.buf[b].key)
    <3>1. pc \in {"idle", "loop"}
      BY <1>1
    <3>2. DictInv' /\ DelDone(htab, htab', b)
      BY <1>1, <1>3, <2>2, <3>1, DeleteOK
    <3>3. QED
      BY <3>2 DEF DelDone
  <2>3. QED
    BY <1>4, <2>1, <2>2
<1>6. /\ iter = [state |-> iter.state, i |-> iter.i, end |-> iter.end,
                 seen |-> iter.seen, begun |-> iter.begun]
      /\ iter.state \in Nat /\ iter.i \in Nat /\ iter.end \in Nat
      /\ iter.begun = iter.seen \cup {htab.buf[c].key : c \in Coming}
      /\ iter.i + Cardinality(Coming) = iter.end
  BY <1>1 DEF LoopInv
<1>7. iter' = [state |-> b + 1, i |-> iter.i + 1, end |-> iter.end,
               seen |-> iter.seen \cup {htab.buf[b].key}, begun |-> iter.begun]
  BY <1>4, <1>6
<1>8. Coming' = Coming \ {b}
  <2>1. Coming' = {c \in Entries(htab') : c >= b + 1}
    BY <1>7 DEF Coming
  <2>2. Entries(htab) \subseteq Nat
    BY EntriesFinite, Numbers DEF DictInv
  <2>3. b >= iter.state
    BY DEF Coming
  <2>4. \A c \in Coming : c # b => c >= b + 1
    BY <1>2, <1>3, ComingFinite
  <2>5. \A c \in Coming' : c \in Coming /\ c # b
    BY <1>3, <1>5, <1>6, <2>1, <2>2, <2>3 DEF Coming
  <2>6. \A c \in Coming : c # b => c \in Coming'
    BY <1>5, <2>1, <2>4, ComingFinite
  <2>7. QED
    BY <2>5, <2>6
<1>9. Cardinality(Coming') = Cardinality(Coming) - 1
  BY <1>8, ComingFinite, FS_RemoveElement
<1>10. \A c \in Coming' : htab'.buf[c].key = htab.buf[c].key
  BY <1>5 DEF Coming
<1>11. iter'.begun = iter'.seen \cup {htab'.buf[c].key : c \in Coming'}
  BY <1>6, <1>7, <1>8, <1>10
<1>12. iter'.i + Cardinality(Coming') = iter'.end
  BY <1>6, <1>7, <1>9, ComingFinite
<1>13. iter'.state \in Nat /\ iter'.i \in Nat /\ iter'.end \in Nat
  BY <1>3, <1>6, <1>7
<1>14. QED
  BY <1>5, <1>7, <1>11, <1>12, <1>13 DEF LoopInv

(* Every step keeps the dictionary in order, and a loop on its way. *)
LEMMA DictStep ==
    ASSUME DictInv, LoopInv, [Next]_vars
    PROVE  DictInv' /\ LoopInv'
<1>1. CASE PutEntry
  <2>1. pc' # "loop"
    BY <1>1 DEF PutEntry
  <2>2. QED
    BY <1>1, <2>1, PutEntryOK DEF LoopInv
<1>2. CASE PutAgain
  <2>1. pc' # "loop"
    BY <1>2 DEF PutAgain
  <2>2. QED
    BY <1>2, <2>1, PutAgainOK DEF LoopInv
<1>3. ASSUME NEW k \in Keys, LookupHangs(k)
      PROVE  DictInv' /\ LoopInv'
  BY <1>3 DEF LookupHangs, DictInv, LoopInv, Holds
<1>4. ASSUME NEW k \in Keys, NEW v \in Values, PutAbsent(k, v)
      PROVE  DictInv' /\ LoopInv'
  <2>1. pc' # "loop"
    BY <1>4 DEF PutAbsent, dict_put
  <2>2. QED
    BY <1>4, <2>1, DictPutOK DEF LoopInv
<1>5. ASSUME NEW k \in Keys, NEW v \in Values, dict_update(k, v)
      PROVE  DictInv' /\ LoopInv'
  <2>1. pc' # "loop"
    BY <1>5 DEF dict_update
  <2>2. QED
    BY <1>5, <2>1, DictUpdateOK DEF LoopInv
<1>6. ASSUME NEW k \in Keys, dict_del(k)
      PROVE  DictInv' /\ LoopInv'
  <2>1. pc' # "loop"
    BY <1>6 DEF dict_del
  <2>2. QED
    BY <1>6, <2>1, DictDelOK DEF LoopInv
<1>7. CASE LoopBegin
  BY <1>7, LoopBeginOK
<1>8. CASE LoopEntry
  BY <1>8, LoopEntryOK
<1>9. CASE LoopEnd
  BY <1>9 DEF LoopEnd, LoopEnds, DictInv, LoopInv, Holds
<1>10. CASE UNCHANGED vars
  BY <1>10 DEF vars, DictInv, LoopInv, Holds, Coming
<1>11. QED
  BY <1>1, <1>2, <1>3, <1>4, <1>5, <1>6, <1>7, <1>8, <1>9, <1>10
  DEF Next, Putting

-----------------------------------------------------------------------------
(* DictInv and LoopInv hold in every state. *)
THEOREM InOrder == Spec => [](DictInv /\ LoopInv)
<1>1. dict_new3 => DictInv /\ LoopInv
  BY DictStart DEF dict_new3, LoopInv
<1>2. DictInv /\ LoopInv /\ [Next]_vars => (DictInv /\ LoopInv)'
  BY DictStep
<1>3. QED
  BY <1>1, <1>2, PTL DEF Spec

(* The load is the number of entries after any calls, and at most seven    *)
(* buckets in ten are full when a call comes.                              *)
THEOREM LoadCountsEntries == Spec => []LoadCounts
<1>1. DictInv => LoadCounts
  <2>1. SUFFICES ASSUME DictInv PROVE LoadCounts
    OBVIOUS
  <2>2. htab.buf_load = Cardinality(Entries(htab))
    BY <2>1 DEF DictInv, TableOK
  <2>3. ASSUME pc = "idle" PROVE 10 * htab.buf_load <= 7 * htab.buf_cap
    <3>1. HasRoom(htab, 0)
      BY <2>1, <2>3 DEF DictInv
    <3>2. htab.buf_load \in Nat
      BY <2>1, Numbers DEF DictInv
    <3>3. QED
      BY <3>1, <3>2 DEF HasRoom
  <2>4. QED
    BY <2>2, <2>3 DEF LoadCounts
<1>2. QED
  BY <1>1, InOrder, PTL

(* htab_get finds the keys that were put and are neither deleted nor       *)
(* dropped, each with its last value, and no other key.                    *)
THEOREM DictIsFiniteMap == Spec => []IsFiniteMap
<1>1. DictInv => IsFiniteMap
  <2>1. SUFFICES ASSUME DictInv, NEW k \in Keys
                 PROVE  IF k \in DOMAIN map \ dropped
                        THEN Found(htab, k) /\ htab.buf[Bucket(htab, k)].val = map[k]
                        ELSE ~Found(htab, k)
    BY DEF IsFiniteMap
  <2>2. DOMAIN map \ dropped = KeysOf(htab)
    BY <2>1 DEF DictInv, Holds
  <2>3. CASE k \in KeysOf(htab)
    <3>1. PICK b \in Entries(htab) : htab.buf[b].key = k
      BY <2>3 DEF KeysOf
    <3>2. Found(htab, k) /\ Bucket(htab, k) = b
      BY <2>1, <3>1, GetFinds DEF DictInv
    <3>3. htab.buf[b].val = map[k]
      BY <2>1, <3>1 DEF DictInv, Holds
    <3>4. QED
      BY <2>2, <2>3, <3>2, <3>3
  <2>4. CASE k \notin KeysOf(htab)
    BY <2>1, <2>2, <2>4, GetMisses DEF DictInv
  <2>5. QED
    BY <2>3, <2>4
<1>2. QED
  BY <1>1, InOrder, PTL

(* In a table without deleted buckets every lookup ends: some bucket is    *)
(* clear, and the probes come to it.                                       *)
THEOREM LookupsReturn == Spec => []LookupsEnd
<1>1. DictInv => LookupsEnd
  <2>1. SUFFICES ASSUME DictInv, NEW k \in Keys,
                        \A b \in DOMAIN htab.buf : htab.buf[b].flags # "deleted"
                 PROVE  Ends(htab, k)
    BY DEF LookupsEnd
  <2>2. htab.buf_load \in Nat /\ htab.buf_cap \in 1..MaxCap /\ htab.buf_cap \in Nat \ {0}
    BY <2>1, Numbers DEF DictInv, TableOK
  <2>3. htab.buf_load < htab.buf_cap
    <3>1. \E n \in {0, 1} : HasRoom(htab, n)
      BY <2>1 DEF DictInv
    <3>2. QED
      BY <2>2, <3>1 DEF HasRoom
  <2>4. PICK b \in 0..(htab.buf_cap - 1) : b \notin Entries(htab)
    <3>1. SUFFICES ASSUME 0..(htab.buf_cap - 1) \subseteq Entries(htab) PROVE FALSE
      OBVIOUS
    <3>2. Entries(htab) = 0..(htab.buf_cap - 1)
      BY <2>1, <3>1, EntriesFinite DEF DictInv
    <3>3. PICK m \in Int : m = htab.buf_cap - 1
      BY <2>2
    <3>4. 0 \in Int
      OBVIOUS
    <3>5. Cardinality(0..m) = IF 0 > m THEN 0 ELSE m - 0 + 1
      BY <3>4, FS_Interval
    <3>6. Cardinality(Entries(htab)) = htab.buf_cap
      BY <2>2, <3>2, <3>3, <3>5
    <3>7. QED
      BY <2>1, <2>2, <2>3, <3>6 DEF DictInv, TableOK
  <2>5. htab.buf[b].flags = "clear"
    BY <2>1, <2>4 DEF DictInv, TableOK, Buckets, Entries
  <2>6. hash[k] \in Hashes
    BY <2>1 DEF DictInv
  <2>7. PICK i \in 0..Period : Probe(hash[k], htab.buf_cap, i) = b
    BY <2>2, <2>6, ProbesMeetAll
  <2>8. Stops(htab, k, i)
    BY <2>5, <2>7 DEF Stops, Place
  <2>9. QED
    BY <2>8 DEF Ends
<1>2. QED
  BY <1>1, InOrder, PTL

(* A loop that ends has returned every entry it began with, whether its    *)
(* body deleted some or not.                                               *)
THEOREM LoopsSeeAll == Spec => []LoopSeesAll
<1>1. DictInv /\ LoopInv => LoopSeesAll
  <2>1. SUFFICES ASSUME DictInv, LoopInv, LoopEnds PROVE iter.seen = iter.begun
    BY DEF LoopSeesAll
  <2>2. Coming = {}
    <3>1. SUFFICES ASSUME iter.i >= iter.end PROVE Coming = {}
      BY <2>1 DEF LoopEnds
    <3>2. Cardinality(Coming) = 0
      BY <2>1, <3>1, ComingFinite DEF LoopInv, LoopEnds
    <3>3. QED
      BY <2>1, <3>2, ComingFinite
  <2>3. QED
    BY <2>1, <2>2 DEF LoopInv, LoopEnds
<1>2. QED
  BY <1>1, InOrder, PTL
=============================================================================
