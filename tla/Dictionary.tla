------------------------------ MODULE Dictionary ------------------------------
(***************************************************************************)
(* The hash table of src/src/hash.c, as its dictionary functions use it,   *)
(* and the set of src/include/hset.h on top: open addressing, pseudo-      *)
(* random probing, deleted buckets, growth by load and by key size.        *)
(*                                                                         *)
(* A hash value and the seed that rand_r makes of it after i calls are the *)
(* key's hash and i; Probe(h, cap, i) is the bucket they lead to.  Keys    *)
(* are put only when they are absent, as the callers see to; the list of   *)
(* stop words and a JSON object with a name twice are left out.            *)
(***************************************************************************)
EXTENDS Integers, FiniteSets, FiniteSetsExt, Folds, TLC

CONSTANTS Keys, NoKey,
          Values, NoValue,
          Hashes,           \* the values of the hash function
          Probe(_, _, _),   \* rand_r(&hash) % buf_cap
          Period,           \* bound: the probes of a key repeat after so many
          MAX_PROBES,
          InitialCap, InitialKeySz,
          KeySz,            \* the size of each key
          MaxCap            \* bound: no table is larger

ASSUME DictionaryAssumption ==
    /\ NoKey \notin Keys /\ NoValue \notin Values
    /\ MAX_PROBES \in Nat \ {0} /\ Period \in Nat /\ MAX_PROBES <= Period
    /\ InitialCap \in Nat \ {0} /\ InitialKeySz \in Nat \ {0}
    /\ MaxCap \in Nat /\ InitialCap <= MaxCap
    /\ KeySz \in [Keys -> Nat]
    /\ \A h \in Hashes, cap \in 1..MaxCap, i \in 0..Period :
          Probe(h, cap, i) \in 0..(cap - 1)

\* rand_r runs through all its states before one comes again: the probes of a
\* key meet every bucket.
ASSUME ProbesMeetAll ==
    \A h \in Hashes, cap \in 1..MaxCap :
       \A b \in 0..(cap - 1) : \E i \in 0..Period : Probe(h, cap, i) = b

VARIABLES hash,             \* the hash function, any
          htab,             \* dict->htab
          pc, arg,          \* the function inside, the entry it puts
          iter,             \* a loop over the entries
          map,              \* history: what the calls have put, by key
          dropped           \* history: keys that a rehash did not copy

vars == <<hash, htab, pc, arg, iter, map, dropped>>

-----------------------------------------------------------------------------
(* struct htab_s *)

ClearBucket == [flags |-> "clear", key |-> NoKey, hash |-> 0, val |-> NoValue]

\* What a deleted bucket still holds is never read.
DeletedBucket == [ClearBucket EXCEPT !.flags = "deleted"]

htab_new(key_sz, cap) ==
    [key_sz |-> key_sz, buf_cap |-> cap, buf_load |-> 0,
     buf |-> [b \in 0..(cap - 1) |-> ClearBucket]]

Entries(t) == {b \in DOMAIN t.buf : t.buf[b].flags = "occupied"}
KeysOf(t) == {t.buf[b].key : b \in Entries(t)}

Place(t, k, i) == Probe(hash[k], t.buf_cap, i)

\* The probes of htab_put that find a bucket to write on.
FreeProbes(t, k) ==
    {i \in 0..(MAX_PROBES - 1) : t.buf[Place(t, k, i)].flags # "occupied"}

Refuses(t, k) == FreeProbes(t, k) = {}

\* mutant: the entry is not counted
PutUncounted(t, k, v) ==
    LET i == Min(FreeProbes(t, k))
    IN  [t EXCEPT !.buf[Place(t, k, i)] = [flags |-> "occupied", key |-> k,
                                           hash |-> i, val |-> v]]

htab_put(t, k, v) ==
    LET i == Min(FreeProbes(t, k))
    IN  [t EXCEPT !.buf_load = @ + 1,
                  !.buf[Place(t, k, i)] = [flags |-> "occupied", key |-> k,
                                           hash |-> i, val |-> v]]

\* mutant: the search also stops at a deleted bucket
StopsAtDeleted(t, k, i) ==
    LET b == t.buf[Place(t, k, i)]
    IN  \/ b.flags # "occupied"
        \/ b.hash = i /\ b.key = k

\* The i-th probe of htab_get ends it: the bucket is clear, or it is the one.
Stops(t, k, i) ==
    LET b == t.buf[Place(t, k, i)]
    IN  \/ b.flags = "clear"
        \/ b.flags = "occupied" /\ b.hash = i /\ b.key = k

\* A search that does not end in a period never does.
Ends(t, k) == \E i \in 0..Period : Stops(t, k, i)

\* Where htab_get ends.
Bucket(t, k) ==
    Place(t, k, CHOOSE i \in 0..Period :
                    Stops(t, k, i) /\ \A j \in 0..(i - 1) : ~Stops(t, k, j))

Found(t, k) == Ends(t, k) /\ t.buf[Bucket(t, k)].flags = "occupied"

-----------------------------------------------------------------------------
NoEntry == [key |-> NoKey, val |-> NoValue]
NoLoop  == [state |-> 0, i |-> 0, end |-> 0, seen |-> {}, begun |-> {}]

dict_new3 ==
    /\ hash \in [Keys -> Hashes]
    /\ htab = htab_new(InitialKeySz, InitialCap)
    /\ pc = "idle" /\ arg = NoEntry
    /\ iter = NoLoop
    /\ map = <<>>
    /\ dropped = {}

(* dict_put *)

\* mutant: the table grows only when it is full
LoadedFull(t) == t.buf_load + 1 > t.buf_cap

\* (double) (buf_load + 1) / buf_cap > 0.7
Loaded(t) == 10 * (t.buf_load + 1) > 7 * t.buf_cap

\* key_sz, doubled until the key fits.
Widened(sz, k) ==
    Min({s \in {sz * 2^n : n \in 0..KeySz[k]} : s >= KeySz[k]})

\* htab_rehash(old, new); what htab_put says is ignored.
htab_rehash(old, new) ==
    MapThenFoldSet(LAMBDA b, t : IF Refuses(t, b.key) THEN t
                                 ELSE htab_put(t, b.key, b.val),
                   new, LAMBDA i : old.buf[i], Max, Entries(old))

dict_force_rehash3(cap, key_sz) ==
    /\ cap <= MaxCap
    /\ htab' = htab_rehash(htab, htab_new(key_sz, cap))
    /\ dropped' = dropped \cup (KeysOf(htab) \ KeysOf(htab'))

\* dict_put, up to its second loop.
dict_put(k, v) ==
    /\ arg' = [key |-> k, val |-> v]
    /\ pc' = "put"
    /\ LET cap == IF Loaded(htab) THEN 2 * htab.buf_cap ELSE htab.buf_cap
           key_sz == Widened(htab.key_sz, k)
       IN  IF <<cap, key_sz>> = <<htab.buf_cap, htab.key_sz>>
           THEN UNCHANGED <<htab, dropped>>
           ELSE dict_force_rehash3(cap, key_sz)
    /\ UNCHANGED <<hash, iter, map>>

With(k, v) == [x \in DOMAIN map \cup {k} |-> IF x = k THEN v ELSE map[x]]

PutEntry ==
    /\ pc = "put" /\ ~Refuses(htab, arg.key)
    /\ htab' = htab_put(htab, arg.key, arg.val)
    /\ pc' = "idle" /\ arg' = NoEntry
    /\ map' = With(arg.key, arg.val) /\ dropped' = dropped \ {arg.key}
    /\ UNCHANGED <<hash, iter>>

\* mutant: the table is made anew, but no larger
PutAgainSameCap ==
    /\ pc = "put" /\ Refuses(htab, arg.key)
    /\ dict_force_rehash3(htab.buf_cap, htab.key_sz)
    /\ UNCHANGED <<hash, pc, arg, iter, map>>

PutAgain ==
    /\ pc = "put" /\ Refuses(htab, arg.key)
    /\ dict_force_rehash3(4 * htab.buf_cap, htab.key_sz)
    /\ UNCHANGED <<hash, pc, arg, iter, map>>

-----------------------------------------------------------------------------
(* The calls that look a key up first *)

\* htab_get does not return: the key is absent, and no probe meets a clear
\* bucket.
LookupHangs(k) ==
    /\ pc = "idle"
    /\ ~Ends(htab, k)
    /\ pc' = "hung"
    /\ UNCHANGED <<hash, htab, arg, iter, map, dropped>>

\* A caller that has the key not yet, or set_put, or dict_update.
PutAbsent(k, v) ==
    /\ pc = "idle"
    /\ Ends(htab, k) /\ ~Found(htab, k)
    /\ dict_put(k, v)

\* dict_update, for a key that is there: mutator_f changes the value in place.
dict_update(k, v) ==
    /\ pc = "idle"
    /\ Found(htab, k)
    /\ htab' = [htab EXCEPT !.buf[Bucket(htab, k)].val = v]
    /\ map' = [map EXCEPT ![k] = v]
    /\ UNCHANGED <<hash, pc, arg, iter, dropped>>

\* mutant: a deleted bucket is cleared
htab_del_Clears(t, k) ==
    [t EXCEPT !.buf_load = @ - 1, !.buf[Bucket(t, k)] = ClearBucket]

htab_del(t, k) ==
    [t EXCEPT !.buf_load = @ - 1, !.buf[Bucket(t, k)] = DeletedBucket]

Without(k) == [x \in DOMAIN map \ {k} |-> map[x]]

dict_del(k) ==
    /\ pc = "idle"
    /\ Found(htab, k)
    /\ htab' = htab_del(htab, k)
    /\ map' = Without(k)
    /\ UNCHANGED <<hash, pc, arg, iter, dropped>>

-----------------------------------------------------------------------------
(* DICT_FOREACH_ENTRY, with dict_iterate_r, over all the entries that are  *)
(* there; the body may delete the entry it is at, as ml_idf_remove does.   *)

LoopBegin ==
    /\ pc = "idle"
    /\ pc' = "loop"
    /\ iter' = [state |-> 0, i |-> 0, end |-> htab.buf_load, seen |-> {},
                begun |-> KeysOf(htab)]
    /\ UNCHANGED <<hash, htab, arg, map, dropped>>

\* mutant: deleted entries are returned as well
ComingDeleted ==
    {b \in DOMAIN htab.buf : htab.buf[b].flags # "clear" /\ b >= iter.state}

\* The buckets htab_iterate_r may still return.
Coming == {b \in Entries(htab) : b >= iter.state}

LoopEntry ==
    /\ pc = "loop"
    /\ Coming # {} /\ iter.i < iter.end
    /\ LET b == Min(Coming)
       IN  /\ iter' = [iter EXCEPT !.state = b + 1, !.i = @ + 1,
                                   !.seen = @ \cup {htab.buf[b].key}]
           /\ \/ UNCHANGED <<htab, map>>
              \/ /\ htab' = htab_del(htab, htab.buf[b].key)
                 /\ map' = Without(htab.buf[b].key)
    /\ UNCHANGED <<hash, pc, arg, dropped>>

LoopEnds == pc = "loop" /\ (Coming = {} \/ iter.i >= iter.end)

LoopEnd ==
    /\ LoopEnds
    /\ pc' = "idle" /\ iter' = NoLoop
    /\ UNCHANGED <<hash, htab, arg, map, dropped>>

-----------------------------------------------------------------------------
\* What goes on inside dict_put.
Putting == PutEntry \/ PutAgain

Next ==
    \/ Putting
    \/ \E k \in Keys :
          \/ LookupHangs(k)
          \/ \E v \in Values : PutAbsent(k, v) \/ dict_update(k, v)
          \/ dict_del(k)
    \/ LoopBegin \/ LoopEntry \/ LoopEnd

Spec == dict_new3 /\ [][Next]_vars

\* dict_put goes on; nobody has to call it.
FairSpec == Spec /\ WF_vars(Putting)

-----------------------------------------------------------------------------
Buckets == [flags : {"clear", "occupied", "deleted"}, key : Keys \cup {NoKey},
            hash : 0..Period, val : Values \cup {NoValue}]

(* The types of the state. *)
TypeOK ==
    /\ hash \in [Keys -> Hashes]
    /\ htab.key_sz \in Nat /\ htab.buf_cap \in 1..MaxCap /\ htab.buf_load \in Nat
    /\ DOMAIN htab.buf = 0..(htab.buf_cap - 1)
    /\ \A b \in DOMAIN htab.buf : htab.buf[b] \in Buckets
    /\ pc \in {"idle", "put", "loop", "hung"}
    /\ arg.key \in Keys \cup {NoKey}
    /\ iter.seen \subseteq Keys
    /\ dropped \subseteq Keys

(* buf_load counts the entries, through tombstones that are used again and *)
(* through growth, and leaves three buckets in ten free between two calls. *)
LoadCounts ==
    /\ htab.buf_load = Cardinality(Entries(htab))
    /\ pc = "idle" => 10 * htab.buf_load <= 7 * htab.buf_cap

(* As long as no bucket is marked deleted, the load limit makes every      *)
(* lookup meet a clear bucket.                                             *)
LookupsEnd ==
    (\A b \in DOMAIN htab.buf : htab.buf[b].flags # "deleted")
        => \A k \in Keys : Ends(htab, k)

(* A loop over the entries goes through each of them, also when its body   *)
(* deletes the entry it is at (ml_idf_remove, ml.c:226-234), as long as its *)
(* bound is the load at the start.                                         *)
LoopSeesAll == LoopEnds => iter.seen = iter.begun

(* The dictionary is a finite map: whatever was put, changed, deleted and  *)
(* put again in between, in tables of any size, the probes of htab_get find *)
(* a key that is in it, with its value, and no other, but for the ones that *)
(* a rehash has dropped.                                                   *)
IsFiniteMap ==
    \A k \in Keys :
       IF k \in DOMAIN map \ dropped
       THEN Found(htab, k) /\ htab.buf[Bucket(htab, k)].val = map[k]
       ELSE ~Found(htab, k)

(* dict_put returns: a table that refuses the entry grows until it does    *)
(* not (hash.c:296-298).                                                   *)
PutsEnd == pc = "put" ~> pc = "idle"
=============================================================================
