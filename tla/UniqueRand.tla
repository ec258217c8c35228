----------------------------- MODULE UniqueRand -----------------------------
(* src/src/unique_rand.c: numbers from min to max, each once until a reset.  *)
EXTENDS Integers

ur_create(min, max) ==
    [min |-> min, max |-> max, length |-> max - min + 1,
     values |-> [i \in 0..(max - min) |-> i + min]]

ur_reset(ur) ==
    [ur EXCEPT !.length = ur.max - ur.min + 1,
               !.values = [i \in 0..(ur.max - ur.min) |-> ur.min + i]]

\* mutant: one of the two numbers is overwritten
SwapLost(f, i, j) == [f EXCEPT ![i] = f[j]]

Swap(f, i, j) == [f EXCEPT ![i] = f[j], ![j] = f[i]]

\* ur_get gives number and leaves ur.  It seeds rand_r anew in each call, so
\* that it draws the same rand each time.
ur_get(ur, rand) ==
    IF ur.length > 0
    THEN LET last == ur.length - 1
             values == Swap(ur.values, rand % ur.length, last)
         IN  [ur |-> [ur EXCEPT !.length = last, !.values = values],
              number |-> values[last]]
    ELSE [ur |-> ur, number |-> ur.min - 1]
=============================================================================
