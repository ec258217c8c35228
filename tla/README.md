# A TLA+ verification of k23a-project

The repository trains a logistic regression model that tells whether two
product specs describe the same product. `src/src/main.c` reads the specs and a
file of labelled pairs, forms cliques of similar specs, makes the pairs to train
on, splits them, trains in mini batches and goes on with pairs the model is sure
of; `src/src/user.c` predicts with an exported model. The parts beneath it are
libraries of the project: a thread pool with its semaphore and its queue, a hash
table with a dictionary and a set, lists, unique random numbers, a tokenizer and
a JSON parser.

This directory holds TLA+ modules of the parts whose logic can be checked, the
TLC configurations that check them, and proofs. Line numbers are those of the
files under `src/`.

## 1. Inventory

### Semaphore (`src/semaphore.c`)
- *State*: `value`, `wakeups`, the initial value, a mutex and a condition.
- *Operations*: `sem_init_`, `sem_wait_`, `sem_post_`, `sem_decrease_`,
  `sem_increase_`, `sem_set_value_`, `sem_reset_`, `sem_get_value_`.
- *Hard*: a wait gives the mutex up inside `pthread_cond_wait`; wakeups handed
  out when nobody waits stay behind; spurious wakeups; `sem_get_value_` returns
  with the mutex locked (:67).
- *Correct when* nobody passes without a permit, and a waiter is not left asleep
  when the posts it needs have come.

### Queue (`src/queue.c`)
- *State*: a ring buffer (`front`, `rear`, `counter`), a mutex, two conditions.
- *Operations*: `queue_enqueue` and `queue_dequeue`, with or without
  synchronisation, `queue_unblock_enqueue`, `queue_unblock_dequeue`.
- *Hard*: the signal is sent after the unlock, so a third thread may be faster
  than the one that is woken; front and rear meet when the ring is full and when
  it is empty.
- *Correct when* it is a bounded FIFO and nobody sleeps through an item or a
  free cell.

### Job scheduler (`src/job_scheduler.c`)
- *State*: flags `working` and `exit`, the counter `ready`, the waiting and the
  running queue, a mutex and a second one for submitters, two conditions, the
  barrier; per job its result, `complete` and a POSIX semaphore.
- *Operations*: `js_create`, `js_create_job`, `js_submit_job`,
  `js_create_and_submit_job`, `js_execute_all_jobs`, `js_wait_job`,
  `js_get_return_val`, `js_wait_all_jobs`, `js_destroy_job`, `js_destroy`; the
  function `thread` of the execution threads.
- *Interaction*: uses the queue for both of its queues and the semaphore for the
  barrier; called by `main.c` (`fill_vector`), `logreg.c` (`lr_predict`,
  `lr_train`) and the tests, always from one master thread.
- *Hard*: nearly everything: work cycles begin and end by a counter the threads
  keep themselves; flags are read before an unlock and used after it; `complete`
  is set outside the mutex and followed by a post; the submitter waits on another
  mutex than the one its condition is decided under.
- *Correct when* each accepted job runs once, in FIFO order, a wait returns only
  when it may, every call returns, and the scheduler is not taken down early.

### Spec-to-specs (`src/spec_to_specs.c`)
- *State*: a dictionary of entries: parent, list of similar specs (held by the
  root) and its length, list of different roots, `printed`.
- *Operations*: `sts_new`, `sts_add`, `findRoot` (path shortening), `sts_merge`,
  `sts_diff`, `init_similar_pairs`, `init_different_pairs`, printers.
- *Interaction*: `main.c` adds a spec per file, reads the labelled file twice
  (merges, then differences) and takes the pairs.
- *Hard*: long sequences of merges; data left behind in absorbed roots; pairs
  made twice, never, or with both labels; arrays that grow by chunks.
- *Correct when* the cliques are exactly what the rows link, each clique knows
  exactly the cliques it is told apart from, and the pairs follow the cliques.

### Hash table, dictionary and set (`src/hash.c`, `include/hset.h`)
- *State*: an array of buckets (clear, occupied or deleted, with the state of the
  generator at which the key was put), load, capacity, key size; the place of a
  loop over the entries.
- *Operations*: `dict_put`, `dict_update`, `dict_get`, `dict_del`,
  `dict_force_rehash3`, iteration; `set_put` and `set_in` on top.
- *Interaction*: holds the specs, the JSON objects, the vocabulary, the vectors
  and the names of the pairs; deletions come from `ml.c` only, in a loop.
- *Hard*: a search ends at a clear bucket only, and deleted buckets never become
  clear but by growth (:86); `htab_put` gives up after `MAX_PROBES` and a rehash
  ignores that (:144); the same bucket may be met by several probes of a key.
- *Correct when* it is a finite map, loops see every entry, every call returns.

### Training data and training (`src/main.c`, `src/unique_rand.c`)
- *State*: the arrays of pairs and their sizes; the array of numbers that
  `ur_get` has not given out yet, and how many; the losses of the epochs, a copy
  of the model for each.
- *Operations*: `split`, `merge_set`, `ur_create`, `ur_get`, `ur_reset`,
  `train_model`, `check_local_maximum`.
- *Hard*: rounding of halves and quarters; which arrays `merge_set` is given
  (:405-407); the window of losses reaches before the first epoch (:513), and its
  five comparisons are of six losses, so that it takes care to say which copy is
  the one before it (:583); one copy out of all must not be freed (:597).
- *Correct when* the sets are full, the train set is half of the pairs, no pair
  is trained on twice in an epoch, training stops early by its rule, and the one
  copy that is kept is not freed. What the rule is, is where the code and the
  documentation disagree (see *Known as well*).

### Lists (`src/lists.c`)
- *State*: singly linked nodes; a function works on a variable that holds a list
  or on the `next` field of a node alike.
- *Operations*: `ll_len`, `ll_nth`, `ll_tail`, `ll_push`, `ll_pushlist`, `ll_pop`,
  `ll_reverse`, `ll_split`, `ll_sort`, `ll_search`, `ll_map`, `ll_free`, `LL_FOREACH`.
- *Interaction*: the keys of JSON objects, the similar and the different lists of
  the cliques.
- *Hard*: pointers moved in place; empty lists, lists of one node, halves of odd
  lists.
- *Correct when* no function loses a node, takes one twice, makes a circle or
  touches another list.

### Tokenizer (`src/tokenizer.c`)
- *State*: the buffer, the place in the stream (a file or a string).
- *Operations*: `tokenizer_next` for JSON, for words, for words without stop words.
- *Hard*: characters that are read and given back; the end of the text inside a
  token or right behind one; the function without stop words calls itself.
- *Correct when* each token of a text is returned once, as it is written.

### JSON parser (`src/json_parser.c`)
- *State*: the calls of a recursive descent, the entities made, the list of keys
  of each object.
- *Operations*: `json_parse_file`, `json_parse_string`, `json_get`,
  `json_entity_free`, `json_print_value`.
- *Interaction*: takes tokens of the tokenizer, puts the members of an object into
  a dictionary and its keys into a list; called by `main.c` and `user.c` per file.
- *Hard*: nesting; what is freed when an array or object breaks off; which
  of the open calls gets a value.
- *Correct when* a text is parsed to what it says and nothing is left after freeing.

### Vocabulary, bag of words, tf-idf (`src/ml.c`) and the prediction program (`src/user.c`)
- *State*: the words of the current file; the dictionary of words with a count, a
  position and an idf; a vector per spec; the exported vocabulary and weights; the
  dictionary and vectors of the prediction program.
- *Operations*: `tokenize_json_train_set`, `ml_init_vocabulary_from_json_bow_set`,
  `ml_idf_remove`, `ml_bow_json_vector`, `ml_tfidf`, `ml_export_vocabulary`,
  `ml_init_vocabulary`, the weights' file.
- *Hard*: both loops delete from the dictionary they go through, one of them is
  bounded by the load it changes (:175); positions are given twice; two programs
  have to agree on them through a file.
- *Correct when* counts are numbers of files, positions number the words, and the
  prediction program sees the vectors that were trained on.

### Dynamic learning (`src/main.c` :748-866)
- *State*: the file of rows, the set of names of pairs, the two name buffers, the
  counter by which arrays are allocated, the threshold, the places of two loops.
- *Hard*: an array is sized by a counter and filled from a file; a pair has two
  names; buffers whose old bytes count; one bound ends two loops.
- *Correct when* the array holds what the file has, each pair is looked at, none is
  added twice.

### Not modelled
- *Logistic regression* (`src/logreg.c`): floating point arithmetic, out of TLC's
  reach. Its calls of the scheduler are a script of run `job_cycle`; its order of
  batches and epochs is in `Training`, where a model is a count of batches.
- *Options, opening of files and directories, printers, CSV text*: input and output
  without state of their own. What is written and read back (vocabulary,
  weights' length, rows of dynamic learning) is in the modules.
- *`include/acutest.h`, tests, data sets*: vendored or no program.
- *Parts of the library no program calls*: union and copy of sets (`hset.h`), which start from
  an iterator nobody initialises and are called by a test only.

The hazards, each at its line, are in `PROJECT.json`.

## 2. Modules

| module | what it is |
| --- | --- |
| `CountingSemaphore` | abstract: permits and waiting threads |
| `Semaphore`, `MCSemaphore`, `SemaphoreProofs` | `semaphore.c` |
| `BoundedFIFO` | abstract: a sequence of bounded length |
| `Queue`, `MCQueue`, `QueueProofs` | `queue.c` |
| `JobPool` | abstract: queue, active and finished jobs |
| `JobScheduler`, `MCJobScheduler` | `job_scheduler.c`, with the semaphore and the two queues inside |
| `JobSchedulerClaims` | what the documentation says and the code does not do |
| `JobSchedulerProofs` | proofs: types, order, waits, ready threads, the barrier, the pool |
| `Cliques` | abstract: a division of the specs |
| `SpecToSpecs`, `MCSpecToSpecs` | `spec_to_specs.c` and the part of `main.c` that calls it |
| `SpecToSpecsProofs` | proofs |
| `Dictionary`, `MCDictionary`, `DictionaryProofs` | `hash.c` and `hset.h` |
| `UniqueRand` | `unique_rand.c`: operators, no variables |
| `Training`, `MCTraining`, `TrainingProofs` | `split`, `merge_set`, `train_model` of `main.c`, on `UniqueRand` |
| `TrainingClaims` | what the documentation says and the code does not do |
| `ListNodes`, `Lists` | `lists.c`: operators on a memory, no variables |
| `Tokenizer` | `tokenizer.c`: operators on a text, no variables |
| `JsonParser` | `json_parser.c`, on `Tokenizer` and `ListNodes` |
| `JsonText` | printing of `json_parser.c`, and properties of `JsonParser` and `Lists` that need recursion |
| `Vocabulary` | `ml.c`, what `main.c` does with words and vectors, `user.c`; a file is any words |
| `Corpus`, `MCCorpus` | `JsonParser`, `Tokenizer`, `Lists` and `Vocabulary` composed, from characters to vectors; implements `Vocabulary` |
| `CorpusProofs` | proofs about the parser, the vocabulary and both composed |
| `DynamicLearning`, `MCLearning` | `main.c` :748-866 |
| `LearningProofs` | proofs |

A mutant of a definition, a version with a plausible bug, stands right before it
with a comment `mutant:`; nothing uses it except the check that the properties
can fail.

### Semaphore
Each function holds `s->mutex` from its first statement to its last, so it is
one action, except `sem_wait_`, which is split at `pthread_cond_wait`: `WaitBlock`
goes to sleep, `WaitThrough` does not need to, `WakePass` and `WakeAgain` are the
two ways out of the sleep. `sleeping` and `signalled` are the threads inside
`pthread_cond_wait` before and after a signal; `SpuriousWake` moves a thread
without one. `sem_get_value_` sets `stuck` and disables everything that locks.
`assigned` is history: the counters have been set by something else than waiting
and posting, after which the permits say nothing any more.

### Queue
A queue is used synchronised or not (`sync`, chosen at the start). A synchronised
call tests, copies and unlocks in one action (`Enqueue`, `Dequeue`) or goes to
sleep (`EnqueueSleep`, `DequeueSleep`); `Signal` comes later, as in the code.
`Unblock` is `queue_unblock_*`, and what a spurious wakeup looks like.

### JobScheduler
The stretch between `LOCK_` and `UNLOCK_` or `WAIT_` is one action; what happens
outside the mutex is an action of its own: `WorkerRun`, `WorkerComplete` and
`WorkerPost` for `RUN_ROUTINE_`, `job->complete = true` and the post;
`SubmitDoze` for the wait of a submitter after it has unlocked; `SubmitSignal`,
`ExecuteBroadcast` and `JoinBroadcast` for signals after the unlock;
`WaitAllPeek` for the length that `js_wait_all_jobs` reads after it.
`wpc` and `mpc` are the places of the threads and of the master. `todo` holds the
calls the master has still to make: `Scripts` are the sequences that `main.c`,
`logreg.c` and `tests/job_scheduler_tests.c` make, shortened. `locked` stands for
the mutex the master keeps for good: on the error path of `js_execute_all_jobs`
(:283) and when it sleeps on a full queue inside it (:228).

The barrier is `INSTANCE Semaphore` with the master as the only waiter, and each
step of the barrier is a step of that module. The queues are `BoundedFIFO`, which
`Queue` is checked to implement. `submitted`, `started`, `collected` and
`awaited` are history. The memory of a destroyed job is not reused in the model;
`freed` marks it.

### SpecToSpecs
The program is sequential; `findRoot` is the part that is taken apart: `Climb` is
one level of the recursion with its shortening, `Found` its end, and `pc` says
for which of the two specs of the call it is made. `sts_merge` and `sts_diff` are
the rest of the two functions in one action. `phase` is how far `main` has come.
`ReadRow` offers any row at any time, so a file is any sequence of rows, with
repetitions and contradictions, over at most `MaxRows`
distinct ones. `Visit` takes the entries of the dictionary in any order, the
order of the buckets being the hash table's business. `Collect` lists the pairs
of one entry in the order of the loops, and `WritePair` writes one of them, with
the growth of the array. `different_len` is left out: it decides which of two
insertions that commute comes first.

### Dictionary
The program is sequential and a call is one action, except `dict_put`: what it
does first (growth by load, a wider key) is `dict_put`, each turn of its loop is
`PutAgain`, and the end is `PutEntry`. The hash function is any function from
keys to `Hashes`; `Probe(h, cap, i)` is the bucket of the i-th probe, so that a
bucket remembers the number of its probe where the code remembers the seed.
A search that meets no clear bucket within `Period` probes is one that never ends
(`LookupHangs`, `pc` = "hung"). `DeletedBucket` drops what a deleted bucket still
holds, which nothing reads. `LoopBegin`, `LoopEntry` and `LoopEnd` are
`DICT_FOREACH_ENTRY`, with a body that may delete the entry it is at, and with
the load at the start as its bound, as in `ml_idf_remove`. `map` is history, what
the calls made of the dictionary, and `dropped` are the keys a rehash lost.

### Training
`split` chooses the sizes; `MergeBegin`, `MergePut`, `MergeEnd` are the three calls
of `merge_set`, one turn of its loop at a time, and `PairRead` is what it reads:
beyond the end of an array it is `Garbage`. In `train_model`, `DrawRow` is a row
that `prepare_set` fills (`THREADS` is 0 in `main.c`, so without the scheduler),
`lr_train` a batch, `EpochEnd` the loss, the copy of the model and the test for an
early stop, `FreeModels` what comes after the loop. A model is the number of
batches it was trained with, a loss is any of `Losses`; what lies before
`med_losses` compares either way. `ur_get` seeds the generator in each call, so
that the whole run uses one number, `rand`. `drawn` and `freed` are history.

### Lists
A memory is a function from cells to cells, a cell a node or a variable of a
function. Each operator takes a memory and returns one, so that a pointer written
in the wrong place shows. Comparison, predicate and mapping functions are sets of
pairs, sets and operators. `ListNodes` has what the parser uses, `ll_push`, `ll_free`
and the walk along a list, as functions that can be reasoned about; in `Lists`
`ll_sort` and what else recurses is a RECURSIVE operator, about which nothing is
proved. `SpecToSpecs` keeps its own lists as sequences, with `ll_push` as the
insertion it is there.

### Tokenizer
A text is a sequence of characters; the operator returns the token, the rest of the
text, and, for words, whether NULL is returned. A call that does not end is
`json_next_token_hangs`. The alphabet is a character of each class that the code
tells apart.

### JsonParser
One action per token. The open calls of the recursive descent are `stack`, an
object or array with what it holds so far; `place` is where the innermost call goes
on. `Return` is the return of `json_parse_value` and what the caller does with
it. Entities are records; their identity matters only where they are freed, so
that `made` and `freed` count them and the nodes of the keys lie in the memory
`m`. `json_entity_free` takes the entities level by level instead of recursing: what it
frees does not depend on the order. `ObjectColon` and `ObjectNext` are the assertions, `NoToken` is what happens
where NULL is used as a token. `ParseAgain` lets a caller hold an entity and parse
another text: the printed one, or the next file. `dict_put` of an object keeps both
entries of a key given twice and `json_get` returns the first, which is what the
table does before it grows.

### Vocabulary
`phase` is how far `main` has come, `todo` the files of the train set still to be
taken, in any order as the table's order is any. `Count` is one turn of the
loop of ml.c:175 with its bound, the load of the set it deletes from; `RemoveWord`
one turn of `ml_idf_remove`, whose bound is read once. A logarithm is
compared and written out only, so that the quotient stands for it. An entry of a vector is its number of hits with
the divisor and factor that `ml_tfidf` gives it. `Export` and `Predict` are the
files and `user.c`; `user_bow` is TRUE in any case, as `lr_new_from_file`
compares the line with its line end.

### Corpus
Has the texts parsed by `JsonParser`, makes words of the strings with both
tokenizers and does `Vocabulary`'s actions on them. It is one state machine over the variables
of both; the run checks `Vocabulary!Spec` of it.

### DynamicLearning
Names are byte arrays of `name_size`, written by `snprintf` up to the end of the
string, so that what lay behind it stays; new arrays hold zeros or not. `WriteRow`
is the loop over the labelled sets, `Repetition` the reading of the file and the
training, then the two loops over the specs: `SkipLeft`, `SkipRight` for specs with
`similar_len` above 1, `Known` for a pair that is the same spec twice or known,
`Predict` for the others. `NewRow` at the bound `MaxNewPairs` ends both loops.
What the model predicts is any of `Predictions`. `labelled` and `met` are history.

## 3. Runs

| run | bounds | distinct states | question |
| --- | --- | --- | --- |
| `semaphore` | 3 waiters, one resetting; counters within 4; 2 spurious wakeups | 11 510 | is each passage paid for by a post, and does a spurious wakeup cost one at most? |
| `queue` | 3 producers, 2 consumers, 2 cells, 2 items | 9 694 | FIFO, no sleep through an item or room, no deadlock, sleepers served |
| `job_cycle` | 2 threads, up to 3 jobs, 6 scripts of one cycle | 43 264 | waits, barrier (refinement of the semaphore), no deadlock, every call returns |
| `job_cycles` | 2 threads, 3 jobs, 5 scripts of several cycles, queues of 2 jobs, 1 spurious wakeup | 400 213 | order, cycles and the refinement of the pool, with refused, blocked and dropped enqueues |
| `specs` | 4 specs, 3 distinct rows | 461 788 | forest, cliques, what they know, the pairs |
| `dictionary` | 3 keys, one of them wider, 2 values, 3 hash values, `MAX_PROBES` 3, tables of 2 to 32 buckets | 50 492 | a finite map; loops see all; puts return |
| `training` | 7 sizes of the data, batches of 2, 7 epochs, 3 losses, 3 random numbers | 150 921 | full sets, unique draws, when training stops and which copy is left |
| `corpus` | texts of every small value with and without spaces, every soup of up to 4 of 11 pieces, 4 corpora of 3 files; 5 words, idf limit 1 | 61 831 | parsed as written, no leak, lists whole, counts, positions, vectors; implements `Vocabulary` |
| `learning` | 3 specs with names of two lengths, names of 6 bytes, 2 predictions, 2 new pairs, 4 repetitions | 430 072 | arrays fit the file, all pairs met, none twice |
| `claim_*` | smallest that shows it | | a statement of the documentation that the code does not meet |

Why the bounds are enough. The semaphore's tests compare with zero and the queue's with empty and full, and the
runs reach both sides of each with several threads asleep. Two threads are the least for
which one can be the last to sleep while the other is between two places, and
every race found needs two; three jobs let one wait, one run and one be finished.
Four specs give two cliques of two to merge, trees of depth three, and a root
that is absorbed with notes about it. Three rows are two merges and a difference,
or three merges into one clique. Three keys let one be searched past a deleted and
an occupied bucket; the hash values are chosen so that keys collide, that a probe
is refused and that a rehash drops a key (in a table of 8 buckets, all probes of
one hash value but the later ones meet); the largest table is never too small for a
put. The sizes of the data reach the assertion of `ur_create`, the reads past the
end, odd halves and the pair left out; seven epochs are two more than the first
stop on a full window. The values are all scalars, and arrays and objects of up to two
members nested twice, with objects of four members for the lists (odd and even
halves, keys that are equal and shorter); four pieces are enough to break off in
each place of the parser, inside an array or object that holds something. The
corpora have words in one, two and no files, capitals, stop words, words at the
end of a string, a key twice, strings inside an array, an empty object, and idf limit
1 so that words are deleted and kept. Names of six bytes cut off none of the names but let a
shorter one stand before old bytes; two new pairs reach the bound inside both
loops and stay below it in others; four repetitions are what `STEP_VALUE` 15
gives in the code.

`CHECK_DEADLOCK FALSE` is set where the system may stop: clients of the semaphore
may stop calling or leave it locked; the runs `job_cycles` and
the claims reach the states where the code really hangs (a submitter asleep for
good, a full queue, a second wait at the barrier); the specs end in phase "done", training
in "done" or at a failed assertion, the learning in "over", a text "freed" or where the parser crashed, aborted or hung, and the dictionary in a search without end.
`queue` and `job_cycle` are checked for deadlock: there the program may only stop
in `Finished`, when the master has made all its calls.

### What the claims show
1. `claim_wait_all`: `js_wait_all_jobs` returns while a job is running: it looks at
   the running queue under the mutex and at the waiting queue after it.
2. `claim_submitter`: a submitter that finds no thread ready unlocks, and the last
   thread may signal before it waits: it sleeps while every thread is available.
3. `claim_test_set`: the test and the validation set hold pairs of the train set.
   In small data sets they also hold what lies behind the end of its arrays (`Garbage`
   in the trace; `SetsHoldTheirShare` says nothing of the contents of these two sets
   but that they are filled).

### Known as well
Met while modelling; the models do what the code does here.
- *Scheduler.* A submitter that finds the waiting queue full sleeps with `js->mutex`
  locked, so that nobody can make room (README.md:458 says it is freed); run
  `job_cycles` reaches it. `sem_barrier` is passed in `js_destroy` as soon as one thread goes to
  sleep, not when all are ready (README.md:369), which does no harm because threads
  drain the queue before they exit (`IsJobPool`). `js_destroy` right after
  `js_create` waits at the barrier for ever. A job that is destroyed between
  `complete` (:95) and the post (:96) is used after it is freed.
  `js_wait_all_jobs` with a waiting job and no cycle spins (:309). The call of the
  last job in `fill_vector`'s branch for the scheduler (main.c:275) lacks an
  argument. `THREADS` is 0, so that neither this branch nor those of `lr_predict`
  and `lr_train` are taken; if they were, `lr_predict` (logreg.c:108) could return
  before all predictions are written, because of `claim_wait_all`.
- *Semaphore, queue.* `sem_get_value_` returns with the mutex locked (:67) and
  `queue_destroy` with a free function would block (:73); nobody calls them so.
- *Dictionary, set.* A search for an absent key never ends once every bucket is
  occupied or deleted (`LookupHangs` fires in run `dictionary`; hash.h:164 says that
  NULL is returned); `LookupsEnd` says that deletions are the only cause.
- *Pairs.* The pairs labelled different are pairs of a root that follows A in a list
  with the specs similar to A (spec_to_specs.c:288), not pairs of the two
  cliques (README.md:110-112).
- *Parser.* An empty array takes its bracket for a value (README.md:186 refers to
  json.org): the parser stops or goes wrong. No comma is printed between members of
  an object. A comma before the end of an object is accepted. Where a token is missing NULL
  is used. A string with an escape it does not know is read for ever. A string that does
  not end is for the models one that is read for ever, too; in the code the loop goes on
  over what is left in the buffer from older tokens and over what lies behind it
  (tokenizer.c:48 returns the old byte once the file has ended), and may find a quote there and
  return. No property says what becomes of such a text. A file or a member that is no value comes back as NULL, which
  json_parser.c:126 and ml.c:198 ask for its type (main.c:490 looks first); `Corpus` is
  about files without such.
- *Tokenizer, lists.* A string that ends in a stop word gives an empty word last
  (main.c:495 leaves it out); a word at the very end of a text is not returned, which
  does no harm because strings are read with their quotes. `ll_nth` with a
  negative number counts on from the end (lists.c:16 says back); `ll_sort` is not stable.
- *Training.* The early stop is not the one of README.md:280, which stops after a
  continuous increase of the mean loss in 5 consecutive epochs and keeps the model
  computed 5 epochs before (the comment at main.c:580 says "ascending"). The code
  breaks off only where a loss is *less* than the one before it (main.c:515), so
  that losses that stay the same count as an increase: 0, 1, 1, 2, 2, 3 stops the
  training, and so do six equal losses. In epoch 4, the first one that looks, the
  fifth comparison is with `med_losses[-1]`, before the array. And the copy kept in
  epoch e is `models[e - 4]` (main.c:583), while the five comparisons reach back to
  the loss of epoch e - 5: with losses 0, 1, 2, 3, 4, 5 the model of epoch 1 is kept,
  in which the loss had gone up already, and that of epoch 0, the one of five epochs
  before, is freed. `KeepsWindowCopy` states what the code does, ties and copy included,
  and not that it is the documented rule.
- *Vocabulary.* The loop of ml.c:175 is bounded by the load it makes smaller and
  leaves half of the words for the next file, and for nobody after the last;
  `CountsAreFiles` says exactly what that does to the counts. The quotient of the idf is an
  integer. The prediction program takes every model for bow, so that one trained
  with tf-idf is given other vectors (`UserSeesSameVector` claims equality without
  tf-idf only).
- *Dynamic learning.* The first repetition, with threshold 0, adds nothing (README.md:291);
  the step is 0.15, not 0.01; members of a clique other than its root are not
  skipped (README.md:300); names are compared with the bytes behind their end, so that a
  pair may be added again, which README.md:295 rules out: `NoPairTwice` says so only while
  `NamesClean`, and does not cover the states with old bytes: with the pair b,a labelled, a new
  `entry_buf_1` may hold other bytes than zeros behind `a_b`, which is then not found in
  the set, and a,b becomes a row.

### Fairness
`JobScheduler!FairSpec`: every execution thread and the master, while it can take
a step, takes one. A thread that is runnable is scheduled by the system, and
critical sections are short and finite, so that it gets the mutex; a thread that
sleeps on a condition can take no step, and nothing is assumed about spurious
wakeups. `Queue!FairSpec` asks the same of threads inside a call and makes no
thread call. `Dictionary!FairSpec` says that a sequential program goes on inside
`dict_put`, and makes nobody call it. The other modules state no fairness: the
semaphore's clients may stop, and the sequential ones are checked for safety.

## 4. Proofs

The proofs hold for every value of the constants that meets the named
assumption of the module: any finite set of threads, any jobs, scripts and queue
sizes; any initial value of a semaphore; any finite set of specs, any file and
any size of the chunks; any keys, values and hash function; any numbers of pairs,
losses and epochs; any finite set of words and any contents of the files; any specs,
labelled rows and predictions. Where a theorem needs more, it says so itself:

| theorem | assumes | because |
| --- | --- | --- |
| `BarrierIsCounting` | `MaxSpurious = 0` | a spurious wakeup can use up a wakeup that a post left behind, so that a thread passes without a permit (run `semaphore`) |
| `IsCounting` | `AsUsed`: the same; no reset, no maintenance call that changes the counters | `job_scheduler.c` makes none; they overwrite the permits |
| `ImplementsPool` | `SubmitsOnce`: a script submits each job once | `main.c` and `logreg.c` submit by `js_create_and_submit_job` only, which makes a job for each submission, and so do the tests by `js_create_job` |
| `CorpusImplementsVocabulary`, `CorpusVocabulary` | `Known`: the files say words of `Words` | `Vocabulary` speaks of no others |
| `CorpusCountsWords` | `Known`; `ObjectFiles`; `FileLists` without NUL characters | see there; the JSON files of the dataset are such |

Of the assumptions about constants two are about the code beneath: `ProbesMeetAll`
of `Dictionary`, that the probes of a key meet every bucket in a period (`rand_r`
steps through all its states, and every bucket comes up among them), used by `LookupsReturn` only, and `InitialCap =<
MaxCap`, the bound that makes the model finite. The bound `MaxCap` itself is any
number. TLC evaluates all of them in the runs.

**JobSchedulerProofs.** `TypeCorrect`: `Spec => []TypeOK`. TypeOK alone is not
inductive: that `wjob[w]` is a job when a thread runs it, or that `Call` exists
when the master is inside a call, comes from the control. `TypeInv` adds
`InCallOK`: at each place of the master the head of `todo` is the call that the
place belongs to, a call made for a job names one, and threads that run have a
job. There is one lemma per group of actions. All the rest builds on `TypeInv`.
- `StartsInOrder` (`StartedInOrder`): only `SubmitGuarded` and `SubmitPlain` put
  into the waiting queue and only `WorkerTake` takes out of it (`WhoTouchesQueue`),
  and each also moves the history by the same job.
- `WaitsAreRight` (`AwaitedHaveRun`): the invariant `RunInv` says what each place
  of a thread and each post of a job is worth: a job that is `complete` has run, a
  post of `sem_complete` is made for a complete job only, and a thread at "complete"
  or "post" has run the job in its hands.
- `ReadyCounts` (`ReadyCount`): a step moves at most one thread in or out of
  `Ready`, except the broadcast, which leaves it as it is.
- `CyclesEndReady` (`AllReadyBetweenCycles`) needs the creation as well: `Starting`
  ties the value of the barrier to `ready` while the threads go to sleep for the
  first time (`semValue = ready + 1 - N`, one less once the master waits), so that
  the master is let go with `ready = N` exactly; from there on only the thread that
  makes `ready` N again ends a cycle. `CycleInv` is both, as long as no spurious
  wakeup has happened: with one during the creation the property fails.
- `NoWorkStranded` (`NoStrandedWork`): a thread goes to sleep in a cycle only with
  the queue empty, and the last one ends the cycle. What can be wrong is the exit,
  so that `Closing` is needed: exit is set once, outside a cycle, and a thread
  exits only with nothing waiting.
- `CollectsInOrder` (`CollectedInOrder`): only `WorkerTake` puts into the running
  queue, or fails to, and only `WaitAllCollect` takes out of it (`WhoTouchesRunning`).
  The property is inductive with the lengths: a refused enqueue makes
  the collected and the running jobs fewer than the started ones for good.
- `BarrierIsCounting` (`BarrierCounts`): `Paid` says that without spurious wakeups
  the master, once woken, finds a permit. Each step of the
  scheduler is a post, an arrival, a passage or a stutter of `CountingSemaphore`.
- `ImplementsPool` (`IsJobPool`): `EachOnce` says that no job is submitted twice,
  that the jobs in the hands of different threads are different, started and not
  complete, and that complete ones were started. With `StartedInOrder` an accepted
  submission is a `Submit` of a new job, `WorkerTake` a `Start`, `WorkerComplete`
  a `Finish`, and, as `Closing` leaves nothing waiting when threads have exited, the join
  is a `Close`.

**SemaphoreProofs.** `Types`; `WakeupsAreCounted` (`SignalsArePaid`) from `Balance`:
woken threads are covered by the wakeups and the spurious returns, and a value below zero,
once wakeups were handed out, is owed by threads asleep or spuriously woken.
`SignalsArePaid` says what it says of the permits only from the first wakeup on if
the initial value is negative: a barrier that starts below zero owes posts, and
before the first wakeup nobody can go. `IsCounting`: as the scheduler uses it, the
semaphore implements `CountingSemaphore`, for any initial value.

**QueueProofs.** The types need `RingOK`, that rear is `counter` cells behind front
round the ring, and `CallsOK`, that no call of a queue without synchronisation
sleeps.
- `ImplementsFIFO` (`IsBoundedFIFO`): the items of the ring are read from front on;
  a put writes the one cell behind them (`SlotsDiffer`: cells at different distances below the
  size are different), a get gives up the first.
- `NobodySleeps` (`NobodySleepsThrough`): the number of items that no signal is
  under way for changes with each of the actions by no more than the threads that
  leave or enter "signal" and "woken"; producers and cells by the same lemmas.

**DictionaryProofs.** `TableOK` is the order that open addressing keeps: every entry is
where the search for its key comes to it, over buckets that are not clear, with the
number of its probe; no key has two entries; the load is the number of the
entries. `htab_put`, `htab_del` and a change of a value keep it; that a
rehash does, for any entries in any order of buckets, is proved of the fold that models
it by its least counterexample (`RehashOK`): a fold is a recursive function
on sets, and of the sets for which it goes wrong one is smallest. In a table in
order `htab_get` finds the entries (`GetFinds`) and nothing else (`GetMisses`).
`DictInv` adds that the keys are those put and neither deleted nor dropped, with
their values, and that there is room for the entry being put: it needs the load limit
of `dict_put`, that doubling is enough, and that a rehash makes no entries. From it:
- `LoadCountsEntries` (`LoadCounts`) and `DictIsFiniteMap` (`IsFiniteMap`);
- `LookupsReturn` (`LookupsEnd`): below the load limit some bucket is no entry, and
  without deleted ones it is clear;
- `LoopsSeeAll` (`LoopSeesAll`), with `LoopInv`: what a loop began with is what it
  has returned and what is coming, and its bound counts just these.

**TrainingProofs.**
- `UniqueDraws` (`DrawsUnique`): `Drawing` says that the array of a `URand` is a
  permutation of the numbers and that those drawn lie behind the ones still in use, last
  first: a draw exchanges two cells. `DrawInv` adds, for each place of `merge_set` and
  `train_model`, how many have been drawn.
- `FullShares` (`SetsHoldTheirShare`): `FillInv`: the x-th number drawn is the place of
  pair x; when as many are drawn as there are places, a permutation has met them all.
- `WindowCopyKept` (`KeepsWindowCopy`): `ProgressInv`: the copies are those of the
  epochs so far, each with its batches, and no window before this epoch was flat.

**SpecToSpecsProofs.** The invariant `IInv` is `EntryTypes` with
- `Forest`: every spec is in the list of exactly one root, absorbed entries hold
  none, the parent of a spec is in its clique, and there is no circle. No circle is
  stated without paths: any non-empty set of specs has a member that is a root or
  has its parent outside;
- `CallOK`: the search is still in the clique it started in, and the first root
  found is still a root while the second is searched.

From it: `ParentsOK` (searches stay in the clique and the parents never form a
circle), `CliquesAreLinked` (cliques are exactly what the rows link, with `Links`
saying that rows stay within cliques and cliques are held together by rows),
`ListsAreCliques` (lists without duplicates, right lengths), `SpecToSpecsIsCliques`
(refinement: a merge is a `Match`, everything else stutters) and
`DifferencesKnown` (a clique knows exactly the cliques rows tell it from; the invariant `Knowledge` also
needs that no difference exists before the second pass).

About the pairs:
- `Types` and `PairsAlwaysFit` (`PairsFit`): `RoomInv` says what the arrays hold before
  their phase begins;
- `SimilarPairsAreOnce` (`SimilarPairsOnce`). The lists of different roots have roots in them
  and no root twice (`Notes`). `PairsMade` says that the pairs made so far, and
  those still to be written, are each of the two-element sets of the cliques visited, once,
  and that a pair of different specs is within no clique. The rows that `FlattenSeq` puts
  together are followed prefix by prefix (`JoinedTo`, `Joined`), again up to the least one
  that would be wrong.

**CorpusProofs**, the parser and what is made of its objects.
- `ParserLeaksNothing` and `CorpusLeaksNothing` (`NothingLeaks`). `made - freed` entities
  and the nodes of `m` have to be met once each from the open calls, what is
  held and `ret`; the trees below those are as deep as the text is. The invariant `LeakInv` says that
  there is a set `U` with all these entities and what they are made of (`Sane`), and that with
  it (`Accounted`) the levels end within `made + 1` and `Owned` holds: `made - freed +
  Depth` entities on all the levels together, no list that runs in a circle or
  out of the nodes, and each node in the list of one of them. `Total` counts a set on all
  levels of a sequence; totals of sequences add up (`Together`), and that of an entity is itself and
  that of its contents (`Alone`), so that each action is one sum: `Opening`,
  `Pushing`, `Closing`, `Returning`, `Freeing`. A total cannot tell two objects apart
  that have the same list, which is why `Owned` counts owners and not lists (`Fair`).
  The recursion of `Levels`, `FlattenSeq` and `Nodes` is taken through least
  counterexamples. TLC cannot evaluate `LeakInv`, which says that there is a set
  `U`; with the set of what is reached for `U` it is `NothingLeaks` with the length
  of the levels, and that is what run `corpus` checks.
- `CorpusImplementsVocabulary` (`Spec`) and `CorpusVocabulary`. `Known` says that the words
  and specs of the files are in `Words` and `Specs`, as they must be for
  `Vocabulary` to speak of them; `Spec` checked of `corpus` includes it.
- `ParserKeepsKeys`: what an object says of its text. `TextInv` follows the frames of the
  open calls: the names in the list of keys of each are its keys, the last one first
  (`Says`, with one more while a key waits for its value), and the strings in it are
  runs of the text that end with a quote. That no step changes the list of another
  object comes from `LeakInv`, by which each list is a chain (`LeakLists`, `NamesUp`,
  `NamesDown`).
- `TokensAreWords`: the calls of `str_next_nlp_token` begin at places `pos[k]` and
  meet one word each (`WordAt`), with separators only between them (`Walk`), so that
  words and runs of letters correspond (`Runs`, `Spelled`).
- `CorpusCountsWords` (`VectorsCountWords`). `CorpusInv` says of each file in
  `json_dict` that it has been parsed, and, if no key of its object comes twice, that
  `Tally` of a word in `all` is the number of its `Occurrences` in the strings of
  the object (`Right`, from `WordsRight`: `Sentences` are the strings in reverse
  order, each met once since the keys differ). `Numbered` makes the hits at a position
  those of one word (`HitsOfWord`), and `ExportInv` says which vectors there are.
  The theorem assumes `Known`, and three things that the code does not check: the
  texts hold no NUL character, at which C strings end; `FileLists` gives each spec
  one file, as directories do, and `ObjectFiles` makes each file an object: of any
  other value `json_get_obj_keys` complains and has no keys (json_parser.c:125),
  which `Corpus` leaves out.

**CorpusProofs**, the vocabulary. `VocabularyTypes` are the types and two facts of control:
the train set's files have been read, and the vocabulary is a function of words.
- `CountsRight` (`CountsAreFiles`). The property is not inductive: that a count may
  be raised by one without passing the number of files depends on the word
  having waited in `json_bow_set`. `Counted` therefore says that the count of a word,
  plus one if it still waits in the set, is no more than the number of files taken with it.
- `PositionsNumber` (`PositionsFit`). `Numbered` covers the middle of
  `ml_idf_remove`: the words already passed are numbered 0 to `i - c - 1`, of which
  there are `i - c`, and the others wait. `CountTable` and `RemoveTable` are the two
  ways in which a table is changed.
- `UserVectorsSame` (`UserSeesSameVector`). `ExportInv` keeps what was exported, the
  vectors and the vocabulary in step until `user.c` reads them; `Imported` says that
  the file gives back the dictionary it was written from.

**LearningProofs.**
- `RowsAlwaysFit` (`RowsFit`): with the types, and with `Unbroken`: inside the loops
  the counter has not reached the bound, as it ends them when it does.
- `AllPairsSeen` (`SeesAllPairs`): `MetBehind` says that the pairs met are those of
  the rows that are done and of this row up to where it is (`RowsDone`, `ThisRow`),
  and `RightBegins` that a row starts at the first spec; both hold while the bound
  is not reached.
- `NewPairsAreNew` (`NoPairTwice`): `OnceInv` says that both names of every row of
  the file are in the set, whatever stood in the buffer when they were written, and
  that a pair behind the labelled rows was not there before. Two names of a pair
  that are clean are equal bytes (`CleanNamesAgree`), cut off or not, so that a pair
  whose name is not in the set is new.

Only model-checked:
- everything with fairness (`EveryCallReturns`, `SleepersServed`, `PutsEnd`):
  liveness and ENABLED are out of the prover's reach;
- that a text is parsed to the value it was written for (`ParsesWhatIsWritten`) and
  the functions of `Lists` (`ListFunctionsRight`): these use RECURSIVE operators, and
  what those compute for every input is proved by induction over data.

## 5. Plan

1. Proofs: the types of `Dictionary`.
2. `Submitters`: several threads that submit, without a lock outside a work cycle
   (job_scheduler.c:237), and jobs that draw from one `URand`.
3. The course of `main.c` as one machine: `Corpus`, `SpecToSpecs` and `Training`
   share the dictionary and the train set.

Not planned: floating point arithmetic of the training, printers, option parsing.
