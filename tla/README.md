# Verification of the job queue, its programs and the map queries

The repository holds two C assignments. The programs in its root share a bounded
job queue (`job_queue.c`) between one main thread and several workers: `fibs`,
`fauxgrep-mt` and `fhistogram-mt`, with the sequential `fauxgrep` and `fhistogram`
next to them. `src_test/` holds programs that look up records of a map file, by id
(`id_query_*`) or by coordinates (`coord_query_*`).

This directory models them in TLA+, checks the models with TLC on small instances
and proves with TLAPS, for every instance, each safety property and each refinement
that the passing runs check.

## Inventory

| component | state | operations | what makes it correct |
|---|---|---|---|
| job queue, `job_queue.c/.h` | ring `job`, `head`, `tail`, `count`, `is_destroyed`; a mutex; condition variables `not_empty`, `not_full` (`destroyed` is declared and never used) | `job_queue_init`, `_push`, `_pop`, `_destroy` | FIFO, every job out exactly once; blocks only when full or empty; destruction waits for an empty queue, wakes everybody, and nobody uses what it freed |
| `fibs.c` | the queue, the workers | main reads lines and pushes them, destroys the queue, joins; `worker` pops, prints one line, frees | every line processed once, main returns last |
| `fauxgrep-mt.c` | the queue, `print_mutex`, `global_needle` | main walks the tree and pushes paths; `worker_thread` searches a file and prints under the mutex | prints what `fauxgrep` prints, files interleaved |
| `fhistogram-mt.c` | the queue, `global_histogram`, `global_bytes`, `histogram_mutex` | main as above, last picture after the joins; `worker_thread` counts a file, merges, draws every `threshold` bytes | pictures of whole files only, last one complete |
| `histogram.h` | arrays of 8 `int` | update, merge (clears the source), print | counts bits |
| `fauxgrep.c`, `fhistogram.c` | one file at a time; `fhistogram` merges every 100000 bytes | walk, search or count | what they print of each file, and the reference for the `-mt` programs |
| `src_test/record.c` | growing array of records, fields pointing into lines | `read_records`, `read_record`, `free_records` | one record per line within the array, each column in its field |
| `src_test/id_query*.c` | records, an index per variant | build, look up, query loop | the three variants find a record of a line with the id, or none |
| `src_test/coord_query*.c` | records, a k-d tree | build, look up, query loop | both variants find a nearest record |
| `src_test/random_ids.c` | records | prints random ids for ever | needs a record |
| `timing.h`, tests, Makefiles | none | | not modelled |

How they interact. The threads of one program share the queue's struct and, in the
`-mt` programs, one more mutex with what it protects; they communicate only through
job pointers, `is_destroyed` and `pthread_join`. The programs of `src_test` are
sequential: a loop reads queries and calls an index through function pointers.

What is hard here: interleavings in the queue (signals to the wrong sleeper, a
wakeup that comes too late, spurious ones), its destruction while other threads are
still inside, the end of the programs (last jobs, joins), the merge and its pictures,
and in the sequential programs the boundaries (empty inputs, ties, short lines).
`PROJECT.json` lists each hazard at its line.

## Modules

| module | models | role |
|---|---|---|
| `BoundedQueue` | `job_queue.h` | the abstract queue: `queue`, `closed`, and each call's `phase` (idle, pending, done). One atomic step per call between invocation and return |
| `JobQueue` | `job_queue.c` and the pthread calls in it | the detailed queue. `pc[t]` is the statement thread `t` executes next; one action per atomic step |
| `WorkerPool` | `fibs.c` main and worker, on `JobQueue` | the programs' threads over the real queue |
| `JobPool` | the same threads (`fhistogram-mt.c`, `fauxgrep-mt.c`) on `BoundedQueue`, with threads that cannot be created | what the applications extend |
| `Histogram` | `histogram.h` | operators and the variables both programs have; `PictureOf` is the reference definition |
| `FhistogramMT`, `Fhistogram` | `fhistogram-mt.c`, `fhistogram.c` | the work of a worker, on `JobPool`; the sequential program |
| `HistogramPrograms` | | either of the two on the same files |
| `GrepOutput` | what `fauxgrep-mt.c` and `fauxgrep.c` share | files as lines, the output; `MatchesOf` is the reference definition |
| `FauxgrepMT`, `Fauxgrep` | `fauxgrep-mt.c`, `fauxgrep.c` | the work of a worker, on `JobPool`; the sequential program |
| `GrepPrograms` | | either of the two on the same files |
| `RecordReader` | `record.c` | a map file becomes an array of records |
| `IdQuery` | `id_query.c` | the query loop over the records read, and the lookup every index promises: one step that returns any record with the id |
| `IdPrograms` | `id_query_naive.c`, `id_query_indexed.c`, `id_query_binsort.c`, `random_ids.c` | the programs over `RecordReader`, against `IdQuery` |
| `CoordQuery` | `coord_query.c` | the query loop, and the lookup every index promises: one step that returns any nearest record |
| `CoordNaive` | `coord_query_naive.c` | the loop with the linear search, one pass per step |
| `KdTree` | `coord_query_kdtree.c` | the loop with the tree, one call or return of a recursion per step |
| `CoordPrograms` | both `main` functions | the two programs side by side, against `CoordQuery` |
| `MC*` | | instances and symmetry sets for TLC |
| `JobQueueProofs` | | theorems about `JobQueue`: safety, wakeups, refinement |
| `JobPoolProofs`, `WorkerPoolProofs` | | theorems about the pools over the abstract and the detailed queue |
| `GrepProofs`, `HistogramProofs` | | theorems about the file programs, both of which build on `JobPoolProofs` |
| `IdProofs` | | theorems about the reader and the id programs |
| `KdTreeProofs`, `CoordProofs` | | theorems about the k-d tree, and about both coordinate programs |

    BoundedQueue <- JobPool <- FhistogramMT, Fhistogram <- HistogramPrograms   (with Histogram)
         ^             ^    <- FauxgrepMT, Fauxgrep     <- GrepPrograms        (with GrepOutput)
     implements    implements
         |             |
     JobQueue  <- WorkerPool

    CoordQuery <- CoordNaive, KdTree <- CoordPrograms (implements CoordQuery)
    RecordReader <- IdQuery <- IdPrograms (implements IdQuery)

(`A <- B`: B extends A.)

`JobQueue` implements `BoundedQueue` and `WorkerPool` implements `JobPool` (both
proved), so the applications are modelled over the abstract queue, which keeps
their state spaces small enough to interleave the work itself.

### How JobQueue follows the code

* A call enters at `lock` (inside `pthread_mutex_lock`), takes the mutex (`Acquire`),
  evaluates the `while` condition (`check`; `Blocks`), sleeps (`Wait`) or goes on.
* The slot and index update and the `count` update with its signal are two steps
  (`PushStore`/`PushCount`, `PopLoad`/`PopCount`), so that a second thread inside
  would see the ring between them.
* `Signal` wakes one sleeper of the condition variable, any of them. The destroyer
  sleeps on `not_full` like the pushers. `SpuriousWakeup` may happen at any time.
* `DestroyMark` is `is_destroyed = 1` with both broadcasts; unlock, `free`,
  `pthread_mutex_destroy` and `pthread_cond_destroy` follow as separate steps.
* `pthread_mutex_destroy` while threads are inside `pthread_mutex_lock`, and any use
  of a destroyed mutex, is undefined by POSIX. The model follows what a C library
  makes of it: a destroyed mutex refuses lock and unlock (results nobody checks), a
  mutex that is held or that a waiter of a condition variable refers to is not
  destroyed, and a thread already waiting for the mutex word may still get it. The
  alternative that destroying changes nothing is a second outcome of `DestroyMutex`.
* A client destroys a queue once (`CallDestroy`); destroying it twice frees twice.
  A malloc failure in `job_queue_init` is not modelled: the models start after an
  initialisation that returned 0.

### How KdTree follows the code

* A subtree is named by the part of the array it was built from (`lo`, `size`,
  `dim`), as `create_tree` is called with a pointer, a length and a dimension. A node
  points to the middle *slot* of its part, as `node->p` does: what it finds there is
  whatever the array holds at that time, which is why the tree is not right by
  construction. `Left` and `Right` are the two recursive calls.
* `todo` and `calls` are the stacks of `create_tree` and `lookup_recursive`. One step
  takes the call on top and pushes those it makes; a call of `lookup_recursive` is
  entered (`Visit`) and resumed after its first child (`VisitSecond`, `SkipSecond`).
* `Sort` is `qsort` by what it guarantees: a permutation of the part that is sorted by
  the dimension, any of them when there are ties.
* Coordinates are integers and distances stay squared, so `diff * diff < closest *
  closest` compares exact numbers. What the rounding of doubles may add is left out.
* `sscanf` may find two numbers, one or none; what it does not find keeps its value,
  and before the first line that value is arbitrary (`Kept`).

### How the file programs follow the code

* The walk (`fts`) is a set of files returned in any order; `fopen` may fail for each.
* A worker created by `pthread_create` starts `ready`; beyond `num_threads` it is
  `none`. `fauxgrep-mt` and `fhistogram-mt` do not look at the result of
  `pthread_create`: a worker may be `failed`, and `pthread_join` of the `pthread_t` that
  was never written either returns (an error nobody reads) or ends the process
  (`JoinGarbage`). It may also block for ever, which no safety property would notice.
  `fibs` exits when a thread cannot be created, so `WorkerPool` has no such worker.
* The counters of a histogram are `int`: `Wrap` is what the build's additions do beyond
  `INT_MAX` (undefined in C). `global_bytes`, `local_bytes` and `threshold` are 64 bits
  wide and taken unbounded. In the sequential `fhistogram` the loop counter `i` wraps
  as well, which moves the partial merges but loses nothing.
* Nothing is on the screen before the first picture (`NoPicture`). `fhistogram` draws for
  the files it reads only: when it can open none it ends without a picture, where
  `fhistogram-mt` draws eight zeros. `FinalPicture` states both. The repository compares
  the two for readable files only (`test_histogram.sh:23-30`), so this is no finding.
* Both histogram programs read byte by byte. In `fhistogram-mt` a merge is one step per
  bin, since other workers run beside it; in `fhistogram` it is one step.

### How the id programs follow the code

* A file is missing, empty, has another first line, or the one of a map and lines
  behind it. A line is its number of tabs, the set of its blank columns, and what
  `atol` makes of its text from the fourth column on.
* `read_record` is one step per `if`. `field` is the `if` it is at, `start` the column that
  the pointer `start` points to, `cut` the columns whose tab `*end = 0` has overwritten,
  and `holds` says of each field written so far which column its content is from. Which
  field an `if` assigns is the list `Assigned`, copied in the order of the code and
  independent of `Columns`, the order of the header: `west` is in it twice, `south`
  never. Whether an `if` finds its tab, and from which column it takes its content,
  depends on the steps before it (`Tab`, `NextStart`).
* `atol`, `atoi` and `atof` skip white space and run while the tab is still there, so the
  number of a blank column is that of the next column that is not blank (`NumberFrom`).
* `capacity` is an `int`. `ReaderAssumption` restricts the files to those for which
  doubling it does not overflow; a map of 2^30 lines is not covered.
* An `osm_id` that was not stored has any value of `Garbage`; a `name` that was not
  stored may crash the `printf` of an answer, or print something.
* An entry of an index has a copy of the id and the address of the record. `qsort`
  leaves any sorted permutation. `bsearch` is the C library's: the middle of a window,
  compared with `compare_method_bin`.

## Runs

| run | bounds | shows |
|---|---|---|
| `queue_safety` | 2 pushers, 2 poppers, 1 destroyer, 2 jobs, capacity 2 | types, mutual exclusion, ring arithmetic, nothing used after its release, no lost wakeup, refinement of `BoundedQueue` |
| `queue_pop_progress` | 1 pusher, 2 poppers, 1 destroyer, 1 job, capacity 2 | no popper sleeps for ever beside a job |
| `queue_push_progress` | 2 pushers, 1 popper, no destroyer, capacity 2 | no pusher sleeps for ever beside a free slot |
| `queue_stolen_signal` | 1 pusher, 1 popper, 1 destroyer, 1 job, capacity 2 | violated: see below |
| `queue_destroy_hang` | 2 poppers, 1 destroyer | violated: see below |
| `pool` | main, 1 or 2 workers, 3 jobs, capacity 2 | each job once, nobody exits early, main last; `JobPool` implemented; every job is processed; one worker terminates |
| `histogram` | main, 2 workers or 1, each of which may be missing; 3 files of 0, 2 and 5 bytes, 2 bits, threshold 2, partial merges every 2 bytes, `int` from -4 to 3 | no torn picture, the globals in step, every byte counted once, each program's last picture complete for the files it could open |
| `grep` | main, 2 workers or 1, each of which may be missing; 3 files of 1 to 3 lines | output in file order, complete as `fauxgrep` prints it, one line at a time; every matching line printed in the end, if a worker was created |
| `coord_queries` | up to 4 records on 6 places, queries of 9 points, map from -1 to 1 | both programs answer with a nearest record; the tree splits and holds every record; no search step leaves a nearer record behind; the linear search keeps the first of equals |
| `coord_clamped` | the same | violated: see below |
| `id_queries` | files of up to 4 lines with 0, 1, 4, 23 or 24 tabs, three of these with blank columns, ids 1 and 2, unset ids 1 or 3, queries 0 to 3, an array of 1 slot at first | the array grows in time, columns are kept by the 24 `if`s, answers come from the file, the first of equals, no entry lost by the binary search, crashes only for incomplete files; `IdQuery` implemented |
| `record_columns` | files of one line | violated: see below |

Why the bounds are enough. Two threads of each kind are what every race in the queue
needs: one in an update or asleep, one that overtakes it; the destroyer is the third.
Capacity 2 has an empty, a partly filled and a full ring that wraps after two jobs.
Three jobs on two slots make main block in a push. The calls are unbounded: threads
call again and again. The theorems then remove the bounds.

The histogram's files include an empty one, one of exactly a threshold and a partial
merge, and one of more than two; two bits are enough for a merge to be half done, and
the files together overflow both counters. The searched files have up to two matches
each, so that lines of different files interleave in every way, and one has none.

Four records give a tree of three levels, so that both dimensions split and
their halves are sorted again; on six places most records tie in a coordinate and many
lie at the same place, and the queries lie on records, between them and beyond the map
in both directions. Four lines fill the array of records exactly at one, two and four
slots and give the binary search three levels; over two ids most files hold an id
several times; the tabs of a line end at the edges of a name, an id and all columns, and its blank
columns are strings and numbers, alone, in a row and the last.

Symmetry is used in `queue_safety` and `histogram` only, which check no liveness. The
runs of the pool, the file programs and the query programs do not check for deadlock: a
program stops when main returns or its input ends (and, with the defect below, a
threaded one may hang).

### Fairness

`FairSpec` assumes that a thread that can take its next statement eventually takes it
(weak fairness on `Run`) and that a thread waiting for a mutex that is released again
and again eventually gets it (strong fairness on `Acquire`), which the scheduler and
the futex queue of a C library give in practice. No thread has to call the queue, and
no spurious wakeup is promised. `PoolFairSpec` adds weak fairness of main and of each
worker between their calls: main reads its input to the end, a job takes finite time.

`ProgramsFairSpec` of `GrepPrograms` runs over the abstract queue and asks of it only
what the detailed one was shown to give: a push or a pop that can take effect does, and
returns. It asks nothing of a refused pop, which may hang. `EveryFileSearched` holds
nevertheless, since every file has left the queue before it is destroyed. It supposes that
one worker was created, not all of them: without any, main waits for ever,
in a push or in the destruction. Joining a worker that was not created may end the process, and
what is printed by then is all that is promised in that case.

### What four runs refute

* `queue_destroy_hang`: `job_queue.h:35-37` says a pop returns -1 once the queue is
  destroyed. In the code the destroyer unlocks and destroys the mutex while other
  poppers may still wait inside `pthread_mutex_lock`. The next owner's unlock of the
  destroyed mutex fails without releasing it, and the remaining poppers (and main in
  `pthread_join`) wait for ever. It needs two poppers; `OneWorkerTerminates` shows
  that a program with one worker, the default, always returns. What is safe nevertheless is stated by
  `ReleasedNotUsed` and `MutualExclusion`: nobody uses the freed ring.
* `queue_stolen_signal`: `job_queue.h:28-29` says a push blocks if the queue is full.
  A destroyer that waits on `not_full` together with a pusher can take the one
  signal of a pop; it sleeps again since the queue is not empty, and the pusher stays
  blocked beside a free slot. The three programs are not affected: the thread that
  pushes is the thread that destroys. `DestroyerNotForgotten` is the other half: the
  destroyer itself is never forgotten.
* `coord_clamped`: `coord_query_naive.c:29` promises the record closest to (lon, lat).
  For a query beyond the map the code clamps the coordinates first (line 34), and the
  record nearest to the clamped point need not be nearest to the query. The clamp is
  meant: the comment in line 33 gives its reason, and the expected output of the extreme
  queries (`expected/coord_extreme_expected.txt`) contains its result. So line 29 leaves out
  an exception, and the code does what was intended: against the clamped point, which
  both programs use, every answer is nearest (`coord_queries`).
* `record_columns`: by the header of the map (`record.c:17`) `south` is the column behind
  `west`. `record.c:115` stores it in `west` again, and `south` is never written; nor is
  `housenumbers` unless a tab follows the last column. No program reads the three.
  `ColumnsKept` states of every other column that a tab ends it is in its field, of the
  eighteenth if no tab ends the nineteenth, and of a number if its column is not blank; it
  holds for every line, however many columns it has.

The comment in `record.h:49-50` names the columns of another file ("Index,Date,Open,...")
and contradicts `record.c:17`, which the model follows. An empty file is accepted as a
map without records, as `src_test/scripts/run_tests.sh:92-100` expects.

## Proofs

### The job queue

These theorems are about `Spec` of `JobQueue` (`FairSpec` implies it), for any sets of
threads and jobs and any capacity. They assume `CapacityAssumption` (at least one
slot), `ThreadAssumption` (finitely many threads, `NoThread` is none of them) and
`JobAssumption` (`NoJob` is no job).

* `JobQueueProofs`. None of the safety properties is inductive: that the mutex
  excludes fails without knowing who holds it, and that nobody uses the freed ring
  fails without knowing that a destroyed queue is empty and has no sleepers.
  `IInv` adds what a label says of the call (`StagesFit`), that the holder of a
  working mutex is the thread inside (`HolderInside`), that a destroyed queue is empty
  and nobody sleeps in it or updates it (`DestroyedQuiet`), that releases come after
  the mark (`ReleasedLast`) and that a half-way update leaves room for `count`
  (`CountMayMove`). `IInvStep` has one step per action. `TypeCorrect`,
  `MutualExclusionHolds` and `ReleasedNotUsedHolds` follow from it.
  `RingConsistentHolds` needs `PushCarriesJob` besides, and the length of the ring in
  terms of `count` while a thread is half way (`LengthKnown`); the modulus is removed
  by `TailSlot`, `JobSlot` and `SlotAfter`.
* `NoLostJobSignalHolds` and `NoLostRoomSignalHolds` are inductive relative to `IInv`:
  each step changes the number of awake threads and of jobs (slots) by at most one, a
  sleeper is added only at zero. `DestroyerNotForgottenHolds` is as well: the destroyer
  lies down only on a queue with jobs, and the pop that empties it signals `not_full`,
  which wakes the destroyer itself or a pusher. An awake pusher leaves by putting a job
  in, or lies down again because it finds the queue full: jobs either way.
* `JobQueueImplementsBoundedQueue`: `PushStore` appends, `PopLoad` takes the head,
  refusals and `DestroyMark` take effect, unlock or `DestroyConds` return, everything
  else stutters. It needs `OneDestruction`, so that the close happens once.

### The pools

`JobPoolProofs` and `WorkerPoolProofs` are about `PoolSpec` of either module, for any
number of workers and jobs. They assume the `PoolAssumption` of the module: main is the
one producer and the destroyer and is no worker (and `NoJob` is no job).

* Over the abstract queue, `EachJobOnce` says that a job is in one place until it is
  finished. It is not inductive: a worker could hold a job while the queue is ready to
  hand out the same one. `PoolInv` adds what main's and each worker's stage say of
  their calls (`MainFits`, `WorkersFit`), that the four places (unsent, the push, the
  queue, a worker's hand) are apart from each other and that no place holds a job
  twice (`PlacesApart`), and that exactly the jobs in no place were finished, each once
  (`FinishedOnce`). A refused pop tells a worker that the queue is closed; main closes
  it only behind the last push, and only when it is empty.
* `WorkerPoolImplementsJobPool` carries this to the code of `job_queue.c`. A step inside
  the queue is a step of `BoundedQueue` by the refinement above (`QueueStepImplements`),
  and the clients' steps are the same. `EachJobOnceHolds`, `DoneAtExitHolds` and
  `ExitOnlyWhenDoneHolds` are `PoolInv` under the refinement mapping: the places of
  the two pools coincide (`SamePlaces`).

### The searches

`GrepProofs` is about `ProgramsSpec` of `GrepPrograms`, for any set of files of any
length and any number of workers. It assumes `PoolAssumption`, that the jobs are the
files, that files are sequences of lines, and that `NoThread` and `NoFile` stand for
no caller and no file.

* `OutputInFileOrder` compares lines in the output. The invariants say more: what was
  printed of a file is exactly its matches among the lines already passed (`UpTo`),
  nothing for a file not started, all of them for one that is done (`Searched`).
  `SearchFits` relates this to the statement a worker is at, and `FilesFit` to the
  places of the pool: a file nobody works on is untouched or searched.
* A worker prints lines of its own file only, since no two workers have the same file
  in hand (`PlacesApart` of the pool, by `GrepIsPool`). Only between the check of a line
  and its printing does the output lag behind, and there the worker waits for or holds
  `print_mutex` (`PrintAloneHolds`).
* The two programs run side by side in `GrepPrograms`; while one runs, the variables of
  the other rest in their initial state (`ProgramsInv`).

### The histograms

`HistogramProofs` is about `ProgramsSpec` of `HistogramPrograms`, for any finite set of
files of any length, any number of bins and workers, any width of `int`, any
threshold and any distance of the partial merges. It assumes `HistogramAssumption`
(finitely many files and bins, the bins are numbered from 0), `ThresholdAssumption` and
`PartialAssumption` (both distances are at least one).

* `Wrap` is the remainder that lies in the range of an `int`. `OneRemainder` shows that
  there is only one, so additions that wrap give the same whatever was added before
  (`WrapAdd`, `WrapSum`): a counter is the wrapped number of times its bit occurs in
  the positions read so far (`Times`, `Picture`), also beyond `INT_MAX`.
* In `fhistogram` the local and the global histogram together hold the picture of the
  bytes read so far (`WalkInv`), wherever the partial merges fall. Between files the
  screen shows that picture, and `NoPicture` as long as no file was opened (`Opened`).
* In `fhistogram-mt` the bins of `global_histogram` tell of different files while a
  worker merges. `MergedInto(b)` are the files whose bin `b` has arrived, one set
  per bin, and `GlobalsFit` says that each bin counts the files merged into it and that
  `global_bytes`, with what the drawn pictures counted off, has the size of the files
  merged into the last one. The sets differ only while somebody is at `merge`, which
  holds the mutex (`CountFits`); whenever it is free or a picture is drawn they are one
  set. So the pictures are whole (`WorkersDrawWholeHolds`) and the two globals in
  step (`WorkersAgreeHolds`). By the pool's invariant all files are finished when main
  returns (`FinalPictureHolds`).
* What a fold over a file computes would need induction over the file. The models read
  byte by byte, as the code does, so the induction is that over the program's steps.

### The reader and the id programs

`IdProofs` is about `PSpec` of `IdPrograms`, for files of any length with any lines.
It assumes `ReaderAssumption` (a line has a number of tabs, blank columns and an integer
id, the array has a slot, its doubled capacity is an `int`, an unset id holds some integer) and `QueryAssumption` (needles are integers,
`NoNeedle` and `NoRecord` stand for none).

* `PInv` has the reader's part (`ReaderInv`: the slots filled so far are the lines read
  so far, and the slot behind them is in the array), what the stage of a program says
  of its index (`IndexFits`: every entry is the address and the id of a record, every
  record has an entry, `IndexOrdered`: sorted for the binary search), and what a search
  has found out (`PassedNone` for the scans, `WindowHolds` for `bsearch`).
* `ColumnsKeptHolds` needs to know what a half-parsed slot holds: every column in front
  of `start` is cut and in the field its `if` assigned, no `if` behind has written yet, and
  once an `if` found no tab the later ones find none either (`Parsed`, `SlotFits`). Each
  `if` keeps this (`TakeFieldKeeps`, `SkipFieldKeeps`), since no later one assigns the
  field of an earlier one but for `west` (`AssignedFields`); a number is that of its own
  column when that is not blank (`OwnNumber`, by `LeastNumber`).
* `ProgramsImplementIdQuery`: an answer is a record with the id by the comparison just
  made, none by `PassedNone` with the index at its end, or by `WindowHolds` with an
  empty window. Everything else stutters.

### The k-d tree

`KdTreeProofs` is about `KSpec`, for files of any length, any integer coordinates and
any sequence of queries. It assumes `CoordAssumption`: coordinates and queries are
integers, `NoRecord`, `Unset` and `Infinity` are none.

* `TreeSplitsHolds`. That the nodes made so far split their parts is not inductive: a
  sort still to come could move a record across a node. `TreeParts` adds that the parts
  on the stack are apart from each other (`TodoApart`) and each lies apart from a node
  or within one of its halves (`TodoClear`), so that a sort permutes records on one
  side of every node and leaves the slot it points to alone (`SortEffect`,
  `SplitsStays`). It also has that no record leaves the array (`AllThere`) and that
  each child is made or waits on the stack (`AllExpected`): the finished tree is whole.
* `KTypeCorrect` comes from the same invariant `KInv`, which further says that a search
  starts on a finished tree with a query that was read, and calls only subtrees of it.
* `NoneLeftBehindHolds` is inductive relative to `KInv`. Each step has to show that
  what it leaves pending covers what was pending, up to records that are not nearer
  (`SearchStep`). For `Visit` that is `Halves`: a part is its two halves and the middle.
  For `SkipSecond` it is `FarSide`: a record on the other side is at least as far from
  the query as the split, since the square grows with the distance in one dimension
  and the other dimension only adds to it.
* `TreeHoldsAllHolds`. While the tree is built, every slot has one node or lies in one
  part on the stack, since the two halves and the middle of a part are apart
  (`PointsApart`, `SlotsPlaced`); and since sorting permutes, the array holds each
  record once (`OnceInArray`), so there are as many nodes as records.
* `KdTreeImplementsCoordQuery`. When the stack is empty no slot is pending, so no
  record is nearer than `best`; as every record is in some slot, `best` is nearest of
  all (`BestIsNearest`), or there is none. Every other step stutters or is the loop's.

### The coordinate programs

`CoordProofs` adds the linear search and puts the two programs side by side, under the
same assumption.

* `FirstNearestHolds` is inductive with what holds between the queries (`NothingSeen`).
  `value` is compared with a distance computed anew in each pass, which `OneMore`
  relates to the records passed before.
* `NaiveImplementsCoordQuery`: at the end of the loop the first of the nearest is a
  nearest (`ValueIsNearest`). With the tree's theorem, `ProgramsImplementCoordQuery`
  says that the two programs may differ in ties only.

### What stays with TLC

Out of the prover's reach are the liveness properties, which rest on fairness and
ENABLED: `PopBlocksOnlyWhenEmpty` and `PushBlocksOnlyWhenFull` of the queue,
`EveryJobFinished` and `OneWorkerTerminates` of the pool, `EveryFileSearched` of the
search. TLC checks them on the bounds above. The four violated properties have nothing
to prove. Every other property of the runs is a theorem.

## Not modelled, and the plan

Left out of the models: option parsing other than the number of threads, the walk of the
file tree (its result is the set of files, in any order), failing `malloc` and `strdup`
(with them `fibs`, which ignores the result of `job_queue_init`), the Fibonacci numbers,
the drawing of a picture (which reads the counters only) and the text of what is printed;
in the coordinate queries the rounding of doubles, coordinates that are not numbers, the
usage check and the reading of the file (`RecordReader` models the reading for the id
queries). `timing.h` returns the clock. The tests and Makefiles have no state of their own.

What could still be added:

1. The links the prover cannot make but a reader may want in one statement: that the
   file programs over `job_queue.c` itself, not only over `JobPool`, print and count
   what is proved here. It follows from `WorkerPoolImplementsJobPool` and the fact that
   the applications leave the variables of the queue alone (`GrepIsPool`,
   `HistogramIsPool`), and would need a module that runs the work over `WorkerPool`.
2. Shorter proofs: lemmas on interval arithmetic that several modules have in common.
