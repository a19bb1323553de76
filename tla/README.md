# A TLA+ model of cado-nfs

This directory models the parts of cado-nfs where several actors have to agree
on what has been done: the distribution of workunits by `cado-nfs.py`, its HTTP
server and its clients; and inside the programs, the thread pool of the siever,
the thread teams of polynomial selection, the pipe through which the filtering
programs read relations, and the parallel merging of rows in a shared heap. The
arithmetic (sieving, linear algebra, square root) is not modelled.

## 1. The system

### Components

| Component | Source | State | Operations |
|---|---|---|---|
| workunit database | `scripts/cadofactor/wudb.py` | table `workunits` (status, client, times), table `files`, one table per task dictionary | `create`, `assign`, `result`, `verification`, `cancel*`, `set_status`, `get_one_result`; dictionary updates with and without commit |
| client/server task | `cadotask.py` `ClientServerTask` | `wu_submitted`, `wu_received`, `wu_timedout`, `wu_failed`, `start_real_time`, `start_achievement` | `submit_command`, `wait`, `verification`, `resubmit_one_wu`, `resubmit_timed_out_wus`, `handle_error_result`, `cancel_wu` |
| sieving task | `cadotask.py` `SievingTask` | `qnext`, `rels_found`, `rels_wanted`, output files | `run`, `updateObserver`, `add_file`, `request_more_relations` |
| other client/server tasks | `cadotask.py` `Polysel1Task`, `Polysel2Task` | heap and table of best polynomials | as above, with other results |
| task scheduling | `cadotask.py` `CompleteFactorization` | run queue, tasks that have run | `run`, `relay_notification`, `answer_request` |
| client starting | `cadotask.py` `StartClientsTask` | process ids, hosts, used ids | launch, ping, kill |
| workunit server | `wuserver.py`, `upload.py` | the flag `serving_wus` | `send_WU`, `do_upload`, `stop_serving_wus` |
| parallel client | `cado-nfs-client.py` | threads, queues of results, result files, half-downloaded workunits | download, run, upload, signals |
| thread pool | `utils/threadpool.cpp` | queues of tasks, results and exceptions, counters, two kinds of condition variables | `add_task`, `get_task`, `add_result`, `get_result`, `drain_queue`, destructor |
| polynomial selection threads | `polyselect/polyselect.c`, `polyselect_thread_team.c`, `utils/barrier.c` | counters of a team, the posted task, the barrier, the list of matches | `thread_loop`, `post_work`, enter and leave of four kinds of zones, `barrier_wait` |
| ring buffer | `utils/ringbuf.c` | heads, bytes to read and to write, the buffer | feed, search, skip, mark done; get, put, grow |
| reading of relations | `utils/filter_io.cpp` | slots, counters and status by level, position in the buffer | `filter_rels2`, `schedule`, `complete`, `drain` |
| merge | `filter/merge.c`, `merge_heap.c`, `mst.c` | matrix, weights, transposed matrix, pages, reserved rows, history | passes of the main loop, merges, garbage collection |
| other filtering programs | `filter/dup1.c`, `purge.c`, `replay.c` | files, hash tables | one run each |
| worker threads of linear algebra | `linalg/bwc/worker-threads.c` | a barrier-like team | start, work, join |
| numerical programs | `sieve`, `linalg`, `sqrt`, `gf2x` | files | one run each |

### How they interact

The main thread of `cado-nfs.py` creates rows of status AVAILABLE. A thread of
the HTTP server answers a client's GET with one of them, which becomes
ASSIGNED, and a client's POST with `do_upload`, which makes an ASSIGNED row
RECEIVED_OK or RECEIVED_ERROR and answers 200 whatever the status was. The main
thread polls: `wait()` asks the `DbListener` for one result, which it hands to
the observing tasks; the task that recognises it counts it, registers its file
and makes the row VERIFIED_OK or VERIFIED_ERROR. If there is no result, `wait()`
looks for rows that were assigned too long ago or expired by hand, cancels each
and creates the next attempt. All connections use `BEGIN EXCLUSIVE`, so the
database serialises them; nothing else does. Counters are dictionaries stored
in the same database and mirrored in the memory of the main thread.

In a client process started with `--parallel`, client threads share one
downloader (behind a lock) and one uploader. A finished result is appended to
a deque and an event is set; the uploader thread takes results from it, keeps
those whose upload failed in a second deque, and is told to quit after every
client thread has ended.

Within a program, the owner of the thread pool adds tasks to numbered queues and
joins their results from queues of the same numbers, while tasks add more tasks to
later queues. A polynomial selection team alternates between its threads working
alone on matches and all of them sharing the tasks that one of them posts.
`filter_rels2()` starts a thread that feeds the ring buffer, threads for each
level of the pipe, and is itself level 0; `merge` reads its matrix through it.
The threads of `merge` share the matrix, its weights and the reserved rows
without locks, by atomic updates; the lists of pages are in critical sections.

### What is hard

- *Crash and restart.* The program is meant to be interrupted and resumed
  (`README.md:538`), but some operations commit in their middle.
- *Late, lost and repeated messages.* A client repeats an upload until it is
  answered; a timed-out client may still answer.
- *Data read early and used late.* The list of timed-out rows, the child
  process of a client thread, the name of a result file.
- *Counters apart from what they count.* `get_number_outstanding_wus()` is the
  difference of three counters, and loops wait on it.
- *Waiting.* For rows, results, events, locks, other threads; with signals to
  one of several sleepers, and conditions that change between wakeup and lock.
- *Reuse.* Slots of a pipe, bytes of a ring buffer, pages of a heap, barriers.
- *Unlocked access.* Bytes searched while they are written, weights compared
  before they are updated, counters with one writer.

What makes a component correct: the database, that a row moves forward only and
belongs to one client; the task, that ranges are tried one attempt at a time,
that counters and files agree with rows, and that its loops end; the client,
that no result is lost or sent twice and that it quits when told; the pool, that
no task or wakeup is lost and that its calls return; the team, that posted work
is done by those it was posted to and that the loop ends; the pipe, that each
relation passes each level once; merge, that rows are neither lost nor worked on
twice and that its history, weights and counts agree with the matrix.
`PROJECT.json` lists the hazards with their lines.

## 2. Modules

| Module | What it is |
|---|---|
| `WuAccess` | the table as a value and the operations of class `WuAccess` on it; no variables |
| `ClientServerTask` | main thread, server threads, clients, operator and crashes around that table |
| `RangeLedger` | abstract specification: what becomes of each range of special-q |
| `MCClientServerTask` | outcomes and symmetry for TLC |
| `ClientServerTaskProofs`, `ClientServerTaskRefinement` | theorems about `ClientServerTask` |
| `ParallelClient` | client threads, uploader thread, signals and shutdown of one client process |
| `MCParallelClient` | symmetry for TLC |
| `ParallelClientProofs` | theorems about `ParallelClient` |
| `ThreadPool` | the thread pool of the siever, with an owner that uses it |
| `ThreadPoolProofs` | theorems about `ThreadPool` |
| `Rendezvous` | abstract specification: what a barrier promises |
| `PolyselectTeam` | the loop of a polynomial selection thread, team and barrier |
| `PolyselectTeamProofs` | theorems about `PolyselectTeam` |
| `RingBuf` | the ring buffer between a reading thread and a consumer |
| `InflightBuffer` | the slots, counters and locking models of a pipe of levels |
| `RelationPipe` | abstract specification: what such a pipe promises |
| `FilterRels` | composes the last three: `filter_rels2()` |
| `FilterRelsProofs` | theorems about `FilterRels` |
| `MergeHeap` | the pages that hold the rows of merge, and their collection |
| `MergePasses` | merge itself, on top of that heap |
| `MergePassesProofs`, `MergeWeightsProofs` | theorems about both |
| `MCPolyselectTeam`, `MCFilterRels`, `MCMergePasses` | tasks, files and matrices for TLC |

### ClientServerTask

One action is one transaction of one actor. What is not committed cannot be
seen by others and vanishes in a crash, so nothing finer can be observed; where
the code commits in the middle of an operation, the operation is two actions:

- `verification()` changes `wu_received` without committing and prints an ETA;
  `get_eta()`, once per run of the program, stores `start_achievement` with
  `__setitem__`, which always commits. So `HandleGoodResult` may end in
  `pc = "verify"` with the counters stored and the row untouched, and
  `HandleErrorResult` in `"everify"`.
- `submit_wu()` stores `start_real_time` (once per run) with a commit. If this
  happens in a resubmission, the old row is cancelled and committed before the new
  one exists: `pc = "create"`.

Correspondence of `pc`: `submit` and `wait` are the two loops of
`SievingTask.run()` (`ret` says which of them called `wait()`); `observe` is
between `get_one_result()` and the handling of the result; `check` and
`timeouts` are in `resubmit_timed_out_wus()`, with `todo` its list of rows;
`done` and `short` are the two returns of `run()`; `dead` is an uncaught
exception or failed assertion; `down` an interruption; `finished` follows
HAVE_ENOUGH_RELATIONS. `Restart` is the constructors and the next `run()`.

A workunit id is a pair of range and attempt, as `name_task_range#attempt` is.
A result is abstracted to what its handler tells apart: `ok` (a file that
parses), `corrupt` (a file that does not), `nofile` (exit code 0 without
exactly one file) and `error`. Each good file counts as one relation. Time is
abstracted: any assigned row may be found timed out at any check. An answer to
GET or POST may be lost. The two queries for rows to resubmit are one step.
`wudb.py -expire` acts on whatever rows the operator selects; `Expire` is its use with
`-assigned`, on rows a client may still be working on. An operator who selects rows that are
verified or cancelled gets those back too: no property here is meant to survive that.

Ghost variables, which no action reads: `crashes` (bounds interruptions),
`recounted` (interruptions that leave a result counted but not verified) and
`uncounted` (rows cancelled other than by `cancel_wu()`).

Not modelled here: the other client/server tasks, the import of relations,
and the message that stops clients.

### RangeLedger

A range is todo, pending, done or abandoned. It is taken up in order, tried at
most `MostTries` times with one try at a time, counted when done, and abandoned
only after `FewestTries`, because a result was unusable, or because enough
relations were found. An interruption may do harm in exactly two ways: it may
lose one range that is between two tries (`Interrupt`), and it may make one
result count once more (`CountAgain`, at most once for each interruption).
`ClientServerTask!Ledger` maps rows to ranges; `LedgerSpec` is checked and proved as a
property.

### ParallelClient

`tpc` is where each client thread is in `process()`, `upc` where the uploader
thread is in `run()` and `process_uploads()` (its last rounds run the same code;
`last_retry_count > 0` tells them apart), `mpc` where the main thread is. An
action is what a thread does between two accesses to shared data whose order
another thread can notice: `append` and `set` are two, `clear` and the check
after it are two, and the test, the flag and the call of
`client._current_process` are three.

`file[c][r]` is the result file of range `r` in the working directory of `c`;
all attempts of a range use the same name, because a resubmission changes
nothing but the id. The server is external: it offers a first attempt of each
range and a further one when the last is past its time. The downloader is one
step, `get_wu_full`, since its lock is held throughout. The start of the
threads, `--single` and the client without `--parallel` are left out.

### ThreadPool

Every access to the pool is made under the mutex of its monitor, so each locked
section is a step and a wait ends one. A worker is in `get` (about to call
`get_task`), `asleep`, `woken`, `run`, `thrown` (its exception is in the list,
its NULL result not yet) or `ended`. The owner's calls are sequences of steps in
`todo`, and `added` numbers the tasks ever added: the destructor drains each queue, sets `kill_threads` and joins;
`snapshot` is the local variable of `drain_queue()`. All workers prefer queue 0,
whatever queue a task is added to; `Notify` is the choice of a condition variable
to signal. A task may add tasks to later queues, as
`las-process-bucket-region.cpp:749` does, and every task answers. Left out: the
synchronous pool of one thread and the statistics of waiting. In the siever no
task returns NULL; one that did would never be counted as joined, and the next
drain would not end.

### PolyselectTeam and Rendezvous

The team's lock is a variable, since a thread that roams or waits does not hold
it; a step is what a thread does between two releases of the lock or between two
barriers. `count` has the five counters of the team, `my[t].index` the
`index_in_sync_zone`. The tasks of an ad are `proots` (no barrier), `DCS` and
`CCS` (a barrier in the middle); `Conducts` says in which sequences they come.
`shares` is history: which threads a task was posted to and who did which half of
it. A match is a unit in a thread's own list or in
the one of the league. One team is modelled; a second one would share no more
than `idx` and the list. Threads wake only when signalled (`i_am_ready()` and
`leave_sync_zone()` wait without a loop, and would not stand it otherwise).

`Rendezvous` has two variables, how many are to meet and those who have arrived and
must still wait: nobody goes on before all have come, and the number changes between
meetings only. In the team these are `bar.count` and the threads in the barrier whose
`event` is still the barrier's; one that sleeps although the barrier has been opened
(`event` is odd, or even again) no longer counts as waiting.

### RingBuf, InflightBuffer, FilterRels and RelationPipe

A cell of the ring buffer holds the number of the byte written there last, so that
a byte that is stale or torn is visible. Feeding is five steps (`CheckRoom`,
`ReadSize`, the unlocked `Fread`, `Account`), because the consumer searches, also
unlocked, in between. `ringbuf_put`, `ringbuf_get` and growth, which serve
`mf_scan2`, are left out.

`InflightBuffer` has the counters of all levels, the status of the slots, the
threads that sleep, and both locking models: "posix", where each operation holds
one or two of the locks and is a step, and "lightweight", where loads and stores
of the counters are steps and waiting is polling. `FilterRels` adds the program
counters and the main loop with `avail_seen` and `avail_offset`, including the
halving of the latter when the reader is ahead. The parsers turn a line into the
relation itself. Functions of a level only record what they were given.

`RelationPipe` says that relations enter in the order of the input, pass each
level once and after the level before, and are never more than there are slots.

### MergeHeap and MergePasses

A page is the sequence of its rows with number and size, a pointer the page and
the place in it. Critical sections are steps. `heap_malloc()` is up to three
steps (release the full page, get a new one, write), collecting a page one step
for each row.

`MergePasses` reads the rows (phase `read`): `Readers` says which thread reads which row of a
matrix, all by `Main` if `filter_rels()` reads a compressed file, a part each in
`read_purgedfile_in_parallel()`, where threads fill and release pages while others do. There a row has no
number until all are read; the model gives it at once, as nothing looks at it before.
(The two ways differ for a column that a line has twice: `insert_rel_into_table()` asserts that there is
none, `read_local_rows()` adds the two up. The lines of the model are sets.)
A pass of the main loop is `StartPass`, perhaps a collection by
all threads (`gc`), `Prepare` (`compute_R()` and `compute_merges()`; or `CostBelowZero`, item 13 below),
the loop of `apply_merges()` (`apply`), `EndPass`, which counts the merges done and writes the history,
`Recompress`, which takes memory for `rem_ncols` weights and replaces that number by the true
one if a third of the columns is gone, and `TestEnd`. `RoomForWeights` is looked at
before each of these, in particular where that memory is taken. In the loop a thread takes some of the next
merges (`schedule(guided)`), looks whether the rows of one are free, reserves them
one by one (`Reserve` is the atomic capture), builds the spanning tree edge by edge
(`GrowTree`, Prim's algorithm of `mst.c` with its tie-breaks), adds rows along it and
removes the root. A weight is compared in one step and updated in the next, with the
wrap of an 8-bit counter. Rows are sets of columns, and columns keep their numbers:
`recompress()` keeps their order, and only its counts matter here. The order of the
rows of a column in the transposed matrix depends on the threads that filled it;
it is chosen when it is first used. Left out: discrete logarithms (exponents),
and the parallel loops of `compute_weights()`, `compute_R()`, `compute_merges()`
and `recompress()`, whose outcome does not depend on the threads otherwise.

## 3. Runs

| Run | Checks | Bounds | States |
|---|---|---|---|
| `wu_results` | `TypeOK`, `ResultMatchesUpload`, `HeldByAssignee`, `RelationsMatchFiles`, `StatusIsFinal` | 2 symmetric clients, 3 ranges, 1 attempt, every outcome, manual expiry, 2 interruptions | 4646897 |
| `wu_ledger` | `OneLiveAttempt`, `OutstandingExact`, `LedgerSpec`, `RunEnds` | 1 client, 2 ranges, 2 attempts and more, 1 interruption, under `FairSpec` | 386393 |
| `wu_assertion` | `VerificationAssertion`, violated | see below | |
| `pc_uploads` | `TypeOK`, `ResultInOnePlace`, `ArrivalNoticed`, `FinalAssertion`, `AnswerHasFile` | 2 symmetric clients, 1 range, 2 attempts, 2 signals | 2216590 |
| `pc_liveness` | `QuitsAfterSigint`, `RetriesGoRound` | 1 client, 3 ranges, 1 SIGINT, under `FairSpec` | 233822 |
| `pool` | `TypeOK`, `EveryTaskAccountedFor`, `NoSleeperBesideATask`, `ExceptionBeforeItsResult`, `NothingLeftAtKill`, `CallsReturn`, `TasksAnswered` | 2 workers, 2 queues, 3 tasks of which 1 throws, 1 spurious wakeup, under `FairSpec` | 275858 |
| `team` | `TypeOK`, `CountersAgree`, `BarrierTasksComplete`, `NoMatchLeft`, `BarrierPromise`, `LoopEnds` | 3 threads, 3 ads with a collision, 1 match, under `FairSpec` | 536992 |
| `team_shares`, `team_winddown` | `EveryonesDone`, `WindDownTerminates`, violated | 2 and 3 threads | |
| `filter` | `TypeOK`, `SlotIsItsOwn`, `AbsoluteIndexRecovered`, `PipeSpec`, `AllFiltered` | 2 pairs of files, 2 or 4 threads, 2 slots, a buffer of 14 bytes, under `FairSpec` | 555976 |
| `merge` | `HeapSound`, `HistoryReplays`, `WeightsExact`, `BooksKept`, `RoomForWeights`, `MergeEnds` | 2 threads, 8 matrices of 3 to 7 rows, 3 of them read by both threads, pages of 18 words, `MERGE_LEVEL_MAX` 4, under `FairSpec` | 318739 |
| `merge_weights` | `WeightsExact`, violated | `MERGE_LEVEL_MAX` 3, one matrix | |

Why the bounds are enough to be interesting.

*Workunits.* Two ranges and two attempts are the least for which a retry of one
overlaps the first attempt of the other, and the limits of 2 (or 1) on timeouts
and failures are reached and exceeded; two interruptions are needed for the
counters to go wrong by two, which is what makes an assertion fail. `MaxCrashes`,
`MaxWanted` (how far `rels_wanted` may be raised) and `MaxSignals` bound what the
code does not.

*Client.* Three failed uploads are the least number of which `ceil(n ** 0.6)`
leaves one behind. The 10 last rounds of the uploader are 2 (`FinalRetries`).
`--keepoldresult` is off, as it is by default.

*Pool.* Two workers are the least of which one may sleep while the other works,
and two queues the least for which tasks go to a queue nobody waits on, and for
which one queue is drained while the other fills. `MaxTasks` 3 lets a task that
throws, one that adds another and the one added overlap. `MaxSpurious` bounds
wakeups without a signal, of the owner or a worker.

*Team.* With three threads, one may lead, one help and one be away with a match;
with two ads a round is entered while the last is left, and three are the least
with which a second leader posts a task while the first waits (below). In `team`
every ad has a collision, which is the longer of the two sequences of tasks; both
sequences occur in `team_shares` and `team_winddown`.

*Filter.* Two slots are used again by each file pair; the level with two threads
completes relations out of order, and the last level has one. The bound
`Alloc` = 14, `OneRead` = 7 is not arbitrary: the unlocked search beyond the
readable bytes is harmless only if a round of the main loop begins with a whole line
in the bytes it has seen. With lines of at most `L` bytes it is enough that a round begins
with `2 * L - 2` bytes or with whole lines (`RoundsSuffice`, section 4): a round leaves about
half of its bytes (`avail_offset`). The files of the run satisfy that with `L` = 3 and 14
bytes; with buffers of 7 to 12 bytes a round may begin without a whole line. What happens otherwise is item 15
below; as the program's buffer holds thousands of lines, and each round leaves half of what it saw, it
takes many short reads in a row to get there. `UIntMod` and `SizeMod` scale 2^32 and 2^64 down.

*Merge.* The matrices are those in which something can happen: a circle of
merges that block each other, two merges that share a column but no row, a tree
that is a chain, columns that vanish together, equal rows, a column too heavy to be
kept, and a column of cost -1 (`Alone`, the only one of them that gets there); pages hold a few rows each and are collected from the second pass on. Rows are
reserved one at a time, so that two threads already meet in every way two merges can;
a circle of more threads ends the same way, with nothing merged. In `merge`, weights
reach `MERGE_LEVEL_MAX` in no column in which two threads work at the time, so that it
shows the updates to be exact away from saturation, and `merge_weights` shows
what happens at it. Deadlock is checked in all runs but those of the team, where
threads may be stranded (below).

### Fairness

`ClientServerTask!FairSpec`: the main thread keeps running; clients keep asking
and executing; and every assigned row is, again and again, eventually found
timed out by a check (strong fairness, because a check is made only when there
is no result). The last is what the passage of time and `check_every` give. No
fairness is assumed of uploads: they may all be lost. `RunEnds` is checked for
results that have their file; it does not hold for others (below).

`ParallelClient!FairSpec`: every thread that can take a step takes one, and
`queue_event.wait()` returns after its timeout. Nothing is assumed of the server:
it may never offer a workunit and every upload may fail.

`ThreadPool!FairSpec`: every worker that can run does and every task ends; the
owner, once in a call, goes on with it. Whether it makes another is its choice.

`PolyselectTeam!FairSpec`: threads run, and a lock that is free again and again is
given to each that asks for it (strong fairness of `Acquire`), which a mutex does
not promise but threads that sleep most of the time make true.

`FilterRels!FairSpec`: the reading thread, the main thread and each thread of a level
run when they can; polling is allowed to go on as long as its condition is false.

`MergePasses!FairSpec`: the program runs. Nothing in it polls, so that it does not
matter which thread is scheduled, and weak fairness of `Next` is enough.

### What the code does not keep

With a run:

1. **`wu_assertion`.** `assert self.get_number_outstanding_wus() >= 1`
   (`cadotask.py:1713`). An interruption between the commit inside `get_eta()`
   and that of `verification()` makes the next run count the same result again.
   After two of them the assertion fails on a result that really is
   outstanding, and every later run fails on it too. If a workunit times out for
   good meanwhile, the count even becomes negative and the program cannot be
   started again (`RestartRaises`, `cadotask.py:1604`).
2. **`team_shares`.** "we want to make sure that everyone's done"
   (`polyselect_thread_team.c:244`): a helper that is slow to wake up is not
   counted, and its share of a task without a barrier is never done.
3. **`team_winddown`.** "we want the full wind-down sequence to terminate before
   we can start entering threads in a sync zone again" (`polyselect_thread_team.c:385`):
   nothing keeps a thread that comes back from a match out, and those that have
   left sleep for ever. `LoopEnds` therefore excepts stranded threads.
   It also excepts two leaders (9).
4. **`merge_weights`.** "only decrease the weight if <= MERGE_LEVEL_MAX, since we
   saturate" (`merge.c:687`): the comparison is not part of the atomic update,
   and a weight pushed over the bound in between comes back below it, too small.

Met on the way, not given a run:

5. A result without its file is cancelled by `send_result()` (`wudb.py:1595`) and
   never counted, and `run()` waits for it for ever. `WaitsForSomething` in
   `ClientServerTask` says so; it fails with `Outcomes <- AnyOutcome`.
6. A result that arrives between the query for timed-out rows and their cancellation
   is discarded and its range sieved again (`cadotask.py:1781`; `OnlyTimedOutCancelled`).
7. A late upload removes the file the same client thread is writing for the next
   attempt (`cado-nfs-client.py:1330`; `OnlyOwnFilesDeleted`), and that attempt is then a
   result without a file.
8. After SIGTERM, "terminating immediately" (`cado-nfs-client.py:2690`), threads without
   a command are never told to quit (`ExitsWhenInterrupted`). After a second
   SIGINT, if a command ends while it is being terminated (`CheckProcess`,
   `FlagClient`, `KillProcess`), the main thread dies of an AttributeError before it
   tells the uploader thread to quit, and that thread, no daemon, waits for ever.
9. `ready == 0 && sync2 == 0` (`polyselect.c:528`) is also true between the end of a
   task and the leader's return from its wait: a second thread may take the lead,
   though "we're effectively the only one in the team, here" (`polyselect.c:557`;
   `OnlyOneLeads` fails with three ads). If it posts a task with a barrier, that
   task expects the first leader as well, which waits on `w_sync2` instead: the
   barrier never fills, and `LoopEnds` excepts this (`TwoLeaders`).
10. `complete()` masks with a 32-bit `-SIZE_BUF_REL` (`filter_io.cpp:426`):
    from 2^32 relations on, the number recovered is too small and the pipe halts.
    `AbsoluteIndexRecovered` fails with `UIntMod = 4`.
11. An empty line, a line longer than the buffer or a last line without newline stops the main
    loop of `filter_rels2()`; the files of the runs have none.
12. `heap_release_page()` does not keep the list of full pages sorted as the comment at
    `merge_heap.c:132` says: it inserts before the last page that is not later, so
    that a collection may stop before pages it could collect. Only memory is lost.
13. `merge_cost()` is negative for a row of length 1 in a column of weight 4 or more,
    whatever `merge.c:947` says, and `compute_merges()` counts outside its array. From there on
    nothing is defined: the model stops (`CostBelowZero`, phase `undefined`), and `MergeEnds`
    admits that only with such a column.
14. A 1-merge changes `tot_weight` by -3 whatever the length of the row (`merge.c:1036`).

15. `ringbuf_strchr()` searches "the readable part of the input buffer" (`ringbuf.c:304`)
    without the lock, but its first loop goes to the end of the allocation. If all was
    consumed, and the next read is cut short by the end of the buffer and ends
    inside a line, the main loop of `filter_rels2()` has seen less than a line. If
    the reading thread meanwhile reads more, the newline found is beyond what was seen, and
    `avail_seen -= nl` (`filter_io.cpp:1203`) wraps around. The loop then takes
    itself to have seen more than there is, goes on once the buffer is empty, finds the newlines of lines that
    were consumed before, and takes these lines again: `FindsOnlyReadable`,
    `SlotIsItsOwn` and the bounds in `TypeOK` fail, for example with `Alloc` = 14 and files of one
    comment each (of 2, 3, 2, 3 and 3 bytes) before a file of two lines. It takes files of
    few bytes, or a buffer of few lines.

Definitions kept beside the others as statements of these, and of the order of the
counters of the pipe (`CountersOrdered`), but in no run: `WaitsForSomething`,
`OnlyTimedOutCancelled`, `OnlyOwnFilesDeleted`, `ExitsWhenInterrupted`, `OnlyOneLeads`,
`FindsOnlyReadable`.

## 4. Proofs

All theorems are about `Spec`, for every value of the constants that meets the
assumptions. In each module the types and the helper lemmas come first, then one
lemma for each part of the invariant with a step for each action, then the theorems.

| Module | Theorem | Statement |
|---|---|---|
| `ClientServerTaskProofs` | `TypeCorrect` | `[]TypeOK` |
| | `OneAttemptAtATime` | `[]OneLiveAttempt` |
| | `CountersExact` | `[]OutstandingExact` |
| | `Inductive` | `[]IInv`, of which these follow |
| | `ClosedForGood` | `StatusIsFinal`, an action property |
| | `AssigneeOnly` | `[]HeldByAssignee` |
| | `UploadIsResult` | `[]ResultMatchesUpload` |
| | `FilesCounted` | `[]RelationsMatchFiles` |
| `ClientServerTaskRefinement` | `LedgerKept` | `LedgerSpec`: the refinement of `RangeLedger` |
| `ParallelClientProofs` | `ClientTypesKept` | `[]TypeOK` |
| | `AssertionHolds` | `[]FinalAssertion` |
| | `NoArrivalMissed` | `[]ArrivalNoticed` |
| | `OwnershipKept` | `[]ResultInOnePlace` |
| | `AnswersHaveFiles` | `[]AnswerHasFile` |
| `ThreadPoolProofs` | `NoTaskLost` | `[]EveryTaskAccountedFor` |
| | `PoolTypes` | `[]TypeOK` |
| | `NoWakeupLost` | `[]NoSleeperBesideATask` |
| | `ExceptionsAreThere` | `[]ExceptionBeforeItsResult` |
| | `KillLosesNoTask` | `[]NothingLeftAtKill` |
| `PolyselectTeamProofs` | `TeamInvariant` | `[]IInv`, of which the others follow |
| | `TeamTypes` | `[]TypeOK` |
| | `CountersRight` | `[]CountersAgree` |
| | `TasksComplete` | `[]BarrierTasksComplete` |
| | `MatchesHandedOver` | `[]NoMatchLeft` |
| | `BarrierKept` | `BarrierPromise`: the refinement of `Rendezvous` |
| `FilterRelsProofs` | `PipeInvariant` | `[]IInv`, of which the others follow; all under `[]FewLines` |
| | `IndexOfSlot` | `[]AbsoluteIndexRecovered` |
| | `CountersKept` | `[]CountersOrdered` |
| | `SlotsKept` | `[]SlotUsedOnce`: `SlotIsItsOwn` but for the bytes of the line |
| | `LinesKept` | `[]LineByLine`, the invariant of the ring buffer; this and the next two under `[]FindsSeen` |
| | `TypesKept` | `[]TypeOK` |
| | `WholeLines` | `[]SlotIsItsOwn` |
| | `RoundsSuffice` | `[](TypeOK /\ SlotIsItsOwn)` for lines of at most `L` bytes, under `[]RoundsSee(L)` |
| | `PipeKept` | `PipeSpec`: the refinement of `RelationPipe` |
| `MergePassesProofs` | `HeapInvariant` | `[]Inv`, of which the other follows; both under `[]WeightsExact` |
| | `HeapKept` | `[]HeapSound` |
| `MergeWeightsProofs` | `WeightsInvariant` | `[](Inv /\ Weights)`; this and the next four under `[]NoRace` |
| | `WeightsKept` | `[]WeightsExact` |
| | `HeapKeptByThreads` | `[]HeapSound` |
| | `MergesEliminate` | `[]RemovesLast` |
| | `RoomKept` | `[]RoomForWeights` |
| | `WeightsOfOneThread` | `[]WeightsExact`, `[]HeapSound`, `[]RoomForWeights` for one thread |
| | `WeightsOfFewRows` | the same for at most `MERGE_LEVEL_MAX` rows and any threads |

Assumptions, named in the modules that declare the constants: `CSTAssumption`
(numbers are naturals, `rels_wanted` is positive, outcomes are among the four,
`NoClient` is no client) and `NoWUAssumption`; `PCAssumption` and `NoWUNotWU`;
`PoolAssumption` (some finite number of workers, at least one queue, costs are
naturals); `TeamAssumption` (some finite number of threads, tasks are of the kinds there
are); `InflightAssumption` (`SIZE_BUF_REL` divides 2^32, which is at most 2^64, as scaled) and
`SetupsAssumption` (finitely many threads, each but Main at a later level; without locks, one at
each level); `RingAssumption` (the buffer is not empty and smaller than 2^64) and `InputsAssumption`
(a file follows the other, and a list of files says which bytes make up its lines); `HeapAssumption`, `ReadersAssumption` (each row of a matrix is read by one of the threads) and `MergeAssumption` (finitely many threads, a page holds
something, matrices have finitely many columns with positive numbers,
`MERGE_LEVEL_MAX` is between 3 and 254: a weight is a byte, and
"255 is reserved for saturated values", `merge_replay_matrix.c:27`). Bounds such as `MaxTasks` or `MaxCrashes` may be any natural number, so that
nothing depends on their being small.

*ClientServerTask.* `TypeOK` alone is not inductive: that `qnext` stays in range
needs "when the main thread submits, `qnext <= NRanges`", and that rows are
indexed by workunit ids needs "when it holds a result, `cur` is one" (`TypeInv`).
`OneLiveAttempt` says that a row exists only if the previous attempt is
cancelled or failed; to preserve it, the row being resubmitted must not have a
later attempt already, which follows because a row that is open has none
(`NoLaterAttempt`), and the rows the main thread holds (`cur`, `todo`) are open
although server threads write to them (`MainHolds`, `OthersHold`). In `create`
the row is closed already, so there the invariant says that the next row does not
exist. `RangesSubmitted` ties first attempts to `qnext`. `OutstandingExact` then
follows by counting: a created row adds one to the set of awaited rows
(`AwaitedCreated`), a settled one removes one (`AwaitedClosed`), a moved one
changes nothing (`AwaitedMoved`), and each action moves the counters alike.
That a closed row stays closed, that its client stays the one it was assigned to,
and that uploads agree with the status rest on the same invariant.

The refinement of `RangeLedger` maps a range to what its rows, the files and the
main thread say of it, and every transaction to one action of the ledger or to none
(`StepSimulates`): settling a row and creating its successor is a `Retry`, settling
it alone a `GiveUp`, registering its file an `Accept`; everything the server threads, the
clients and the operator do to rows that stay open is a stutter (`Quiet`). `History`
says that all earlier attempts of a range are settled, not only the one before as in
`OneLiveAttempt`: therefore at most one attempt of a range is open or has a file (`OnlyAttempt`), and
where attempt `k` has a row at least `k` of them have (`AtLeast`), so that a range given up
at a limit was tried often enough; while an attempt has no row, fewer than
`LastAttempt` have (`Fewer`). Neither needs induction over attempts. Between two attempts, in
`create`, the range is pending although no row is open; that an interruption loses it there is
the first disjunct of the ledger's `Interrupt`. The second time a file is counted is
the ledger's `CountAgain`, whose bound by the number of interruptions comes from
`RelationsMatchFiles` and from `recounted <= crashes`.

*ParallelClient.* That the last rounds of the uploader find an empty queue holds
because it is told to quit only when every client thread has ended (`QuitInv`) and
the threads that have ended append nothing. A prepared result is in one place by
counting the places it occurs in; `AnswerInv` keeps a client thread that has not
answered yet from having its result in any of them. A result without its file
belongs to a range the same client was given again (`FileInv`).

*ThreadPool.* The tasks created for a queue are counted against those waiting,
those in a worker's hands, the results and those joined; what `drain_queue()` waits
for stays between `joined` and `created` (`DrainInv`). No wakeup is lost because
`nr_threads_waiting` is exactly the number of workers that wait (`WaitingInv`) and each
waiting task has a worker of its own that is not asleep. At the end of the
destructor nothing is left (`DestroyInv`): a queue that was drained stays empty since
tasks add tasks only to later queues, and workers run none of an earlier one.

*PolyselectTeam.* The counters are not what their names say, but bounds of it: a thread
that has seen `done` is counted in the sync zone or as ready although it leaves the loop, so
that `CountInv` has inequalities where a thread may be gone and equalities elsewhere.
`LockInv` says that a leader that conducts holds the lock with nobody inside a task,
which gives that all threads inside one work on the posted one, even when two threads
lead. The barrier has a place for each thread that may still come to it (`BarInv`):
those doing their share, and those called for the task that have not got up, which
are counted although `sync2` does not count them. A task with a barrier goes through three
phases (`ShareInv`): posted, nobody through the barrier, all through it. `<=` instead of `=` in
`Cardinality(Coming) <= bar.left` is what a second leader makes of it: it is
expected at the barrier and does not come. `NoMatchLeft` needs that somebody who
will look at the league's list remains while it is not empty (`MatchInv`). In the
refinement of `Rendezvous` every step maps to an arrival, a resizing or a stutter
(`MeetingStep`).

*FilterRels.* All theorems have the hypothesis `[]FewLines`: `main.nrels` stays below 2^32 less
the slots. It is needed, because `complete()` masks with 32 bits (10 above), and nothing
else bounds the number of lines. About the ring buffer nothing is assumed in the theorems on the pipe: they
hold whatever lines the main loop finds in it. That no counter is ahead of its
predecessor (`OrderInv`) is the comment at `filter_io.cpp:222`, which must be weakened
while `drain()` sets the counters of one level after another to `SIZE_MAX`: it
speaks of levels not `Drained`, and a level is drained only when no thread is inside
(`ActiveInv`, from `active[]`). A number is `Recent` if it is the last one given to its slot; at most
`SIZE_BUF_REL` numbers are, so that a slot says which it is (`RecentUnique`), and
what a thread works on is recent (`WorkingRecent`) because the last level cannot
have passed it. `StatusInv` is the meaning of the status table: for a recent number, the entry is at
least `k` exactly if level `k` has finished it, which makes `catchup()` stop at what
is still in somebody's hands (`CaughtUpBefore`). Without locks the table is not used, and the
counter alone says it since each level has one thread. A thread that has
found room in "lightweight" `schedule()` still has it when it goes on (`PlaceInv`): only it
takes from its level, and the counter before it only grows. `LineInv` says that the lines in the slots
have ascending numbers, `PassedInv` that a number is in the history of a level exactly
if the level has finished it. From these, `complete()` at level 0 is a `Put`: what is on
its way maps injectively to slots other than Main's (`FewOnTheirWay`); at a
later level it is a `Pass`, as the level before has finished the number and this one has not
(`HeldRelation`). Every other step leaves the history alone.

The invariant of the ring buffer (`LineByLine`) adds what its bytes are: from the read head on there
are those that follow the ones taken, first the readable ones, then those read and not yet
accounted for (`Content`), so that an unlocked `Fread` touches no byte that is still to be read
(`FreadKeeps`). What was taken ends with a newline, and `nrels` is the number of lines in it that are no
comments (`LinesInv`); a line that was found is therefore the one the input says (`LineNumber`,
from `InputsAssumption`), and a slot into which it is copied has it (`SlotLines`). All of this has the hypothesis
`[]FindsSeen`, that the newline `ringbuf_strchr()` finds is in what Main has seen. It cannot be
left out (15 above), for the search is not confined to what is readable. `RoundsSuffice`
replaces it by one on the rounds of the main loop alone: `RoundsSee(L)`, where `L` bounds the length of the lines
(`LinesUpTo`). That a round begins so depends on where `fread()` stops, about which the
program promises nothing; in the states of `filter` it is so with `L` = 3.

*MergeHeap and MergePasses.* Both theorems have the hypothesis `[]WeightsExact`: between passes
the weights of the columns that may be merged are right. It is what `merge` checks, and it
cannot be left out: `merge_weights` shows that it may fail at saturation (4 above), and
with a weight that is wrong `compute_R()` may find a column to merge
that has no row, about which the program promises nothing. The hypothesis is used in `Prepare` alone (each
column of `R` has a row). Where a column has a negative cost (13 above) the model
stops, so that the theorems say nothing of what the program does after it counted outside its array.

`PagesApart` is `PagesInOnePlace` without counting: no page is twice in a list or in two
hands, and none is lost; `heap_release_page()` puts a page into the middle of a list
(`ReleasedPut`, `PutOnce`), the others take or put at its front. `Pointers` is what makes
`PointersGood` inductive. While a page is collected, the rows before the place reached have moved and
those behind it have not: a pointer into such a page leads to a place not reached
(`RowsReached`). A row that is made room for and not finished (`Pending`) is the last of the active
page of its thread although the thread goes on with the weights in between (`PendingLast`), which is
what `heap_resize_last_row()` relies on; it has no pointer, and no other row may be
written behind it. All else in a page is garbage or pointed to (`RowsAccounted`).

That `add_row()` and `remove_row()` meet a row that exists, on which nobody else works, is
`Ownership`. A thread owns the rows it reserved for its merge, then those in its tree, then those in
the additions and the removal it has still to do. What is owned exists and has one owner, and is
reserved; what was removed stays reserved. A row that is reserved by nobody therefore exists,
and a thread that gets it by the atomic capture is its only owner. Two things
are exceptions. `ApplyFirst` reserves nothing: then no thread has anything to do any more
(`Winding`), and no row was removed in this pass (`num.nmerges = 0`), so that the rows in `R`
are all there. And the rows a thread failed to get all of stay reserved, which is why
"reserved" does not mean "owned". A step of a thread keeps the rest if it takes no row that
is not its own (`ThreadStep`); the heap is changed by `WriteSafe`, `RoomSafe` and `MarkSafe` in three ways.

*MergeWeightsProofs* replaces the hypothesis of these two by one about single
steps. `NoRace` says that what a thread has found when it compared a weight is still so when it
updates the weight. Under it the weights can be proved right, and `HeapKeptByThreads` is `HeapKept`
with its hypothesis discharged. `WeightsExact` speaks of the moments between passes only; in
between, the weight of a column is the number of rows that have it, plus one for each thread that has
counted it in a row that does not have it yet (`Early`), less one for each that counts it no more in a row
that still has it (`Late`): `Balanced`, which each update, and each end of an addition or a
removal, keeps because the columns still to be counted (`todo`) are those of the row, each once (`Weighing`).
Saturated weights are exempt, and stay so since nothing decreases them.

`NoRace` is not something one may assume of the program: `merge_weights` violates it. Two theorems say
where it holds without being assumed. With one thread nobody changes a weight between comparison
and update (`WeightsOfOneThread`). With at most `MERGE_LEVEL_MAX` rows no weight ever passes the bound,
however threads interleave (`WeightsOfFewRows`: `AllLight`, from `Balanced` and from the fact
that a thread counts a column early in one row at a time, which no other thread works on). The second
cannot be improved: the matrix of `merge_weights` has one row more.

`RoomForWeights` is the comment "each merge decreases the number of rows and columns by one" (`merge.c:1252`),
on which `recompress()` relies: when it is called (phase `recompress`), `rem_ncols` is still the number kept
by subtraction, and in that state the number of columns is compared with it (`TallyAtEnd`; that the number counted
afterwards is right as well is `TallyAtRecompress`). A column may come back nowhere: once no row has it, none
gets it, as a sum has only columns of its terms. That a merge does remove its column is
the point of the program, and the proof follows it. The tree is a spanning tree (`Spanning`: nodes found
and not found share nothing, an edge leads from a node found before to the next one), so that its additions
in reverse order change each row once, by a row that is changed later or removed at the end (`Ordered`);
both rows of each addition still have the column, the sum does not, so that the rows with the column are always those not
changed yet (`Eliminates`), at the end the root alone (`RemovesLast`). At the beginning they are those
`compute_R()` found, which is so because a row of them that was changed was reserved and stays
so (`Free`, `Intact`); again `ApplyFirst` is the exception. `Tally` counts: merges are
counted before their last row is removed, and those in between are the threads in `Removing`.
For columns it is an inequality, since two columns may vanish at once, and it counts columns too heavy to
have their weight kept as left (`Remaining`). The whole invariant is
`Merged == Inv /\ Weights /\ Merging /\ Tally`: a merge removes its column only if `R` was right
(`Weights`) and its rows are its own (`Inv`).

Only model-checked: liveness (`RunEnds`, `QuitsAfterSigint`, `RetriesGoRound`,
`CallsReturn`, `TasksAnswered`, `LoopEnds`, `AllFiltered`, `MergeEnds`), since the
prover handles neither fairness nor ENABLED; `HistoryReplays` and
`BooksKept`, which are about folds and sums over data (what a replayed history computes for every
matrix, how much of all pages is wasted), where the prover has no induction. That the ring buffer has
the rounds `RoundsSee(L)` asks for is a hypothesis: it depends on where `fread()` stops (15 above).

## 5. Plan

1. `TaskQueue` (`CompleteFactorization`: the run queue with WANT_TO_RUN,
   WANT_MORE_RELATIONS and HAVE_ENOUGH_RELATIONS), composed with the ledger;
   `PolynomialHeap` (`Polysel1Task`: heap and table across interruptions);
   `ClientPids` (`StartClientsTask`); the downloader of the client; the two queries
   of `resubmit_timed_out_wus()` as two steps.
2. `ringbuf_put`, `ringbuf_get` and growth; `WorkerThreads`
   (`linalg/bwc/worker-threads.c`); the factor base built by the thread pool
   (`sieve/fb.cpp`); `replay` and `purge`.

Not modelled, and not planned: numerical programs, parsing and formatting of
parameters and command lines, certificates, status pages, bundled libraries. They
hold no protocol state, or their state is numbers whose meaning is out of a model
checker's reach; they are also most of the lines of this repository, so that the
part modelled is small in proportion to the whole.
