------------------------------ MODULE ThreadPool ------------------------------
(***************************************************************************)
(* The thread pool of the lattice siever (utils/threadpool.cpp).  One      *)
(* owner adds tasks to several queues, joins their results and finally     *)
(* destroys the pool; the workers take tasks from the queues.  Every       *)
(* access to the pool's state is made under the one mutex of its monitor,  *)
(* so each locked section is a step, and a wait on a condition variable    *)
(* ends one step and begins another.                                       *)
(*                                                                         *)
(* As the siever does, a task may add tasks to a queue of a higher number  *)
(* (las-process-bucket-region.cpp:749), every task answers with a result   *)
(* or an exception, and the owner blocks in get_result() only while a      *)
(* task of that queue has not been joined (fb.cpp:1467).                   *)
(***************************************************************************)
EXTENDS Integers, Sequences, FiniteSets, SequencesExt, FiniteSetsExt

CONSTANTS
  Workers,     \* the worker threads
  NQueues,     \* queues are numbered from 0
  Costs,       \* the costs a task may be given
  MaxTasks,    \* bound: how many tasks are added
  MaxThrows,   \* bound: how many tasks throw
  MaxSpurious, \* bound: spurious wakeups of the owner and of the workers
  NoTask       \* what a worker without a task holds

ASSUME PoolAssumption ==
  /\ Workers # {} /\ IsFiniteSet(Workers)
  /\ NQueues \in Nat \ {0} /\ MaxTasks \in Nat /\ MaxThrows \in Nat
  /\ MaxSpurious \in Nat
  /\ Costs \subseteq Nat

VARIABLES
  tasks,        \* per queue, the tasks that wait in it
  results,      \* per queue, the results that wait to be joined
  exceptions,   \* per queue, the exceptions that wait to be fetched
  created,      \* per queue, how many tasks were ever added
  added,        \* to all queues; what the next task gets its id from
  joined,       \* per queue, how many results were ever joined
  kill_threads,
  nr_threads_waiting, \* per queue
  wpc,          \* per worker, where it is in thread_work_on_tasks()
  wtask,        \* per worker, the task it holds
  todo,         \* what is left of the owner's call: steps <<op, queue>>
  snapshot,     \* drain_queue(): its local variable cr, -1 before it is set
  owner,        \* "awake", "asleep" (in a wait of its call), "gone", "aborted"
  taken,        \* history: the results the owner has joined
  fetched,      \* history: the exceptions the owner has fetched
  spurious      \* spurious wakeups so far

wvars == <<nr_threads_waiting, wpc, wtask, spurious>>
ovars == <<todo, snapshot, owner>>
history == <<taken, fetched>>
vars == <<tasks, results, exceptions, created, added, joined, kill_threads,
          wvars, ovars, history>>

Queues == 0 .. NQueues - 1

\* The constructor creates every worker with preferred queue 0.
PreferredQueue == 0

Tasks == [id : 1 .. MaxTasks, cost : Costs, queue : Queues]

Thrown == fetched \union UNION {ToSet(exceptions[q]) : q \in Queues}

\* The order of the priority queue: highest cost first, then highest id.
Top(t, S) ==
  /\ t \in S
  /\ \A u \in S : u.cost < t.cost \/ (u.cost = t.cost /\ u.id <= t.id)

all_task_queues_empty == \A q \in Queues : tasks[q] = {}

\* The first queue of S, which is tried from q and then upwards from 0.
First(i, q, S) == i \in S /\ IF q \in S THEN i = q ELSE \A j \in S : i <= j

Init ==
  /\ tasks = [q \in Queues |-> {}]
  /\ results = [q \in Queues |-> <<>>]
  /\ exceptions = [q \in Queues |-> <<>>]
  /\ created = [q \in Queues |-> 0] /\ joined = [q \in Queues |-> 0]
  /\ added = 0
  /\ kill_threads = FALSE
  /\ nr_threads_waiting = [q \in Queues |-> 0]
  /\ wpc = [w \in Workers |-> "get"]
  /\ wtask = [w \in Workers |-> NoTask]
  /\ todo = <<>> /\ snapshot = -1 /\ owner = "awake"
  /\ taken = {} /\ fetched = {} /\ spurious = 0

-------------------------------------------------------------------------------
(* Adding tasks.                                                           *)

\* notify_one(): some sleeper of queue q wakes up, if there is one.  All
\* workers sleep on the condition variable of their preferred queue.
Signal(q, pcs) ==
  LET sleepers == {w \in Workers : wpc[w] = "asleep" /\ q = PreferredQueue}
  IN IF sleepers = {} THEN wpc' = pcs
     ELSE \E w \in sleepers : wpc' = [pcs EXCEPT ![w] = "woken"]

Notify_own_queue(q) ==
  IF nr_threads_waiting[q] > 0 THEN Signal(q, wpc) ELSE UNCHANGED wpc

Notify_nobody(q) == UNCHANGED wpc

\* A queue on whose condition variable somebody is counted as waiting.
Notify(q) ==
  LET counted == {i \in Queues : nr_threads_waiting[i] > 0}
  IN IF counted = {} THEN UNCHANGED wpc
     ELSE \E i \in Queues : First(i, q, counted) /\ Signal(i, wpc)

add_task(q, cost) ==
  /\ added < MaxTasks
  /\ tasks' = [tasks EXCEPT ![q] = @ \union {[id |-> added + 1, cost |-> cost, queue |-> q]}]
  /\ created' = [created EXCEPT ![q] = @ + 1]
  /\ added' = added + 1
  /\ Notify(q)
  /\ UNCHANGED <<results, exceptions, joined, kill_threads,
                 nr_threads_waiting, wtask, spurious, ovars, history>>

-------------------------------------------------------------------------------
(* Workers.                                                                *)

Recounted_late(w) == nr_threads_waiting

\* A worker that comes back from a wait is no longer counted.
Recounted(w) ==
  [nr_threads_waiting EXCEPT ![PreferredQueue] = IF wpc[w] = "woken" THEN @ - 1 ELSE @]

\* One iteration of get_task()'s loop, from its entry or from a wait: the
\* worker ends, waits (again), or takes the best task of a queue.
get_task(w) ==
  /\ wpc[w] \in {"get", "woken"}
  /\ \/ /\ all_task_queues_empty /\ kill_threads
        /\ wpc' = [wpc EXCEPT ![w] = "ended"]
        /\ nr_threads_waiting' = Recounted(w)
        /\ UNCHANGED <<tasks, wtask>>
     \/ /\ all_task_queues_empty /\ ~kill_threads
        /\ wpc' = [wpc EXCEPT ![w] = "asleep"]
        /\ nr_threads_waiting' = [Recounted(w) EXCEPT ![PreferredQueue] = @ + 1]
        /\ UNCHANGED <<tasks, wtask>>
     \/ /\ ~all_task_queues_empty
        /\ \E i \in Queues : \E t \in tasks[i] :
             /\ First(i, PreferredQueue, {q \in Queues : tasks[q] # {}})
             /\ Top(t, tasks[i])
             /\ wtask' = [wtask EXCEPT ![w] = t]
             /\ tasks' = [tasks EXCEPT ![i] = @ \ {t}]
        /\ wpc' = [wpc EXCEPT ![w] = "run"]
        /\ nr_threads_waiting' = Recounted(w)
  /\ UNCHANGED <<results, exceptions, created, added, joined, kill_threads,
                 spurious, ovars, history>>

\* A running task adds a task to a later queue.
Subtask(w) ==
  /\ wpc[w] = "run"
  /\ \E q \in Queues, c \in Costs : q > wtask[w].queue /\ add_task(q, c)

\* The owner sleeps in its call on the results of queue q and is woken.
WakeOwner(q) ==
  owner' = IF owner = "asleep" /\ Head(todo)[2] = q THEN "awake" ELSE owner

\* The worker pushes its result, NULL when the task has thrown, and looks for
\* the next task.
add_result(w, null) ==
  /\ LET q == wtask[w].queue
     IN /\ results' = [results EXCEPT ![q] = Append(@, [id |-> wtask[w].id, null |-> null])]
        /\ WakeOwner(q)
  /\ wpc' = [wpc EXCEPT ![w] = "get"]
  /\ wtask' = [wtask EXCEPT ![w] = NoTask]
  /\ UNCHANGED <<tasks, exceptions, created, added, joined, kill_threads,
                 nr_threads_waiting, spurious, todo, snapshot, history>>

TaskReturns(w) == wpc[w] = "run" /\ add_result(w, FALSE)

\* The results queue is woken first, the exception is pushed afterwards.
add_exception_after_result(w) ==
  /\ wpc[w] = "run" /\ Cardinality(Thrown) < MaxThrows
  /\ LET q == wtask[w].queue
     IN /\ results' = [results EXCEPT ![q] = Append(@, [id |-> wtask[w].id, null |-> TRUE])]
        /\ WakeOwner(q)
  /\ wpc' = [wpc EXCEPT ![w] = "thrown"]
  /\ UNCHANGED <<tasks, exceptions, created, added, joined, kill_threads,
                 nr_threads_waiting, wtask, spurious, todo, snapshot,
                 history>>

\* The task throws: add_exception() first, add_result() of NULL next.
add_exception(w) ==
  /\ wpc[w] = "run" /\ Cardinality(Thrown) < MaxThrows
  /\ LET q == wtask[w].queue
     IN /\ exceptions' = [exceptions EXCEPT ![q] = Append(@, wtask[w].id)]
        /\ WakeOwner(q)
  /\ wpc' = [wpc EXCEPT ![w] = "thrown"]
  /\ UNCHANGED <<tasks, results, created, added, joined, kill_threads,
                 nr_threads_waiting, wtask, spurious, todo, snapshot,
                 history>>

AddNullResult_forgotten(w) ==
  /\ wpc[w] = "thrown"
  /\ wpc' = [wpc EXCEPT ![w] = "get"]
  /\ wtask' = [wtask EXCEPT ![w] = NoTask]
  /\ UNCHANGED <<tasks, results, exceptions, created, added, joined,
                 kill_threads, nr_threads_waiting, spurious, ovars, history>>

AddNullResult(w) == wpc[w] = "thrown" /\ add_result(w, TRUE)

SpuriousWakeup ==
  /\ spurious < MaxSpurious
  /\ spurious' = spurious + 1
  /\ \/ \E w \in Workers : /\ wpc[w] = "asleep"
                           /\ wpc' = [wpc EXCEPT ![w] = "woken"]
                           /\ UNCHANGED owner
     \/ owner = "asleep" /\ owner' = "awake" /\ UNCHANGED wpc
  /\ UNCHANGED <<tasks, results, exceptions, created, added, joined,
                 kill_threads, nr_threads_waiting, wtask, todo, snapshot,
                 history>>

-------------------------------------------------------------------------------
(* The owner.                                                              *)

Idle == owner = "awake" /\ todo = <<>>

drain_all_queues == [i \in 1 .. NQueues |-> <<"drain", i - 1>>]

Destructor_kills_first ==
  << <<"kill", 0>> >> \o drain_all_queues \o << <<"join", 0>> >>

Destructor ==
  drain_all_queues \o << <<"kill", 0>> >> \o drain_all_queues \o << <<"join", 0>> >>

Call(steps) ==
  /\ Idle /\ todo' = steps
  /\ UNCHANGED <<tasks, results, exceptions, created, added, joined,
                 kill_threads, wvars, snapshot, owner, history>>

OwnerAddsTask == Idle /\ \E q \in Queues, c \in Costs : add_task(q, c)
CallDrainQueue == \E q \in Queues : Call(<< <<"drain", q>> >>)
CallGetResult ==
  \E q \in Queues : created[q] > joined[q] /\ Call(<< <<"get", q>> >>)
CallDestructor == Call(Destructor)

\* k results of queue q are joined.
Join(q, k) ==
  /\ taken' = taken \union ToSet(SubSeq(results[q], 1, k))
  /\ results' = [results EXCEPT ![q] = SubSeq(@, k + 1, Len(@))]
  /\ joined' = [joined EXCEPT ![q] = @ + k]
  /\ UNCHANGED fetched

\* get_result() without blocking, when there is a result.
PollResult ==
  /\ Idle
  /\ \E q \in Queues : results[q] # <<>> /\ Join(q, 1)
  /\ UNCHANGED <<tasks, exceptions, created, added, kill_threads, wvars,
                 ovars>>

get_exception ==
  /\ Idle
  /\ \E q \in Queues : /\ exceptions[q] # <<>>
                       /\ fetched' = fetched \union {Head(exceptions[q])}
                       /\ exceptions' = [exceptions EXCEPT ![q] = Tail(@)]
  /\ UNCHANGED <<tasks, results, created, added, joined, kill_threads, wvars,
                 ovars, taken>>

Step(op) == owner = "awake" /\ todo # <<>> /\ Head(todo)[1] = op

get_result ==
  /\ Step("get")
  /\ LET q == Head(todo)[2]
     IN \/ /\ results[q] = <<>> /\ owner' = "asleep"
           /\ UNCHANGED <<todo, results, joined, history>>
        \/ /\ results[q] # <<>> /\ Join(q, 1)
           /\ todo' = Tail(todo) /\ UNCHANGED owner
  /\ UNCHANGED <<tasks, exceptions, created, added, kill_threads, wvars,
                 snapshot>>

\* drain_queue() joins results until it has joined as many as were created
\* when it began; it waits only when none is there.
drain_queue ==
  /\ Step("drain")
  /\ LET q == Head(todo)[2]
         cr == IF snapshot = -1 THEN created[q] ELSE snapshot
         k == Min({Len(results[q]), cr - joined[q]})
     IN /\ Join(q, k)
        /\ \/ /\ joined[q] + k >= cr
              /\ todo' = Tail(todo) /\ snapshot' = -1 /\ UNCHANGED owner
           \/ /\ joined[q] + k < cr
              /\ owner' = "asleep" /\ snapshot' = cr /\ UNCHANGED todo
  /\ UNCHANGED <<tasks, exceptions, created, added, kill_threads, wvars>>

Kill_silently ==
  /\ Step("kill")
  /\ kill_threads' = TRUE
  /\ todo' = Tail(todo)
  /\ UNCHANGED <<tasks, results, exceptions, created, added, joined, wvars,
                 snapshot, owner, history>>

Kill ==
  /\ Step("kill")
  /\ kill_threads' = TRUE
  /\ wpc' = [w \in Workers |-> IF wpc[w] = "asleep" THEN "woken" ELSE wpc[w]]
  /\ todo' = Tail(todo)
  /\ UNCHANGED <<tasks, results, exceptions, created, added, joined,
                 nr_threads_waiting, wtask, spurious, snapshot, owner,
                 history>>

\* pthread_join() of all workers, and the assertions of the destructor.
JoinWorkers ==
  /\ Step("join")
  /\ \A w \in Workers : wpc[w] = "ended"
  /\ todo' = <<>>
  /\ owner' = IF /\ all_task_queues_empty
                 /\ \A q \in Queues : results[q] = <<>> /\ exceptions[q] = <<>>
              THEN "gone" ELSE "aborted"
  /\ UNCHANGED <<tasks, results, exceptions, created, added, joined,
                 kill_threads, wvars, snapshot, history>>

Over == owner \in {"gone", "aborted"} /\ UNCHANGED vars

WorkerStep(w) ==
  get_task(w) \/ TaskReturns(w) \/ add_exception(w) \/ AddNullResult(w)
OwnerStep == get_result \/ drain_queue \/ Kill \/ JoinWorkers
OwnerCalls ==
  \/ OwnerAddsTask \/ CallDrainQueue \/ CallGetResult \/ CallDestructor
  \/ PollResult \/ get_exception

Next ==
  \/ \E w \in Workers : WorkerStep(w) \/ Subtask(w)
  \/ OwnerStep \/ OwnerCalls \/ SpuriousWakeup \/ Over

Spec == Init /\ [][Next]_vars

\* Every thread that can run does run, and every task ends; whether the owner
\* calls the pool again is its choice.
FairSpec == Spec /\ WF_vars(OwnerStep) /\ \A w \in Workers : WF_vars(WorkerStep(w))

-------------------------------------------------------------------------------
Holding(q) ==
  {w \in Workers : wpc[w] \in {"run", "thrown"} /\ wtask[w].queue = q}

\* Every variable of the pool has its type; nr_threads_waiting counts the
\* workers inside a wait, woken or not (get_task).
TypeOK ==
  /\ tasks \in [Queues -> SUBSET Tasks]
  /\ added \in 0 .. MaxTasks
  /\ \A q \in Queues : /\ ToSet(results[q]) \subseteq [id : 1 .. MaxTasks, null : BOOLEAN]
                       /\ ToSet(exceptions[q]) \subseteq 1 .. MaxTasks
  /\ created \in [Queues -> 0 .. MaxTasks] /\ joined \in [Queues -> 0 .. MaxTasks]
  /\ kill_threads \in BOOLEAN
  /\ wpc \in [Workers -> {"get", "asleep", "woken", "run", "thrown", "ended"}]
  /\ wtask \in [Workers -> Tasks \union {NoTask}]
  /\ nr_threads_waiting = [q \in Queues |->
       IF q = PreferredQueue THEN Cardinality({w \in Workers : wpc[w] \in {"asleep", "woken"}})
       ELSE 0]
  /\ ToSet(todo) \subseteq {"drain", "get", "kill", "join"} \X Queues
  /\ snapshot \in -1 .. MaxTasks
  /\ owner \in {"awake", "asleep", "gone", "aborted"}

\* What drain_queue() counts on: a task that was created is in its queue, with
\* a worker, among the results or joined, in one of these places only.
EveryTaskAccountedFor ==
  \A q \in Queues :
    created[q] = Cardinality(tasks[q]) + Cardinality(Holding(q)) + Len(results[q]) + joined[q]

\* A worker sleeps only if each waiting task has a worker of its own that is
\* on its way to take it, whatever queue the tasks were added to (add_task
\* signals another queue's condition variable if nobody waits on its own).
NoSleeperBesideATask ==
  (\E w \in Workers : wpc[w] = "asleep") =>
    Cardinality(UNION {tasks[q] : q \in Queues})
      <= Cardinality({w \in Workers : wpc[w] \in {"get", "woken"}})

\* Whoever has drained a queue finds the exceptions of the tasks it joined:
\* las.cpp:787-793 drains and then asks for buckets_are_full.
ExceptionBeforeItsResult ==
  \A r \in taken \union UNION {ToSet(results[q]) : q \in Queues} :
    r.null => r.id \in Thrown

\* When the destructor sets kill_threads no task is left that could be lost or
\* could add another one (add_task asserts !kill_threads), although tasks keep
\* adding tasks to later queues while the queues are drained one by one.
NothingLeftAtKill ==
  kill_threads => /\ all_task_queues_empty
                  /\ \A q \in Queues : Holding(q) = {}

\* Each call of the owner returns: no signal of a result is lost, and the
\* destructor joins all workers, also those that sleep when it begins.
CallsReturn == (todo # <<>>) ~> (todo = <<>>)

\* Every task that was added is run and answered.
TasksAnswered ==
  \A i \in 1 .. MaxTasks :
    (added >= i) ~> (\E r \in taken \union UNION {ToSet(results[q]) : q \in Queues} : r.id = i)
===============================================================================
