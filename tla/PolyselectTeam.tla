---------------------------- MODULE PolyselectTeam ----------------------------
(***************************************************************************)
(* A team of threads of the polynomial selection program: the loop of a    *)
(* thread (polyselect/polyselect.c, thread_loop), the counters and         *)
(* transitions of polyselect_thread_team.c, and the barrier of             *)
(* utils/barrier.c that the team uses under its own lock.                  *)
(*                                                                         *)
(* Each thread looks for a match to process on its own ("async"); finding  *)
(* none it joins the team's sync zone.  The thread that comes last leads:  *)
(* it takes the next leading coefficient ad and posts one task after the   *)
(* other, of which each thread of the zone does a share, unlocked          *)
(* ("roaming").  Some tasks have a barrier in the middle.  The lock is     *)
(* explicit: a step of a thread needs it unless the thread roams.          *)
(***************************************************************************)
EXTENDS Integers, Sequences, FiniteSets

CONSTANTS
  Threads,   \* the threads of the team
  MaxAd,     \* idx_max: how many leading coefficients there are
  Conducts,  \* the sequences of tasks that one ad may need
  MaxJobs,   \* bound: how many matches are found
  Nobody     \* the holder of a free lock

\* The tasks with a barrier are those that scan the hash tables for
\* collisions; CCS is the one that yields matches.
Kinds == {"none", "proots", "DCS", "CCS"}
HasBarrier(f) == f \in {"DCS", "CCS"}

ASSUME TeamAssumption ==
  /\ IsFiniteSet(Threads) /\ Threads # {} /\ Nobody \notin Threads
  /\ MaxAd \in Nat /\ MaxJobs \in Nat
  /\ Conducts \subseteq Seq(Kinds)

VARIABLES
  lock,      \* the team's lock
  pc,        \* where each thread is
  wait,      \* the condition each thread sleeps on, "lock" or "none"
  count,     \* the team's counters
  my,        \* each thread's own: index_in_sync_zone, event in barrier_wait, the
             \* task f it works on, whether it leads and what it has left to post
  done,      \* team->done
  idx,       \* main->idx: the next ad
  task,      \* the posted task: expected and f
  bar,       \* the barrier: left, count, event
  jobs,      \* matches in the league's list, by thread the ones it found
  shares     \* history: who did the first and the second part of the task

vars == <<lock, pc, wait, count, my, done, idx, task, bar, jobs, shares>>

Size == Cardinality(Threads)

Init ==
  /\ lock = Nobody
  /\ pc = [t \in Threads |-> "start"] /\ wait = [t \in Threads |-> "lock"]
  /\ count = [ready |-> 0, sync |-> 0, async |-> 0, sync2 |-> 0, roaming |-> 0]
  /\ my = [t \in Threads |->
             [index |-> 0, event |-> 0, f |-> "none", leads |-> FALSE, to_post |-> <<>>]]
  /\ done = FALSE /\ idx = 0
  /\ task = [expected |-> 0, f |-> "none"]
  /\ bar = [left |-> 0, count |-> 0, event |-> 0]
  /\ jobs = [league |-> 0, own |-> [t \in Threads |-> 0], found |-> 0]
  /\ shares = [first |-> {}, second |-> {}, of |-> {}]

-------------------------------------------------------------------------------
(* The lock and the condition variables.                                   *)

Acquire(t) ==
  /\ wait[t] = "lock" /\ lock = Nobody
  /\ lock' = t /\ wait' = [wait EXCEPT ![t] = "none"]
  /\ UNCHANGED <<pc, count, my, done, idx, task, bar, jobs, shares>>

At(t, label) == pc[t] = label /\ lock = t /\ wait[t] = "none"
Unlocked(t, label) == pc[t] = label /\ lock # t /\ wait[t] = "none"

Woken(c) == [s \in Threads |-> IF wait[s] = c THEN "lock" ELSE wait[s]]

\* The three ways a locked step ends.
Goto(t, label) == pc' = [pc EXCEPT ![t] = label] /\ lock' = t
GoOn(t, label) == Goto(t, label) /\ UNCHANGED wait
Broadcast(t, c, label) == Goto(t, label) /\ wait' = Woken(c)
Sleep(t, c, label) ==
  pc' = [pc EXCEPT ![t] = label] /\ lock' = Nobody /\ wait' = [wait EXCEPT ![t] = c]
Unlock(t, label) ==
  pc' = [pc EXCEPT ![t] = label] /\ lock' = Nobody /\ UNCHANGED wait

\* An unlocked section ends: the thread asks for the lock again.
Relock(t, label) ==
  pc' = [pc EXCEPT ![t] = label] /\ wait' = [wait EXCEPT ![t] = "lock"] /\ UNCHANGED lock

-------------------------------------------------------------------------------
(* Joining, asynchronous work, the sync zone.                              *)

i_am_ready(t) ==
  /\ At(t, "start")
  /\ count' = [count EXCEPT !.ready = @ + 1]
  /\ IF count.ready + 1 = Size THEN Broadcast(t, "w_ready_full", "loop")
                               ELSE Sleep(t, "w_ready_full", "loop")
  /\ UNCHANGED <<my, done, idx, task, bar, jobs, shares>>

enter_async(t) ==
  /\ At(t, "loop") /\ jobs.league > 0
  /\ jobs' = [jobs EXCEPT !.league = @ - 1]
  /\ count' = [count EXCEPT !.async = @ + 1, !.ready = @ - 1]
  /\ Unlock(t, "async")
  /\ UNCHANGED <<my, done, idx, task, bar, shares>>

ProcessMatch(t) ==
  /\ Unlocked(t, "async") /\ Relock(t, "leave_async")
  /\ UNCHANGED <<count, my, done, idx, task, bar, jobs, shares>>

leave_async_still_counted(t) ==
  /\ At(t, "leave_async")
  /\ count' = [count EXCEPT !.ready = @ + 1]
  /\ GoOn(t, "loop")
  /\ UNCHANGED <<my, done, idx, task, bar, jobs, shares>>

leave_async(t) ==
  /\ At(t, "leave_async")
  /\ count' = [count EXCEPT !.ready = @ + 1, !.async = @ - 1]
  /\ GoOn(t, "loop")
  /\ UNCHANGED <<my, done, idx, task, bar, jobs, shares>>

\* Whether a thread that has just entered the zone is the one to lead.
MayLead(ready) == ready = 0 /\ count.sync2 = 0

NoAdLeft_counts_one_more == idx > MaxAd
NoAdLeft == idx = MaxAd

Enters(t, leads, to_post) ==
  my' = [my EXCEPT ![t].index = count.sync, ![t].leads = leads, ![t].to_post = to_post]

\* enter_sync_zone(), and what the thread decides next without releasing the
\* lock: to leave the program, to lead, or to wait for a task.
enter_sync_zone(t) ==
  /\ At(t, "loop") /\ jobs.league = 0
  /\ count' = [count EXCEPT !.ready = @ - 1, !.sync = @ + 1]
  /\ \/ done /\ GoOn(t, "exit") /\ Enters(t, FALSE, <<>>) /\ UNCHANGED <<done, idx, shares>>
     \/ /\ ~done /\ MayLead(count.ready - 1)
        /\ \/ /\ NoAdLeft /\ done' = TRUE
              /\ GoOn(t, "last_stop") /\ Enters(t, TRUE, <<>>) /\ UNCHANGED <<idx, shares>>
           \/ /\ ~NoAdLeft /\ idx' = idx + 1
              /\ \E c \in Conducts : Enters(t, TRUE, c)
              /\ shares' = [first |-> {}, second |-> {}, of |-> {}]
              /\ GoOn(t, "conduct") /\ UNCHANGED done
     \/ /\ ~done /\ ~MayLead(count.ready - 1)
        /\ Sleep(t, "w_job", "job") /\ Enters(t, FALSE, <<>>)
        /\ UNCHANGED <<done, idx, shares>>
  /\ UNCHANGED <<task, bar, jobs>>

\* The matches a thread has found go to the league, and it leaves the zone.
HandOver_by_the_last(t) ==
  IF count.sync > 1 THEN jobs
  ELSE [jobs EXCEPT !.league = @ + jobs.own[t], !.own[t] = 0]
HandOver(t) == [jobs EXCEPT !.league = @ + jobs.own[t], !.own[t] = 0]

leave_sync_zone(t) ==
  /\ \E last \in BOOLEAN :
       /\ At(t, IF last THEN "leave_last" ELSE "leave")
       /\ jobs' = IF last THEN jobs ELSE HandOver(t)
       /\ LET next == IF last THEN "exit" ELSE "loop"
          IN IF count.sync = 1 THEN Broadcast(t, "w_sync_empty", next)
                               ELSE Sleep(t, "w_sync_empty", next)
  /\ count' = [count EXCEPT !.ready = @ + 1, !.sync = @ - 1]
  /\ UNCHANGED <<my, done, idx, task, bar, shares>>

Exit(t) ==
  /\ At(t, "exit") /\ Unlock(t, "ended")
  /\ UNCHANGED <<count, my, done, idx, task, bar, jobs, shares>>

-------------------------------------------------------------------------------
(* Posting tasks and working on them.                                      *)

\* post_work(): the task is for all threads of the zone.
post_work(t) ==
  /\ At(t, "conduct") /\ my[t].to_post # <<>>
  /\ task' = [expected |-> count.sync, f |-> Head(my[t].to_post)]
  /\ my' = [my EXCEPT ![t].f = Head(my[t].to_post), ![t].to_post = Tail(@)]
  /\ shares' = [first |-> {}, second |-> {},
                of |-> {t} \union {s \in Threads : pc[s] = "job"}]
  /\ GoOn(t, "resize")
  /\ UNCHANGED <<count, done, idx, bar, jobs>>

Roaming == [count EXCEPT !.sync2 = @ + 1, !.roaming = @ + 1]

Resized_without_leader ==
  [bar EXCEPT !.left = task.expected - 1, !.count = task.expected - 1]
Resized_not_count == [bar EXCEPT !.left = task.expected]
Resized == [bar EXCEPT !.left = task.expected, !.count = task.expected]

\* Its end: once the barrier is free it is made as large as the zone, all are
\* called, and the leader does its own share.
barrier_resize_unlocked(t) ==
  /\ At(t, "resize")
  /\ \/ /\ bar.event % 2 = 1 /\ Sleep(t, "cv", "resize")
        /\ UNCHANGED <<bar, count>>
     \/ /\ bar.event % 2 = 0
        /\ bar' = Resized
        /\ count' = Roaming
        /\ pc' = [pc EXCEPT ![t] = "roam"] /\ lock' = Nobody /\ wait' = Woken("w_job")
  /\ UNCHANGED <<my, done, idx, task, jobs, shares>>

\* A helper comes back from its wait for a job.
GetJob(t) ==
  /\ At(t, "job")
  /\ \/ /\ task.expected = 0 /\ GoOn(t, "leave") /\ UNCHANGED <<count, my>>
     \/ /\ task.expected # 0 /\ task.expected <= my[t].index
        /\ Sleep(t, "w_job", "job") /\ UNCHANGED <<count, my>>
     \/ /\ task.expected > my[t].index
        /\ count' = Roaming /\ my' = [my EXCEPT ![t].f = task.f] /\ Unlock(t, "roam")
  /\ UNCHANGED <<done, idx, task, bar, jobs, shares>>

\* The share of a thread, up to the barrier if the task has one.
DoShare(t) ==
  /\ Unlocked(t, "roam")
  /\ shares' = [shares EXCEPT !.first = @ \union {t},
                              !.second = IF HasBarrier(my[t].f) THEN @ ELSE @ \union {t}]
  /\ Relock(t, IF HasBarrier(my[t].f) THEN "barrier" ELSE "leave_roaming")
  /\ UNCHANGED <<count, my, done, idx, task, bar, jobs>>

\* The last to leave the barrier makes event even again.
OneLess(b) == [b EXCEPT !.left = @ - 1]
OneOut(b) ==
  [b EXCEPT !.left = @ + 1, !.event = IF b.left + 1 = b.count THEN @ + 1 ELSE @]

LastToArrive_but_one == bar.left <= 2
LastToArrive == bar.left = 1

\* barrier_wait() up to its wait: late leavers of the previous barrier are
\* waited for first; the last to arrive wakes the others and goes on.
barrier_wait(t) ==
  /\ At(t, "barrier")
  /\ \/ /\ bar.event % 2 = 1 /\ Sleep(t, "cv", "barrier")
        /\ UNCHANGED <<bar, my>>
     \/ /\ bar.event % 2 = 0 /\ ~LastToArrive
        /\ bar' = OneLess(bar) /\ my' = [my EXCEPT ![t].event = bar.event]
        /\ Sleep(t, "cv", "in_barrier")
     \/ /\ bar.event % 2 = 0 /\ LastToArrive
        /\ bar' = OneOut([OneLess(bar) EXCEPT !.event = @ + 1])
        /\ pc' = [pc EXCEPT ![t] = "roam2"] /\ lock' = Nobody /\ wait' = Woken("cv")
        /\ UNCHANGED my
  /\ UNCHANGED <<count, done, idx, task, jobs, shares>>

LeaveBarrier(t) ==
  /\ At(t, "in_barrier")
  /\ \/ my[t].event = bar.event /\ Sleep(t, "cv", "in_barrier") /\ UNCHANGED bar
     \/ /\ my[t].event # bar.event
        /\ bar' = OneOut(bar)
        /\ pc' = [pc EXCEPT ![t] = "roam2"] /\ lock' = Nobody
        /\ wait' = IF bar'.left = bar.count THEN Woken("cv") ELSE wait
  /\ UNCHANGED <<count, my, done, idx, task, jobs, shares>>

\* The share after the barrier, which may find matches.
DoSecondShare(t) ==
  /\ Unlocked(t, "roam2")
  /\ shares' = [shares EXCEPT !.second = @ \union {t}]
  /\ \/ UNCHANGED jobs
     \/ /\ my[t].f = "CCS" /\ jobs.found < MaxJobs
        /\ jobs' = [jobs EXCEPT !.own[t] = @ + 1, !.found = @ + 1]
  /\ Relock(t, "leave_roaming")
  /\ UNCHANGED <<count, my, done, idx, task, bar>>

\* leave_roaming() and the return of f: a helper waits for the next job, the
\* leader for all that have entered the task.
leave_roaming(t) ==
  /\ At(t, "leave_roaming")
  /\ count' = [count EXCEPT !.roaming = @ - 1, !.sync2 = @ - 1]
  /\ \/ /\ my[t].leads
        /\ IF count.sync2 = 1 THEN GoOn(t, "conduct") ELSE Sleep(t, "w_sync2", "post_wait")
     \/ /\ ~my[t].leads
        /\ pc' = [pc EXCEPT ![t] = "job"] /\ lock' = Nobody
        /\ wait' = [IF count.sync2 = 1 THEN Woken("w_sync2") ELSE wait EXCEPT ![t] = "w_job"]
  /\ UNCHANGED <<my, done, idx, task, bar, jobs, shares>>

PostWait(t) ==
  /\ At(t, "post_wait")
  /\ IF count.sync2 = 0 THEN GoOn(t, "conduct") ELSE Sleep(t, "w_sync2", "post_wait")
  /\ UNCHANGED <<count, my, done, idx, task, bar, jobs, shares>>

post_work_stop(t) ==
  /\ \/ At(t, "conduct") /\ my[t].to_post = <<>>
     \/ At(t, "last_stop")
  /\ \/ /\ count.sync2 # 0 /\ Sleep(t, "w_sync2", pc[t]) /\ UNCHANGED <<task, my>>
     \/ /\ count.sync2 = 0
        /\ task' = [task EXCEPT !.expected = 0] /\ my' = [my EXCEPT ![t].leads = FALSE]
        /\ Broadcast(t, "w_job", IF pc[t] = "conduct" THEN "leave" ELSE "leave_last")
  /\ UNCHANGED <<count, done, idx, bar, jobs, shares>>

Ended == (\A t \in Threads : pc[t] = "ended") /\ UNCHANGED vars

Step(t) ==
  \/ Acquire(t) \/ i_am_ready(t) \/ enter_async(t) \/ ProcessMatch(t)
  \/ leave_async(t) \/ enter_sync_zone(t) \/ leave_sync_zone(t) \/ Exit(t)
  \/ post_work(t) \/ barrier_resize_unlocked(t) \/ GetJob(t) \/ DoShare(t)
  \/ barrier_wait(t) \/ LeaveBarrier(t) \/ DoSecondShare(t)
  \/ leave_roaming(t) \/ PostWait(t) \/ post_work_stop(t)

Next == (\E t \in Threads : Step(t)) \/ Ended

Spec == Init /\ [][Next]_vars

\* Every thread that can run does; a lock that is free again and again is
\* given to each thread that asks for it.
FairSpec == Spec /\ \A t \in Threads : WF_vars(Step(t)) /\ SF_vars(Acquire(t))

-------------------------------------------------------------------------------
Labels == {"start", "loop", "async", "leave_async", "exit", "ended", "conduct",
           "last_stop", "leave", "leave_last", "job", "resize", "roam", "roam2",
           "barrier", "in_barrier", "leave_roaming", "post_wait"}
Conditions == {"none", "lock", "w_ready_full", "w_job", "w_sync_empty", "w_sync2", "cv"}

\* Every variable has its type, and the counters stay within the team.
TypeOK ==
  /\ lock \in Threads \union {Nobody}
  /\ pc \in [Threads -> Labels] /\ wait \in [Threads -> Conditions]
  /\ count \in [ready : 0 .. Size, sync : 0 .. Size, async : 0 .. Size,
                sync2 : 0 .. Size, roaming : 0 .. Size]
  /\ my \in [Threads -> [index : 0 .. Size - 1, event : Nat, f : Kinds,
                         leads : BOOLEAN, to_post : Seq(Kinds)]]
  /\ done \in BOOLEAN /\ idx \in 0 .. MaxAd
  /\ task \in [expected : 0 .. Size, f : Kinds]
  /\ bar \in [left : 0 .. Size, count : 0 .. Size, event : Nat]
  /\ jobs \in [league : Nat, own : [Threads -> Nat], found : 0 .. MaxJobs]
  /\ shares \in [first : SUBSET Threads, second : SUBSET Threads, of : SUBSET Threads]

\* The invariant of polyselect_thread_team.h:95-103: inside the main loop each
\* thread is counted once, as ready, in the sync zone or asynchronous, and
\* roaming <= sync2 <= sync.
CountersAgree ==
  /\ (\A t \in Threads : pc[t] # "start") =>
        count.ready + count.sync + count.async = Size
  /\ count.roaming <= count.sync2 /\ count.sync2 <= count.sync

\* A task with a barrier is complete when post_work() returns: each thread it
\* was meant for has done its share on both sides of the barrier, those that
\* were slow to wake up as well (post_work, barrier_wait).
BarrierTasksComplete ==
  \A t \in Threads :
    pc[t] = "conduct" /\ HasBarrier(task.f) =>
      shares.first = shares.of /\ shares.second = shares.of

\* The barrier keeps its promise while it is made for another zone from task
\* to task and threads arrive for the next meeting before the last one has
\* been left (barrier.c).
R == INSTANCE Rendezvous WITH
  size <- bar.count,
  inside <- {t \in Threads : pc[t] = "in_barrier" /\ my[t].event = bar.event}
BarrierPromise == R!Spec

\* No match is left behind when all threads have left the loop.
NoMatchLeft ==
  (\A t \in Threads : pc[t] = "ended") =>
    jobs.league = 0 /\ \A t \in Threads : jobs.own[t] = 0

\* Threads that have left a round sleep until its zone is empty, and it never
\* will be: one that came back from a match in between has joined the zone,
\* where it sleeps for a job or has seen done and left the loop.
Stranded ==
  \E s, t \in Threads :
    /\ wait[s] = "w_sync_empty"
    /\ (wait[t] = "w_job" /\ task.expected = 0) \/ pc[t] = "ended"

\* Two threads lead: the second came back from a match between the end of the
\* last helper's share and the return of the first leader from its wait.
TwoLeaders == \E s, t \in Threads : s # t /\ my[s].leads /\ my[t].leads

\* All threads leave the loop, unless one is stranded or two of them lead.
LoopEnds == <>(Stranded \/ TwoLeaders \/ \A t \in Threads : pc[t] = "ended")

\* polyselect.c:557, where a thread has taken the lead: "we're effectively the
\* only one in the team, here".
OnlyOneLeads == ~TwoLeaders

\* polyselect_thread_team.c:385: "we want the full wind-down sequence to
\* terminate before we can start entering threads in a sync zone again".
WindDownTerminates == ~Stranded

\* polyselect_thread_team.c:244: "we're the one that is interested in the
\* result, so we want to make sure that everyone's done" (post_work).
EveryonesDone ==
  \A t \in Threads :
    pc[t] = "conduct" => shares.first = shares.of /\ shares.second = shares.of
===============================================================================
