------------------------------ MODULE FilterRels ------------------------------
(***************************************************************************)
(* filter_rels2() of utils/filter_io.cpp, by which the filtering programs  *)
(* read relation files: a thread reads the files into a ring buffer        *)
(* (RingBuf); Main finds the lines in it and puts a relation for each into *)
(* a pipe (InflightBuffer) whose levels call the program's functions.      *)
(***************************************************************************)
EXTENDS RingBuf, InflightBuffer

CONSTANT Unwanted   \* the relation numbers that "active" marks 0

VARIABLES
  pc,      \* where each thread is
  my,      \* each thread's slot and the number s of it in schedule()
  main,    \* the variables of the main loop: avail_seen, avail_offset, nl, nrels, k
  rels,    \* what a slot holds: num and the bytes of the line
  passed   \* history: by level, the relations whose function has been called

vars == <<ringVars, inflightVars, pc, my, main, rels, passed>>

Init ==
  /\ RingInit /\ InflightInit
  /\ pc = [t \in Threads |-> "enter"]
  /\ my = [t \in Threads |-> [slot |-> 0, s |-> 0]]
  /\ main = [avail_seen |-> 0, avail_offset |-> 0, nl |-> 0, nrels |-> 0, k |-> 0]
  /\ rels = [s \in Slots |-> [num |-> -1, bytes |-> <<>>]]
  /\ passed = [k \in Levels |-> {}]

Goto(t, label) == pc' = [pc EXCEPT ![t] = label]
At(t, label) == pc[t] = label /\ Awake(t)

-------------------------------------------------------------------------------
(* The pipe, as all threads use it.                                        *)

EnterPipe(t) ==
  /\ At(t, "enter") /\ Enter(LevelOf(t)) /\ Goto(t, "entered")
  /\ UNCHANGED <<ringVars, my, main, rels, passed>>

\* sync_point: nobody begins before all have entered.
AllEntered(t) ==
  /\ At(t, "entered") /\ \A u \in Threads : pc[u] # "enter"
  /\ Goto(t, IF t = Main THEN "wait" ELSE "schedule")
  /\ UNCHANGED <<ringVars, inflightVars, my, main, rels, passed>>

Granted(t) == IF t = Main THEN "parse" ELSE "holds"

\* The rest of schedule() once there is something to take, or nothing left.
Decide(t) ==
  LET k == LevelOf(t)
  IN \/ /\ NoneLeft(k) /\ Goto(t, "leave")
        /\ my' = [my EXCEPT ![t].s = scheduled[k]]
        /\ UNCHANGED inflightVars
     \/ /\ ~NoneLeft(k) /\ Take(k) /\ Goto(t, Granted(t))
        /\ my' = [my EXCEPT ![t] = [slot |-> SlotOf(scheduled[k]), s |-> scheduled[k]]]

\* schedule(): with posix locking, m[prev] is held from the test to the end.
schedule(t) ==
  /\ At(t, "schedule")
  /\ \/ WaitForWork(t, LevelOf(t)) /\ UNCHANGED <<pc, my>>
     \/ ~NothingToSchedule(LevelOf(t)) /\ setup.posix /\ Decide(t)
     \/ /\ ~NothingToSchedule(LevelOf(t)) /\ ~setup.posix
        /\ Goto(t, "decide") /\ UNCHANGED <<inflightVars, my>>
  /\ UNCHANGED <<ringVars, main, rels, passed>>

ScheduleUnlocked(t) ==
  /\ At(t, "decide") /\ Decide(t)
  /\ UNCHANGED <<ringVars, main, rels, passed>>

LeaveLevel(t) ==
  /\ At(t, "leave") /\ Leave(LevelOf(t), my[t].s) /\ Goto(t, "ended")
  /\ UNCHANGED <<ringVars, my, main, rels, passed>>

\* The function of the level is called on the slot a thread holds; then
\* complete().
complete(t) ==
  /\ At(t, "holds")
  /\ Complete(LevelOf(t), my[t].slot)
  /\ passed' = [passed EXCEPT ![LevelOf(t)] = @ \union {rels[my[t].slot].num}]
  /\ Goto(t, IF t = Main THEN "skip" ELSE "schedule")
  /\ UNCHANGED <<ringVars, my, main, rels>>

-------------------------------------------------------------------------------
(* The main loop.                                                          *)

\* Whether there is nothing new in the ring buffer.
NothingNew == rb.avail_to_read = main.avail_seen /\ ~rb.done

WaitForData ==
  /\ At(Main, "wait") /\ Main \notin sleeping
  /\ \/ NothingNew /\ sleeping' = sleeping \union {Main} /\ UNCHANGED <<pc, main>>
     \/ /\ ~NothingNew
        /\ main' = [main EXCEPT !.avail_seen = rb.avail_to_read, !.avail_offset = 0]
        /\ Goto(Main, IF rb.avail_to_read = 0 /\ rb.done THEN "drain_first" ELSE "line")
        /\ UNCHANGED sleeping
  /\ UNCHANGED <<input, rb, cells, reader, inflightVars, my, rels, passed>>

\* The next line, if one is complete; a comment is skipped and so is a
\* relation nobody wants.
FindLine ==
  /\ At(Main, "line")
  /\ \/ /\ main.avail_offset >= main.avail_seen \/ ringbuf_strchr <= 0
        /\ Goto(Main, "wait") /\ UNCHANGED main
     \/ /\ main.avail_offset < main.avail_seen /\ ringbuf_strchr > 0
        /\ LET comment == Stream[Cell(0)] = "#"
           IN /\ main' = [main EXCEPT !.nl = ringbuf_strchr,
                                      !.nrels = IF comment THEN @ ELSE @ + 1]
              /\ Goto(Main, IF comment \/ main.nrels \in Unwanted
                            THEN "skip" ELSE "schedule")
  /\ UNCHANGED <<ringVars, inflightVars, my, rels, passed>>

\* earlyparser() copies the line from the ring buffer into the slot.
Parse ==
  /\ At(Main, "parse")
  /\ rels' = [rels EXCEPT ![my[Main].slot] =
                [num |-> main.nrels - 1, bytes |-> [i \in 1 .. main.nl + 1 |-> Cell(i - 1)]]]
  /\ Goto(Main, "holds")
  /\ UNCHANGED <<ringVars, inflightVars, my, main, passed>>

\* What is left of avail_seen and how far it has been read (avail_offset) both
\* change, so that a round of the loop ends about half way.
SkipLine ==
  /\ At(Main, "skip") /\ ringbuf_skip_get(main.nl + 1)
  /\ main' = [main EXCEPT !.avail_seen = (@ - (main.nl + 1)) % SizeMod,
                          !.avail_offset = @ + main.nl + 1]
  /\ Goto(Main, "line")
  /\ UNCHANGED <<inflightVars, my, rels, passed>>

\* drain() and the wait for all threads.
StartDrain ==
  /\ At(Main, "drain_first") /\ LeaveMain /\ Goto(Main, "drain")
  /\ UNCHANGED <<ringVars, my, main, rels, passed>>

DrainLevel ==
  /\ At(Main, "drain") /\ Drain(Main, main.k)
  /\ LET drained == completed'[main.k] = SIZE_MAX
     IN /\ Goto(Main, IF drained /\ main.k = LastLevel THEN "join" ELSE "drain")
        /\ main' = [main EXCEPT !.k = IF drained /\ @ < LastLevel THEN @ + 1 ELSE @]
  /\ UNCHANGED <<ringVars, my, rels, passed>>

JoinAll ==
  /\ At(Main, "join") /\ reader.pc = "ended"
  /\ \A t \in Threads \ {Main} : pc[t] = "ended"
  /\ Goto(Main, "ended")
  /\ UNCHANGED <<ringVars, inflightVars, my, main, rels, passed>>

-------------------------------------------------------------------------------
ThreadStep(t) ==
  EnterPipe(t) \/ AllEntered(t) \/ schedule(t) \/ ScheduleUnlocked(t)
  \/ LeaveLevel(t) \/ complete(t)

MainStep ==
  WaitForData \/ FindLine \/ Parse \/ SkipLine \/ StartDrain \/ DrainLevel \/ JoinAll

Read == ReaderStep /\ UNCHANGED <<inflightVars, pc, my, main, rels, passed>>

Ended == pc[Main] = "ended" /\ UNCHANGED vars

Next == Read \/ MainStep \/ (\E t \in Threads : ThreadStep(t)) \/ Ended

Spec == Init /\ [][Next]_vars

\* Every thread runs when it can.
Consumers == UNION {DOMAIN s.level : s \in Setups}
FairSpec ==
  /\ Spec /\ WF_vars(Read) /\ WF_vars(MainStep \/ ThreadStep(Main))
  /\ \A t \in Consumers : WF_vars(t \in Threads /\ ThreadStep(t))

-------------------------------------------------------------------------------
(* Properties.                                                             *)

Relations == (0 .. Len(input.lines) - 1) \ Unwanted

Labels == {"enter", "entered", "wait", "line", "schedule", "decide", "parse", "holds",
           "skip", "leave", "drain_first", "drain", "join", "ended"}

\* Every variable has its type; the counters of the ring buffer account for
\* all of it and never leave the buffer (ringbuf.c).
TypeOK ==
  /\ rb.avail_to_read \in 0 .. Alloc /\ rb.avail_to_write = Alloc - rb.avail_to_read
  /\ rb.rhead \in 0 .. Alloc - 1
  /\ rb.whead = (rb.rhead + rb.avail_to_read) % Alloc
  /\ sleeping \subseteq {"reader", Main}
  /\ pc \in [Threads -> Labels]
  /\ \A t \in Threads : my[t].slot \in Slots /\ my[t].s \in 0 .. SIZE_MAX
  /\ \A k \in Levels : active[k] \in 0 .. Cardinality(Threads) /\ bored[k] \subseteq Threads
  /\ main.avail_seen \in 0 .. rb.avail_to_read /\ main.k \in Levels

\* ringbuf_strchr() returns a newline of the readable part, or -1, although it
\* also searches bytes that are stale or about to be written (comment at
\* ringbuf.c:308).  So it is as long as each round of the main loop begins with
\* a whole line in what it has seen.
FindsOnlyReadable ==
  At(Main, "line") /\ main.avail_offset < main.avail_seen =>
    ringbuf_strchr < rb.avail_to_read

Holds(t) == pc[t] = "holds"

\* A thread that holds a slot has in it one whole line of the input, with its
\* number, and no function of its level has seen the relation before; two
\* threads never hold the same slot (schedule, complete).
SlotIsItsOwn ==
  /\ \A t \in Threads : Holds(t) =>
       LET rel == rels[my[t].slot]
       IN /\ rel.num \in Relations /\ rel.bytes = input.lines[rel.num + 1]
          /\ rel.num \notin passed[LevelOf(t)]
  /\ \A t, u \in Threads :
       pc[t] \in {"holds", "parse"} /\ pc[u] \in {"holds", "parse"}
         /\ my[t].slot = my[u].slot => t = u

\* The invariant of filter_io.cpp:222: scheduled_0 >= completed_0 >=
\* scheduled_1 >= ... >= completed_last >= scheduled_0 - SIZE_BUF_REL, as long
\* as no level is drained; and no counter is ahead of the work done.
CountersOrdered ==
  \A k \in Levels : completed[k] # SIZE_MAX =>
    /\ completed[k] <= scheduled[k]
    /\ k = LastLevel => completed[k] + SizeBuf >= scheduled[0]
    /\ \A t \in Threads : LevelOf(t) = k /\ Holds(t) => completed[k] <= my[t].s
    /\ k < LastLevel => scheduled[k + 1] <= completed[k]

\* filter_io.cpp:415: complete() is to "recover the integer relation number
\* being currently processed from the one modulo SIZE_BUF_REL".
AbsoluteIndexRecovered ==
  \A t \in Threads : Holds(t) => AbsoluteIndex(LevelOf(t), my[t].slot) = my[t].s

\* The relations pass the levels as a pipe promises.
Pipe == INSTANCE RelationPipe WITH last <- LastLevel
PipeSpec == Pipe!Spec

\* Whatever the order in which threads run, filter_rels2() returns, and every
\* relation has been through all levels.
AllFiltered ==
  <>(pc[Main] = "ended" /\ \A k \in Levels : passed[k] = Relations)
===============================================================================
