---------------------------- MODULE InflightBuffer ----------------------------
(***************************************************************************)
(* The inflight_rels_buffer of utils/filter_io.cpp: a pipe of levels       *)
(* through which relations pass in slots that are used again and again.    *)
(* Level 0 fills a slot, each later level processes it, the last one makes *)
(* it free.  scheduled[k] and completed[k] count the relations level k has *)
(* been given and has finished, as far as it is known: threads of one      *)
(* level finish out of order, and the status table says how far a slot is. *)
(*                                                                         *)
(* There are two locking models.  With "posix" each operation holds        *)
(* m[k - 1] or m[k], so it is one step.  With "lightweight" there is no    *)
(* lock and one thread at each of two levels, each counter has one writer, *)
(* and a thread polls instead of waiting.                                  *)
(***************************************************************************)
EXTENDS Integers, FiniteSets

CONSTANTS
  Main,      \* the thread of level 0
  Setups,    \* the locking model, the last level, the level of each other thread
  SizeBuf,   \* SIZE_BUF_REL
  SizeTMod,  \* 2^64: how many values a size_t has
  UIntMod    \* 2^32: how many values an unsigned int has

ASSUME InflightAssumption ==
  /\ SizeBuf \in Nat \ {0} /\ SizeTMod \in Nat /\ UIntMod \in 1 .. SizeTMod
  /\ SizeTMod % UIntMod = 0 /\ UIntMod % SizeBuf = 0

\* Threads besides Main work at the later levels; without locks, one at each.
ASSUME SetupsAssumption ==
  \A s \in Setups :
    /\ s.posix \in BOOLEAN /\ s.last \in Nat \ {0}
    /\ IsFiniteSet(DOMAIN s.level) /\ Main \notin DOMAIN s.level
    /\ s.level \in [DOMAIN s.level -> 1 .. s.last]
    /\ ~s.posix => \A t, u \in DOMAIN s.level : s.level[t] = s.level[u] => t = u

VARIABLES
  setup,      \* posix, last, and the level of each thread but Main
  completed,  \* by level
  scheduled,  \* by level
  status,     \* x[slot]: the level the slot has passed
  active,     \* by level: the threads that have entered and not left
  bored       \* by level: the threads waiting on bored[k]

inflightVars == <<setup, completed, scheduled, status, active, bored>>

Threads == {Main} \union DOMAIN setup.level
LevelOf(t) == IF t = Main THEN 0 ELSE setup.level[t]
LastLevel == setup.last
Levels == 0 .. LastLevel
Prev(k) == IF k = 0 THEN LastLevel ELSE k - 1
Slots == 0 .. SizeBuf - 1
SIZE_MAX == SizeTMod - 1

InflightInit ==
  /\ setup \in Setups
  /\ completed = [k \in Levels |-> 0] /\ scheduled = [k \in Levels |-> 0]
  /\ status = [s \in Slots |-> 0]
  /\ active = [k \in Levels |-> 0] /\ bored = [k \in Levels |-> {}]

Awake(t) == \A k \in Levels : t \notin bored[k]
Broadcast(k) == bored' = [bored EXCEPT ![k] = {}]
WaitOn(t, k) == bored' = [bored EXCEPT ![k] = IF setup.posix THEN @ \union {t} ELSE @]

\* enter(): the barrier that follows is passed when all have entered.
Enter(k) ==
  /\ active' = [active EXCEPT ![k] = @ + 1]
  /\ UNCHANGED <<setup, completed, scheduled, status, bored>>

-------------------------------------------------------------------------------
(* The status table.                                                       *)

SlotOf(s) == s % SizeBuf

\* The first relation from c on that has not passed the level, before limit.
CaughtUp(k, c, limit) ==
  IF ~setup.posix THEN c
  ELSE CHOOSE d \in c .. limit :
         /\ \A e \in c .. d - 1 : status[SlotOf(e)] >= k
         /\ d = limit \/ status[SlotOf(d)] < k

\* catchup_until_mine_completed(): what completed[k] becomes.
CompletedAfter_to_mine(k, me) == me + 1
CompletedAfter(k, me) ==
  IF ~setup.posix THEN completed[k] + 1
  ELSE IF completed[k] > me THEN completed[k]
  ELSE LET c == CaughtUp(k, completed[k], me) IN IF c = me THEN c + 1 ELSE c

\* The number of the relation in a slot, recovered from the slot: SIZE_BUF_REL
\* is an unsigned int, so the mask -SIZE_BUF_REL has that many bits.
Masked(n) == SizeBuf * ((n % UIntMod) \div SizeBuf)
AbsoluteIndex_rounded_down(k, slot) ==
  IF ~setup.posix THEN completed[k]
  ELSE slot + Masked((completed[k] - slot) % SizeTMod)
AbsoluteIndex(k, slot) ==
  IF ~setup.posix THEN completed[k]
  ELSE slot + Masked((completed[k] - slot + SizeBuf - 1) % SizeTMod)

-------------------------------------------------------------------------------
(* schedule(k), complete(k) and drain().                                   *)

\* What scheduled[k] may not reach.
Room_one_more(k) == (completed[Prev(k)] + (IF k = 0 THEN SizeBuf + 1 ELSE 0)) % SizeTMod
Room(k) == (completed[Prev(k)] + (IF k = 0 THEN SizeBuf ELSE 0)) % SizeTMod

NothingToSchedule(k) == scheduled[k] = Room(k)

\* The previous level is drained and this one has been given all of it.
NoneLeft(k) == completed[Prev(k)] = SIZE_MAX /\ scheduled[Prev(k)] = scheduled[k]

WaitForWork(t, k) ==
  /\ NothingToSchedule(k) /\ WaitOn(t, Prev(k))
  /\ UNCHANGED <<setup, completed, scheduled, status, active>>

\* The slot is SlotOf(scheduled[k]); level 0 starts its history afresh.
Take(k) ==
  /\ scheduled' = [scheduled EXCEPT ![k] = (@ + 1) % SizeTMod]
  /\ status' = IF k = 0 /\ setup.posix
               THEN [status EXCEPT ![SlotOf(scheduled[0])] = -1] ELSE status
  /\ UNCHANGED <<setup, completed, active, bored>>

\* schedule() is about to return NULL.
Leave(k, s) ==
  /\ completed' = [completed EXCEPT ![k] = CaughtUp(k, @, s)]
  /\ active' = [active EXCEPT ![k] = @ - 1] /\ Broadcast(k)
  /\ UNCHANGED <<setup, scheduled, status>>

Complete(k, slot) ==
  /\ completed' = [completed EXCEPT ![k] = CompletedAfter(k, AbsoluteIndex(k, slot))]
  /\ status' = IF setup.posix THEN [status EXCEPT ![slot] = @ + 1] ELSE status
  /\ Broadcast(k)
  /\ UNCHANGED <<setup, scheduled, active>>

\* drain(), level by level: first Main itself leaves.
LeaveMain ==
  /\ active' = [active EXCEPT ![0] = @ - 1]
  /\ UNCHANGED <<setup, completed, scheduled, status, bored>>

Drain(t, k) ==
  \/ /\ active[k] # 0 /\ WaitOn(t, k)
     /\ UNCHANGED <<setup, completed, scheduled, status, active>>
  \/ /\ active[k] = 0
     /\ completed' = [completed EXCEPT ![k] = SIZE_MAX] /\ Broadcast(k)
     /\ UNCHANGED <<setup, scheduled, status, active>>
===============================================================================
