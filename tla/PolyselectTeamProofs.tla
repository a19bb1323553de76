-------------------------- MODULE PolyselectTeamProofs --------------------------
(* Proofs about PolyselectTeam, for every value of its constants.          *)
EXTENDS PolyselectTeam, FiniteSetTheorems, TLAPS

In(L) == {t \in Threads : pc[t] \in L}

(* The labels of threads counted in sync2, and in the sync zone.           *)
Within == {"roam", "roam2", "barrier", "in_barrier", "leave_roaming"}
Zone == Within \union {"conduct", "last_stop", "leave", "leave_last", "job",
                       "resize", "post_wait"}
Joined == Labels \ {"start"}

(* What each counter counts.  A thread about to leave the loop is counted  *)
(* either as ready or in the zone.                                         *)
CountInv ==
  /\ Cardinality(In({"loop"})) <= count.ready
  /\ Cardinality(In(Zone)) <= count.sync
  /\ count.async = Cardinality(In({"async", "leave_async"}))
  /\ count.sync2 = Cardinality(In(Within)) /\ count.roaming = count.sync2
  /\ count.ready + count.sync + count.async = Cardinality(In(Joined))

(* The lock is held while a leader conducts, and nobody is within a task   *)
(* then; all who are within one are within the posted one.                 *)
LockInv ==
  \A t \in Threads :
    /\ lock = t => wait[t] = "none"
    /\ pc[t] \in {"async", "roam", "roam2", "ended"} => wait[t] = "none" /\ lock # t
    /\ pc[t] \in {"conduct", "resize", "last_stop"} => lock = t /\ count.sync2 = 0
    /\ pc[t] = "resize" => task.expected = count.sync
    /\ pc[t] \in Within \union {"resize"} => my[t].f = task.f

(* Who may still come to the barrier: those who do their share, and those  *)
(* who have been called for the task and not got up.                       *)
Called(t) == pc[t] = "job" /\ wait[t] # "w_job" /\ my[t].index < task.expected
Coming == {t \in Threads : pc[t] \in {"roam", "barrier"} \/ Called(t)}

Even == bar.event % 2 = 0

(* The barrier has a place for each of them, and is left when all have     *)
(* come.                                                                   *)
BarInv ==
  /\ bar.left + Cardinality(In({"in_barrier"})) = bar.count
  /\ \A t \in In({"in_barrier"}) : my[t].event = IF Even THEN bar.event ELSE bar.event - 1
  /\ In({"resize"}) = {} => Cardinality(Coming) <= bar.left
  /\ ~Even => Coming = {} /\ In({"in_barrier"}) # {}

(* How far a task with a barrier has come: it is posted, its first half is *)
(* being done, or its second half or nothing is left.                      *)
Posted ==
  /\ In({"resize"}) # {} /\ shares.first = {} /\ shares.second = {}
  /\ \A t \in In({"resize"}) : shares.of = {t} \union In({"job"})
FirstHalf ==
  /\ In({"resize"}) = {} /\ Cardinality(shares.of) <= bar.count /\ Even
  /\ In({"roam2", "leave_roaming"}) = {} /\ In(Within) # {}
  /\ Coming \union In({"in_barrier"}) \subseteq shares.of
  /\ shares.first = In({"in_barrier", "barrier"}) /\ shares.second = {}
SecondHalf ==
  /\ In({"resize"}) = {} /\ Coming = {} /\ shares.first = shares.of
  /\ In({"in_barrier", "roam2"}) \subseteq shares.of
  /\ shares.second = shares.of \ In({"in_barrier", "roam2"})
ShareInv ==
  /\ HasBarrier(task.f) /\ shares.of # {} => Posted \/ FirstHalf \/ SecondHalf
  /\ shares.of = {} =>
       /\ shares.first = {} /\ shares.second = {}
       /\ In({"roam", "roam2", "barrier", "in_barrier", "resize"}) = {}
       /\ task.expected = 0 \/ In({"conduct"}) # {}

(* A match is in the hands of a thread that will hand it over, or in the   *)
(* list while a thread is left to look there.                              *)
MatchInv ==
  /\ \A t \in Threads : jobs.own[t] > 0 => pc[t] \in Zone \ {"last_stop", "leave_last"}
  /\ jobs.league > 0 =>
       \E t \in Threads : pc[t] \notin {"last_stop", "leave_last", "exit", "ended"}

IInv == TypeOK /\ CountInv /\ LockInv /\ BarInv /\ ShareInv /\ MatchInv

-------------------------------------------------------------------------------
(* Counting threads.                                                       *)

LEMMA InFinite ==
  ASSUME NEW L
  PROVE  IsFiniteSet(In(L)) /\ Cardinality(In(L)) \in 0 .. Size
  <1>1. IsFiniteSet(Threads) /\ In(L) \subseteq Threads
    BY TeamAssumption DEF TeamAssumption, In
  <1>2. IsFiniteSet(In(L)) /\ Cardinality(In(L)) <= Cardinality(Threads)
    BY <1>1, FS_Subset
  <1>3. Cardinality(In(L)) \in Nat /\ Cardinality(Threads) \in Nat
    BY <1>1, <1>2, FS_CardinalityType
  <1> QED BY <1>2, <1>3 DEF Size

LEMMA SizeType == Size \in Nat
  BY TeamAssumption, FS_CardinalityType DEF TeamAssumption, Size

One(label, L) == IF label \in L THEN 1 ELSE 0

(* A thread that goes from one label to another is counted accordingly.    *)
LEMMA Moved ==
  ASSUME pc \in [Threads -> Labels], NEW t \in Threads, NEW b \in Labels, NEW L,
         pc' = [pc EXCEPT ![t] = b]
  PROVE  /\ In(L)' = IF b \in L THEN In(L) \union {t} ELSE In(L) \ {t}
         /\ Cardinality(In(L)') = Cardinality(In(L)) + One(b, L) - One(pc[t], L)
         /\ pc[t] \in L => Cardinality(In(L)) >= 1
  <1>1. In(L)' = IF b \in L THEN In(L) \union {t} ELSE In(L) \ {t}
    BY DEF In
  <1>2. IsFiniteSet(In(L)) /\ Cardinality(In(L)) \in Nat
    BY InFinite
  <1>3. t \in In(L) <=> pc[t] \in L
    BY DEF In
  <1>4. Cardinality(In(L) \union {t}) = IF t \in In(L) THEN Cardinality(In(L))
                                                       ELSE Cardinality(In(L)) + 1
    BY <1>2, FS_AddElement
  <1>5. Cardinality(In(L) \ {t}) = IF t \in In(L) THEN Cardinality(In(L)) - 1
                                                  ELSE Cardinality(In(L))
    BY <1>2, FS_RemoveElement
  <1>6. t \in In(L) => Cardinality(In(L)) >= 1
    <2> SUFFICES ASSUME t \in In(L) PROVE Cardinality(In(L)) >= 1
      OBVIOUS
    <2>1. Cardinality(In(L)) # 0
      BY <1>2, FS_EmptySet
    <2> QED BY <1>2, <2>1
  <1>7. CASE b \in L
    BY <1>1, <1>2, <1>3, <1>4, <1>6, <1>7 DEF One
  <1>8. CASE b \notin L
    BY <1>1, <1>2, <1>3, <1>5, <1>6, <1>8 DEF One
  <1> QED BY <1>7, <1>8

(* The five sets that are counted.                                         *)
LEMMA AllMoved ==
  ASSUME pc \in [Threads -> Labels], NEW t \in Threads, NEW b \in Labels,
         pc' = [pc EXCEPT ![t] = b]
  PROVE  /\ Cardinality(In({"loop"})') =
              Cardinality(In({"loop"})) + One(b, {"loop"}) - One(pc[t], {"loop"})
         /\ Cardinality(In(Zone)') =
              Cardinality(In(Zone)) + One(b, Zone) - One(pc[t], Zone)
         /\ Cardinality(In({"async", "leave_async"})') =
              Cardinality(In({"async", "leave_async"}))
                + One(b, {"async", "leave_async"}) - One(pc[t], {"async", "leave_async"})
         /\ Cardinality(In(Within)') =
              Cardinality(In(Within)) + One(b, Within) - One(pc[t], Within)
         /\ Cardinality(In(Joined)') =
              Cardinality(In(Joined)) + One(b, Joined) - One(pc[t], Joined)
  BY Moved

LEMMA Counts ==
  /\ Cardinality(In({"loop"})) \in 0 .. Size /\ Cardinality(In(Zone)) \in 0 .. Size
  /\ Cardinality(In({"async", "leave_async"})) \in 0 .. Size
  /\ Cardinality(In(Within)) \in 0 .. Size /\ Cardinality(In(Joined)) \in 0 .. Size
  BY InFinite

(* Nobody is within a task when sync2 is 0.                                *)
LEMMA NobodyWithin ==
  ASSUME CountInv, count.sync2 = 0
  PROVE  In(Within) = {} /\ \A t \in Threads : pc[t] \notin Within
  <1>1. IsFiniteSet(In(Within)) /\ Cardinality(In(Within)) = 0
    BY InFinite DEF CountInv
  <1>2. In(Within) = {}
    BY <1>1, FS_EmptySet
  <1> QED BY <1>2 DEF In

-------------------------------------------------------------------------------
(* The counters count.                                                     *)

LEMMA CountStep ==
  ASSUME IInv, NEW t \in Threads, Step(t)
  PROVE  CountInv'
  <1> USE DEF At, Unlocked, Goto, GoOn, Broadcast, Sleep, Unlock, Relock
  <1>t. /\ pc \in [Threads -> Labels] /\ pc[t] \in Labels /\ CountInv
        /\ count \in [ready : 0 .. Size, sync : 0 .. Size, async : 0 .. Size,
                      sync2 : 0 .. Size, roaming : 0 .. Size]
    BY DEF IInv, TypeOK
  <1>c. /\ Cardinality(In({"loop"})) \in 0 .. Size /\ Cardinality(In(Zone)) \in 0 .. Size
        /\ Cardinality(In({"async", "leave_async"})) \in 0 .. Size
        /\ Cardinality(In(Within)) \in 0 .. Size /\ Cardinality(In(Joined)) \in 0 .. Size
    BY Counts
  <1>s. Size \in Nat
    BY SizeType
  <1>0. CASE pc' = pc /\ count' = count
    BY <1>t, <1>0 DEF CountInv, In
  <1>1. CASE Acquire(t)
    BY <1>0, <1>1 DEF Acquire
  <1>m. ASSUME NEW b \in Labels, pc' = [pc EXCEPT ![t] = b],
               \/ /\ count' = count
                  /\ <<pc[t], b>> \in
                       {<<"async", "leave_async">>, <<"exit", "ended">>, <<"conduct", "resize">>,
                        <<"job", "leave">>, <<"conduct", "leave">>, <<"last_stop", "leave_last">>,
                        <<"roam", "barrier">>, <<"roam", "leave_roaming">>,
                        <<"barrier", "in_barrier">>, <<"barrier", "roam2">>,
                        <<"in_barrier", "roam2">>, <<"roam2", "leave_roaming">>,
                        <<"post_wait", "conduct">>} \union {<<l, l>> : l \in Labels}
               \/ /\ pc[t] = "start" /\ b = "loop"
                  /\ count' = [count EXCEPT !.ready = @ + 1]
               \/ /\ pc[t] = "loop" /\ b = "async"
                  /\ count' = [count EXCEPT !.async = @ + 1, !.ready = @ - 1]
               \/ /\ pc[t] = "leave_async" /\ b = "loop"
                  /\ count' = [count EXCEPT !.ready = @ + 1, !.async = @ - 1]
               \/ /\ pc[t] = "loop" /\ b \in {"exit", "last_stop", "conduct", "job"}
                  /\ count' = [count EXCEPT !.ready = @ - 1, !.sync = @ + 1]
               \/ /\ <<pc[t], b>> \in {<<"leave", "loop">>, <<"leave_last", "exit">>}
                  /\ count' = [count EXCEPT !.ready = @ + 1, !.sync = @ - 1]
               \/ /\ pc[t] \in {"resize", "job"} /\ b = "roam"
                  /\ count' = [count EXCEPT !.sync2 = @ + 1, !.roaming = @ + 1]
               \/ /\ pc[t] = "leave_roaming" /\ b \in {"conduct", "post_wait", "job"}
                  /\ count' = [count EXCEPT !.roaming = @ - 1, !.sync2 = @ - 1]
        PROVE  CountInv'
    <2>1. /\ Cardinality(In({"loop"})') =
               Cardinality(In({"loop"})) + One(b, {"loop"}) - One(pc[t], {"loop"})
          /\ Cardinality(In(Zone)') =
               Cardinality(In(Zone)) + One(b, Zone) - One(pc[t], Zone)
          /\ Cardinality(In({"async", "leave_async"})') =
               Cardinality(In({"async", "leave_async"}))
                 + One(b, {"async", "leave_async"}) - One(pc[t], {"async", "leave_async"})
          /\ Cardinality(In(Within)') =
               Cardinality(In(Within)) + One(b, Within) - One(pc[t], Within)
          /\ Cardinality(In(Joined)') =
               Cardinality(In(Joined)) + One(b, Joined) - One(pc[t], Joined)
      BY <1>t, <1>m, AllMoved
    <2>2. SUFFICES
            /\ Cardinality(In({"loop"})') <= count'.ready
            /\ Cardinality(In(Zone)') <= count'.sync
            /\ count'.async = Cardinality(In({"async", "leave_async"})')
            /\ count'.sync2 = Cardinality(In(Within)') /\ count'.roaming = count'.sync2
            /\ count'.ready + count'.sync + count'.async = Cardinality(In(Joined)')
      BY DEF CountInv, Zone, Within, Joined, Labels
    <2> DEFINE dLoop == One(b, {"loop"}) - One(pc[t], {"loop"})
               dZone == One(b, Zone) - One(pc[t], Zone)
               dAway == One(b, {"async", "leave_async"}) - One(pc[t], {"async", "leave_async"})
               dWithin == One(b, Within) - One(pc[t], Within)
               dJoined == One(b, Joined) - One(pc[t], Joined)
    <2>3. /\ dLoop <= count'.ready - count.ready
          /\ dZone <= count'.sync - count.sync
          /\ dAway = count'.async - count.async
          /\ dWithin = count'.sync2 - count.sync2
          /\ dWithin = count'.roaming - count.roaming
          /\ dJoined = (count'.ready - count.ready) + (count'.sync - count.sync)
                        + (count'.async - count.async)
          /\ count'.ready \in Int /\ count'.sync \in Int /\ count'.async \in Int
          /\ count'.sync2 \in Int /\ count'.roaming \in Int
      <3>0. /\ count.ready \in Int /\ count.sync \in Int /\ count.async \in Int
            /\ count.sync2 \in Int /\ count.roaming \in Int
        BY <1>t, <1>s
      <3> USE <3>0 DEF One, Zone, Within, Joined, Labels
      <3>1. CASE count' = count /\ <<pc[t], b>> \in {<<l, l>> : l \in Labels}
        <4>1. pc[t] = b
          BY <3>1
        <4> QED BY <3>1, <4>1
      <3>2. CASE /\ count' = count
                 /\ <<pc[t], b>> \in
                      {<<"async", "leave_async">>, <<"exit", "ended">>, <<"conduct", "resize">>,
                       <<"job", "leave">>, <<"conduct", "leave">>, <<"last_stop", "leave_last">>,
                       <<"roam", "barrier">>, <<"roam", "leave_roaming">>,
                       <<"barrier", "in_barrier">>, <<"barrier", "roam2">>,
                       <<"in_barrier", "roam2">>, <<"roam2", "leave_roaming">>,
                       <<"post_wait", "conduct">>}
        BY <3>2
      <3>3. CASE pc[t] = "start" /\ b = "loop" /\ count' = [count EXCEPT !.ready = @ + 1]
        BY <1>t, <3>3
      <3>4. CASE /\ pc[t] = "loop" /\ b = "async"
                 /\ count' = [count EXCEPT !.async = @ + 1, !.ready = @ - 1]
        BY <1>t, <3>4
      <3>5. CASE /\ pc[t] = "leave_async" /\ b = "loop"
                 /\ count' = [count EXCEPT !.ready = @ + 1, !.async = @ - 1]
        BY <1>t, <3>5
      <3>6. CASE /\ pc[t] = "loop" /\ b \in {"exit", "last_stop", "conduct", "job"}
                 /\ count' = [count EXCEPT !.ready = @ - 1, !.sync = @ + 1]
        BY <1>t, <3>6
      <3>7. CASE /\ <<pc[t], b>> \in {<<"leave", "loop">>, <<"leave_last", "exit">>}
                 /\ count' = [count EXCEPT !.ready = @ + 1, !.sync = @ - 1]
        BY <1>t, <3>7
      <3>8. CASE /\ pc[t] \in {"resize", "job"} /\ b = "roam"
                 /\ count' = [count EXCEPT !.sync2 = @ + 1, !.roaming = @ + 1]
        BY <1>t, <3>8
      <3>9. CASE /\ pc[t] = "leave_roaming" /\ b \in {"conduct", "post_wait", "job"}
                 /\ count' = [count EXCEPT !.roaming = @ - 1, !.sync2 = @ - 1]
        BY <1>t, <3>9
      <3> QED BY <1>m, <3>1, <3>2, <3>3, <3>4, <3>5, <3>6, <3>7, <3>8, <3>9
    <2>4. /\ dLoop \in Int /\ dZone \in Int /\ dAway \in Int
          /\ dWithin \in Int /\ dJoined \in Int
      BY DEF One
    <2>5. /\ Cardinality(In({"loop"})') = Cardinality(In({"loop"})) + dLoop
          /\ Cardinality(In(Zone)') = Cardinality(In(Zone)) + dZone
          /\ Cardinality(In({"async", "leave_async"})') =
               Cardinality(In({"async", "leave_async"})) + dAway
          /\ Cardinality(In(Within)') = Cardinality(In(Within)) + dWithin
          /\ Cardinality(In(Joined)') = Cardinality(In(Joined)) + dJoined
      BY <1>c, <2>1 DEF One
    <2>6. /\ count.ready \in Int /\ count.sync \in Int /\ count.async \in Int
          /\ count.sync2 \in Int /\ count.roaming \in Int
      BY <1>t, <1>s
    <2> HIDE DEF dLoop, dZone, dAway, dWithin, dJoined
    <2>7. /\ Cardinality(In({"loop"})') <= count'.ready
          /\ Cardinality(In(Zone)') <= count'.sync
      BY <1>t, <1>c, <1>s, <2>3, <2>4, <2>5, <2>6 DEF CountInv
    <2>8. /\ count'.async = Cardinality(In({"async", "leave_async"})')
          /\ count'.sync2 = Cardinality(In(Within)') /\ count'.roaming = count'.sync2
      BY <1>t, <1>c, <1>s, <2>3, <2>4, <2>5, <2>6 DEF CountInv
    <2>9. count'.ready + count'.sync + count'.async = Cardinality(In(Joined)')
      BY <1>t, <1>c, <1>s, <2>3, <2>4, <2>5, <2>6 DEF CountInv
    <2> QED BY <2>7, <2>8, <2>9
  <1>2. CASE i_am_ready(t)
    BY <1>m, <1>2 DEF i_am_ready, Labels
  <1>3. CASE enter_async(t)
    BY <1>m, <1>3 DEF enter_async, Labels
  <1>4. CASE ProcessMatch(t)
    BY <1>m, <1>4 DEF ProcessMatch, Labels
  <1>5. CASE leave_async(t)
    BY <1>m, <1>5 DEF leave_async, Labels
  <1>6. CASE enter_sync_zone(t)
    BY <1>m, <1>6 DEF enter_sync_zone, Labels
  <1>7. CASE leave_sync_zone(t)
    BY <1>m, <1>7 DEF leave_sync_zone, Labels
  <1>8. CASE Exit(t)
    BY <1>m, <1>8 DEF Exit, Labels
  <1>9. CASE post_work(t)
    BY <1>m, <1>9 DEF post_work, Labels
  <1>10. CASE barrier_resize_unlocked(t)
    BY <1>t, <1>m, <1>10 DEF barrier_resize_unlocked, Roaming, Labels
  <1>11. CASE GetJob(t)
    BY <1>t, <1>m, <1>11 DEF GetJob, Roaming, Labels
  <1>12. CASE DoShare(t)
    BY <1>m, <1>12 DEF DoShare, Labels
  <1>13. CASE barrier_wait(t)
    BY <1>t, <1>m, <1>13 DEF barrier_wait, Labels
  <1>14. CASE LeaveBarrier(t)
    BY <1>t, <1>m, <1>14 DEF LeaveBarrier, Labels
  <1>15. CASE DoSecondShare(t)
    BY <1>m, <1>15 DEF DoSecondShare, Labels
  <1>16. CASE leave_roaming(t)
    BY <1>m, <1>16 DEF leave_roaming, Labels
  <1>17. CASE PostWait(t)
    BY <1>t, <1>m, <1>17 DEF PostWait, Labels
  <1>18. CASE post_work_stop(t)
    BY <1>t, <1>m, <1>18 DEF post_work_stop, Labels
  <1> QED
    BY <1>1, <1>2, <1>3, <1>4, <1>5, <1>6, <1>7, <1>8, <1>9, <1>10, <1>11, <1>12,
       <1>13, <1>14, <1>15, <1>16, <1>17, <1>18 DEF Step

-------------------------------------------------------------------------------
(* The lock, and who is within the posted task.                            *)

(* No thread is in the barrier when nobody is within a task.               *)
LEMMA BarrierFree ==
  ASSUME CountInv, BarInv, TypeOK, count.sync2 = 0
  PROVE  Even /\ In({"in_barrier"}) = {} /\ bar.left = bar.count
  <1>1. In({"in_barrier"}) = {}
    BY NobodyWithin DEF In, Within
  <1>2. Cardinality(In({"in_barrier"})) = 0
    BY <1>1, FS_EmptySet
  <1> QED BY <1>1, <1>2 DEF BarInv, TypeOK

LEMMA LockStep ==
  ASSUME IInv, NEW t \in Threads, Step(t)
  PROVE  LockInv'
  <1> USE DEF At, Unlocked, Goto, GoOn, Broadcast, Sleep, Unlock, Relock, Woken
  <1>t. /\ pc \in [Threads -> Labels] /\ wait \in [Threads -> Conditions]
        /\ count \in [ready : 0 .. Size, sync : 0 .. Size, async : 0 .. Size,
                      sync2 : 0 .. Size, roaming : 0 .. Size]
        /\ my \in [Threads -> [index : 0 .. Size - 1, event : Nat, f : Kinds,
                               leads : BOOLEAN, to_post : Seq(Kinds)]]
        /\ task \in [expected : 0 .. Size, f : Kinds] /\ Nobody \notin Threads
    BY TeamAssumption DEF IInv, TypeOK, TeamAssumption
  <1>s. Size \in Nat
    BY SizeType
  <1>l. \A r \in Threads :
          /\ lock = r => wait[r] = "none"
          /\ pc[r] \in {"async", "roam", "roam2", "ended"} => wait[r] = "none" /\ lock # r
          /\ pc[r] \in {"conduct", "resize", "last_stop"} => lock = r /\ count.sync2 = 0
          /\ pc[r] = "resize" => task.expected = count.sync
          /\ pc[r] \in Within \union {"resize"} => my[r].f = task.f
    BY DEF IInv, LockInv
  <1>f. count.sync2 = 0 => bar.event % 2 = 0 /\ \A r \in Threads : pc[r] \notin Within
    BY NobodyWithin, BarrierFree DEF IInv, Even
  <1>g. SUFFICES ASSUME NEW s \in Threads
                 PROVE  /\ lock' = s => wait'[s] = "none"
                        /\ pc'[s] \in {"async", "roam", "roam2", "ended"} =>
                             wait'[s] = "none" /\ lock' # s
                        /\ pc'[s] \in {"conduct", "resize", "last_stop"} =>
                             lock' = s /\ count'.sync2 = 0
                        /\ pc'[s] = "resize" => task'.expected = count'.sync
                        /\ pc'[s] \in Within \union {"resize"} => my'[s].f = task'.f
    BY DEF LockInv
  <1>1. CASE Acquire(t)
    BY <1>t, <1>s, <1>l, <1>f, <1>1 DEF Acquire, Within
  <1>2. CASE i_am_ready(t)
    BY <1>t, <1>s, <1>l, <1>f, <1>2 DEF i_am_ready, Within
  <1>3. CASE enter_async(t)
    BY <1>t, <1>s, <1>l, <1>f, <1>3 DEF enter_async, Within
  <1>4. CASE ProcessMatch(t)
    BY <1>t, <1>s, <1>l, <1>f, <1>4 DEF ProcessMatch, Within
  <1>5. CASE leave_async(t)
    BY <1>t, <1>s, <1>l, <1>f, <1>5 DEF leave_async, Within
  <1>6. CASE enter_sync_zone(t)
    BY <1>t, <1>s, <1>l, <1>f, <1>6 DEF enter_sync_zone, Enters, MayLead, NoAdLeft, Within
  <1>7. CASE leave_sync_zone(t)
    BY <1>t, <1>s, <1>l, <1>f, <1>7 DEF leave_sync_zone, HandOver, Within
  <1>8. CASE Exit(t)
    BY <1>t, <1>s, <1>l, <1>f, <1>8 DEF Exit, Within
  <1>9. CASE post_work(t)
    BY <1>t, <1>s, <1>l, <1>f, <1>9 DEF post_work, Within
  <1>10. CASE barrier_resize_unlocked(t)
    BY <1>t, <1>s, <1>l, <1>f, <1>10 DEF barrier_resize_unlocked, Roaming, Within
  <1>11. CASE GetJob(t)
    BY <1>t, <1>s, <1>l, <1>f, <1>11 DEF GetJob, Roaming, Within
  <1>12. CASE DoShare(t)
    BY <1>t, <1>s, <1>l, <1>f, <1>12 DEF DoShare, Within
  <1>13. CASE barrier_wait(t)
    BY <1>t, <1>s, <1>l, <1>f, <1>13 DEF barrier_wait, Within
  <1>14. CASE LeaveBarrier(t)
    BY <1>t, <1>s, <1>l, <1>f, <1>14 DEF LeaveBarrier, Within
  <1>15. CASE DoSecondShare(t)
    BY <1>t, <1>s, <1>l, <1>f, <1>15 DEF DoSecondShare, Within
  <1>16. CASE leave_roaming(t)
    <2>1. pc' = [pc EXCEPT ![t] = pc'[t]] /\ UNCHANGED <<my, task>> /\ pc[t] = "leave_roaming"
      BY <1>t, <1>16 DEF leave_roaming
    <2>2. CASE my[t].leads /\ count.sync2 = 1
      BY <1>t, <1>s, <1>l, <1>16, <2>2 DEF leave_roaming, Within
    <2>3. CASE my[t].leads /\ count.sync2 # 1
      BY <1>t, <1>s, <1>l, <1>16, <2>3 DEF leave_roaming, Within
    <2>4. CASE ~my[t].leads
      <3>1. /\ pc' = [pc EXCEPT ![t] = "job"] /\ lock' = Nobody
            /\ wait' = [IF count.sync2 = 1 THEN Woken("w_sync2") ELSE wait EXCEPT ![t] = "w_job"]
        BY <1>16, <2>4 DEF leave_roaming
      <3>2. \A r \in Threads : wait[r] = "none" => (r # t => wait'[r] = "none")
        BY <1>t, <3>1
      <3>3. \A r \in Threads : r # t => pc[r] \notin {"conduct", "resize", "last_stop"}
        BY <1>l, <1>16 DEF leave_roaming
      <3> QED BY <1>t, <1>s, <1>l, <3>1, <3>2, <3>3, <2>1 DEF Within
    <2> QED BY <2>2, <2>3, <2>4
  <1>17. CASE PostWait(t)
    BY <1>t, <1>s, <1>l, <1>f, <1>17 DEF PostWait, Within
  <1>18. CASE post_work_stop(t)
    BY <1>t, <1>s, <1>l, <1>f, <1>18 DEF post_work_stop, Within
  <1> QED
    BY <1>1, <1>2, <1>3, <1>4, <1>5, <1>6, <1>7, <1>8, <1>9, <1>10, <1>11, <1>12,
       <1>13, <1>14, <1>15, <1>16, <1>17, <1>18 DEF Step

-------------------------------------------------------------------------------
(* No match is left behind.                                                *)

LEMMA MatchStep ==
  ASSUME IInv, NEW t \in Threads, Step(t)
  PROVE  MatchInv'
  <1> USE DEF At, Unlocked, Goto, GoOn, Broadcast, Sleep, Unlock, Relock
  <1> DEFINE Away == {"last_stop", "leave_last", "exit", "ended"}
  <1>t. /\ pc \in [Threads -> Labels]
        /\ jobs \in [league : Nat, own : [Threads -> Nat], found : 0 .. MaxJobs]
        /\ MaxJobs \in Nat
    BY TeamAssumption DEF IInv, TypeOK, TeamAssumption
  <1>l. /\ \A r \in Threads : jobs.own[r] > 0 => pc[r] \in Zone \ {"last_stop", "leave_last"}
        /\ jobs.league > 0 => \E r \in Threads : pc[r] \notin Away
    BY DEF IInv, MatchInv
  <1>g. SUFFICES /\ \A r \in Threads : jobs'.own[r] > 0 =>
                                        pc'[r] \in Zone \ {"last_stop", "leave_last"}
                 /\ jobs'.league > 0 => \E r \in Threads : pc'[r] \notin Away
    BY DEF MatchInv, Zone, Within
  <1>m. ASSUME NEW b \in Labels, pc' = [pc EXCEPT ![t] = b], jobs' = jobs,
               b \in Away => pc[t] \in Away \/ jobs.league = 0,
               jobs.own[t] = 0 \/ b \in Zone \ {"last_stop", "leave_last"}
        PROVE  /\ \A r \in Threads : jobs'.own[r] > 0 =>
                                        pc'[r] \in Zone \ {"last_stop", "leave_last"}
               /\ jobs'.league > 0 => \E r \in Threads : pc'[r] \notin Away
    <2>1. \A r \in Threads : r # t => pc'[r] = pc[r]
      BY <1>t, <1>m
    <2>2. pc'[t] = b
      BY <1>t, <1>m
    <2>3. ASSUME jobs.league > 0 PROVE \E r \in Threads : pc'[r] \notin Away
      <3>1. PICK r \in Threads : pc[r] \notin Away
        BY <1>l, <2>3
      <3>2. CASE r = t
        BY <1>m, <3>1, <3>2, <2>2, <2>3
      <3>3. CASE r # t
        BY <3>1, <3>3, <2>1
      <3> QED BY <3>2, <3>3
    <2> QED BY <1>t, <1>l, <1>m, <2>1, <2>2, <2>3
  <1>1. CASE Acquire(t)
    BY <1>t, <1>l, <1>m, <1>1 DEF Acquire, Zone, Within, Labels
  <1>2. CASE i_am_ready(t)
    BY <1>t, <1>l, <1>m, <1>2 DEF i_am_ready, Zone, Within, Labels
  <1>3. CASE enter_async(t)
    BY <1>t, <1>l, <1>m, <1>3 DEF enter_async, Zone, Within, Labels
  <1>4. CASE ProcessMatch(t)
    BY <1>t, <1>l, <1>m, <1>4 DEF ProcessMatch, Zone, Within, Labels
  <1>5. CASE leave_async(t)
    BY <1>t, <1>l, <1>m, <1>5 DEF leave_async, Zone, Within, Labels
  <1>6. CASE enter_sync_zone(t)
    <2>1. \E b \in {"exit", "last_stop", "conduct", "job"} : pc' = [pc EXCEPT ![t] = b]
      BY <1>6 DEF enter_sync_zone
    <2>2. PICK b \in {"exit", "last_stop", "conduct", "job"} : pc' = [pc EXCEPT ![t] = b]
      BY <2>1
    <2>3. pc[t] = "loop" /\ jobs' = jobs /\ jobs.league = 0
      BY <1>6 DEF enter_sync_zone
    <2>4. jobs.own[t] = 0
      BY <1>t, <1>l, <2>3 DEF Zone, Within
    <2> QED BY <1>m, <2>2, <2>3, <2>4 DEF Labels
  <1>7. CASE leave_sync_zone(t)
    BY <1>t, <1>l, <1>m, <1>7 DEF leave_sync_zone, HandOver, Zone, Within, Labels
  <1>8. CASE Exit(t)
    BY <1>t, <1>l, <1>m, <1>8 DEF Exit, Zone, Within, Labels
  <1>9. CASE post_work(t)
    BY <1>t, <1>l, <1>m, <1>9 DEF post_work, Zone, Within, Labels
  <1>10. CASE barrier_resize_unlocked(t)
    BY <1>t, <1>l, <1>m, <1>10 DEF barrier_resize_unlocked, Roaming, Zone, Within, Labels
  <1>11. CASE GetJob(t)
    BY <1>t, <1>l, <1>m, <1>11 DEF GetJob, Roaming, Zone, Within, Labels
  <1>12. CASE DoShare(t)
    BY <1>t, <1>l, <1>m, <1>12 DEF DoShare, Zone, Within, Labels
  <1>13. CASE barrier_wait(t)
    BY <1>t, <1>l, <1>m, <1>13 DEF barrier_wait, Zone, Within, Labels
  <1>14. CASE LeaveBarrier(t)
    BY <1>t, <1>l, <1>m, <1>14 DEF LeaveBarrier, Zone, Within, Labels
  <1>15. CASE DoSecondShare(t)
    BY <1>t, <1>l, <1>m, <1>15 DEF DoSecondShare, Zone, Within, Labels
  <1>16. CASE leave_roaming(t)
    BY <1>t, <1>l, <1>m, <1>16 DEF leave_roaming, Zone, Within, Labels
  <1>17. CASE PostWait(t)
    BY <1>t, <1>l, <1>m, <1>17 DEF PostWait, Zone, Within, Labels
  <1>18. CASE post_work_stop(t)
    BY <1>t, <1>l, <1>m, <1>18 DEF post_work_stop, Zone, Within, Labels
  <1> QED
    BY <1>1, <1>2, <1>3, <1>4, <1>5, <1>6, <1>7, <1>8, <1>9, <1>10, <1>11, <1>12,
       <1>13, <1>14, <1>15, <1>16, <1>17, <1>18 DEF Step

-------------------------------------------------------------------------------
(* The barrier.                                                            *)

LEMMA ComingFinite ==
  /\ Coming \subseteq Threads /\ IsFiniteSet(Coming)
  /\ Cardinality(Coming) \in Nat /\ Cardinality(In({"in_barrier"})) \in Nat
  <1>1. Coming \subseteq Threads
    BY DEF Coming
  <1>2. IsFiniteSet(Coming)
    BY <1>1, TeamAssumption, FS_Subset DEF TeamAssumption
  <1> QED BY <1>1, <1>2, FS_CardinalityType, InFinite

LEMMA NextEven ==
  ASSUME NEW n \in Nat
  PROVE  (n + 1) % 2 = 0 <=> n % 2 # 0
  OBVIOUS

(* The steps that leave the barrier alone call nobody to it.               *)
Uncalled ==
  /\ bar' = bar
  /\ \A r \in Threads :
       /\ pc'[r] = "in_barrier" <=> pc[r] = "in_barrier"
       /\ pc[r] = "in_barrier" => my'[r].event = my[r].event
       /\ \/ pc'[r] \in {"roam", "barrier"}
          \/ pc'[r] = "job" /\ wait'[r] # "w_job" /\ my'[r].index < task'.expected
          => \/ pc[r] \in {"roam", "barrier"}
             \/ pc[r] = "job" /\ wait[r] # "w_job" /\ my[r].index < task.expected
  /\ (\E r \in Threads : pc[r] = "resize") => \E r \in Threads : pc'[r] = "resize"

LEMMA UncalledComing ==
  ASSUME Uncalled
  PROVE  /\ Coming' \subseteq Coming /\ In({"in_barrier"})' = In({"in_barrier"})
         /\ In({"resize"})' = {} => In({"resize"}) = {}
  <1>1. Coming' \subseteq Coming
    BY DEF Uncalled, Coming, Called
  <1>2. In({"in_barrier"})' = In({"in_barrier"})
    BY DEF Uncalled, In
  <1>3. In({"resize"})' = {} => In({"resize"}) = {}
    BY DEF Uncalled, In
  <1> QED BY <1>1, <1>2, <1>3

LEMMA UncalledBar ==
  ASSUME TypeOK, BarInv, Uncalled
  PROVE  BarInv'
  <1>1. /\ Coming' \subseteq Coming /\ In({"in_barrier"})' = In({"in_barrier"})
        /\ In({"resize"})' = {} => In({"resize"}) = {}
    BY UncalledComing
  <1>2. Cardinality(Coming') <= Cardinality(Coming)
    BY <1>1, ComingFinite, FS_Subset
  <1>3. Cardinality(Coming') \in Nat /\ Cardinality(Coming) \in Nat
    BY <1>1, ComingFinite, FS_Subset, FS_CardinalityType
  <1>4. bar' = bar /\ (Even' <=> Even)
    BY DEF Uncalled, Even
  <1>5. \A r \in In({"in_barrier"})' : my'[r].event = my[r].event
    BY <1>1 DEF Uncalled, In
  <1>6. bar'.left + Cardinality(In({"in_barrier"})') = bar'.count
    BY <1>1, <1>4 DEF BarInv
  <1>7. \A r \in In({"in_barrier"})' :
          my'[r].event = IF Even' THEN bar'.event ELSE bar'.event - 1
    BY <1>1, <1>4, <1>5 DEF BarInv
  <1>8. In({"resize"})' = {} => Cardinality(Coming') <= bar'.left
    BY <1>1, <1>2, <1>3, <1>4 DEF BarInv, TypeOK
  <1>9. ~Even' => Coming' = {} /\ In({"in_barrier"})' # {}
    BY <1>1, <1>4 DEF BarInv
  <1> QED BY <1>6, <1>7, <1>8, <1>9 DEF BarInv

(* Which steps these are.                                                  *)
LEMMA UncalledSteps ==
  ASSUME IInv, NEW t \in Threads,
         \/ Acquire(t) \/ i_am_ready(t) \/ enter_async(t) \/ ProcessMatch(t)
         \/ leave_async(t) \/ enter_sync_zone(t) \/ leave_sync_zone(t) \/ Exit(t)
         \/ GetJob(t) \/ DoShare(t) \/ DoSecondShare(t)
         \/ leave_roaming(t) \/ PostWait(t) \/ post_work_stop(t)
  PROVE  Uncalled
  <1> USE DEF At, Unlocked, Goto, GoOn, Broadcast, Sleep, Unlock, Relock, Woken
  <1>t. /\ pc \in [Threads -> Labels] /\ wait \in [Threads -> Conditions]
        /\ my \in [Threads -> [index : 0 .. Size - 1, event : Nat, f : Kinds,
                               leads : BOOLEAN, to_post : Seq(Kinds)]]
        /\ task \in [expected : 0 .. Size, f : Kinds] /\ Size \in Nat
    BY SizeType DEF IInv, TypeOK
  <1>e. \A r \in Threads : my[r].index \in Nat
    BY <1>t
  <1>q. SUFFICES
          /\ bar' = bar
          /\ \A r \in Threads :
               /\ pc'[r] = "in_barrier" <=> pc[r] = "in_barrier"
               /\ pc[r] = "in_barrier" => my'[r].event = my[r].event
               /\ \/ pc'[r] \in {"roam", "barrier"}
                  \/ pc'[r] = "job" /\ wait'[r] # "w_job" /\ my'[r].index < task'.expected
                  => \/ pc[r] \in {"roam", "barrier"}
                     \/ pc[r] = "job" /\ wait[r] # "w_job" /\ my[r].index < task.expected
          /\ (\E r \in Threads : pc[r] = "resize") => \E r \in Threads : pc'[r] = "resize"
    BY DEF Uncalled
  <1>1. CASE Acquire(t)
    BY <1>t, <1>e, <1>1 DEF Acquire
  <1>2. CASE i_am_ready(t)
    BY <1>t, <1>e, <1>2 DEF i_am_ready
  <1>3. CASE enter_async(t)
    BY <1>t, <1>e, <1>3 DEF enter_async
  <1>4. CASE ProcessMatch(t)
    BY <1>t, <1>e, <1>4 DEF ProcessMatch
  <1>5. CASE leave_async(t)
    BY <1>t, <1>e, <1>5 DEF leave_async
  <1>6. CASE enter_sync_zone(t)
    BY <1>t, <1>e, <1>6 DEF enter_sync_zone, Enters, MayLead, NoAdLeft
  <1>7. CASE leave_sync_zone(t)
    BY <1>t, <1>e, <1>7 DEF leave_sync_zone, HandOver
  <1>8. CASE Exit(t)
    BY <1>t, <1>e, <1>8 DEF Exit
  <1>11. CASE GetJob(t)
    BY <1>t, <1>e, <1>11 DEF GetJob, Roaming
  <1>12. CASE DoShare(t)
    BY <1>t, <1>e, <1>12 DEF DoShare
  <1>15. CASE DoSecondShare(t)
    BY <1>t, <1>e, <1>15 DEF DoSecondShare
  <1>16. CASE leave_roaming(t)
    BY <1>t, <1>e, <1>16 DEF leave_roaming
  <1>17. CASE PostWait(t)
    BY <1>t, <1>e, <1>17 DEF PostWait
  <1>18. CASE post_work_stop(t)
    BY <1>t, <1>e, <1>18 DEF post_work_stop
  <1> QED
    BY <1>1, <1>2, <1>3, <1>4, <1>5, <1>6, <1>7, <1>8, <1>11, <1>12, <1>15, <1>16, <1>17, <1>18

(* All who may come to the barrier are in the sync zone.                   *)
LEMMA ComingInZone == Coming \subseteq In(Zone)
  BY DEF Coming, Called, In, Zone, Within

(* The barrier made for the next task has a place for each.                *)
LEMMA ResizeBar ==
  ASSUME IInv, CountInv', NEW t \in Threads, barrier_resize_unlocked(t)
  PROVE  /\ BarInv' /\ Even /\ bar' = Resized /\ count' = Roaming
         /\ In({"in_barrier"}) = {} /\ In({"in_barrier"})' = {}
         /\ pc' = [pc EXCEPT ![t] = "roam"] /\ lock' = Nobody /\ wait' = Woken("w_job")
         /\ task' = task /\ my' = my /\ shares' = shares
         /\ pc[t] = "resize" /\ count.sync2 = 0 /\ task.expected = count.sync
         /\ task.f = my[t].f
  <1>t. /\ pc \in [Threads -> Labels] /\ pc[t] = "resize"
        /\ count \in [ready : 0 .. Size, sync : 0 .. Size, async : 0 .. Size,
                      sync2 : 0 .. Size, roaming : 0 .. Size]
        /\ task \in [expected : 0 .. Size, f : Kinds] /\ Size \in Nat
        /\ bar \in [left : 0 .. Size, count : 0 .. Size, event : Nat]
    BY SizeType DEF IInv, TypeOK, barrier_resize_unlocked, At
  <1>1. count.sync2 = 0 /\ task.expected = count.sync /\ task.f = my[t].f
    BY <1>t DEF IInv, LockInv
  <1>2. Even /\ In({"in_barrier"}) = {}
    BY <1>1, BarrierFree DEF IInv
  <1>3. /\ bar' = Resized /\ count' = Roaming /\ pc' = [pc EXCEPT ![t] = "roam"]
        /\ lock' = Nobody /\ wait' = Woken("w_job") /\ task' = task /\ my' = my
        /\ shares' = shares
    BY <1>2 DEF barrier_resize_unlocked, Even
  <1>4. In({"in_barrier"})' = {}
    BY <1>t, <1>2, <1>3 DEF In
  <1>5. Even' /\ bar'.left = task.expected /\ bar'.count = task.expected
    BY <1>t, <1>2, <1>3 DEF Even, Resized
  <1>6. Cardinality(In({"in_barrier"})') = 0
    BY <1>4, FS_EmptySet
  <1>7. Coming' \subseteq In(Zone)'
    BY DEF Coming, Called, In, Zone, Within
  <1>8. In(Zone)' \subseteq Threads /\ IsFiniteSet(In(Zone)')
    <2>1. In(Zone)' \subseteq Threads
      BY DEF In
    <2> QED BY <2>1, TeamAssumption, FS_Subset DEF TeamAssumption
  <1>9. Cardinality(Coming') <= Cardinality(In(Zone)')
    BY <1>7, <1>8, FS_Subset
  <1>10. Cardinality(In(Zone)') <= count.sync
    BY <1>t, <1>3 DEF CountInv, Roaming, Zone, Within
  <1>11. Cardinality(Coming') \in Nat /\ Cardinality(In(Zone)') \in Nat
    BY <1>7, <1>8, FS_Subset, FS_CardinalityType
  <1>12. Cardinality(Coming') <= bar'.left
    BY <1>t, <1>1, <1>5, <1>9, <1>10, <1>11
  <1>13. bar'.left + Cardinality(In({"in_barrier"})') = bar'.count
    BY <1>t, <1>5, <1>6
  <1>14. BarInv'
    BY <1>4, <1>5, <1>12, <1>13 DEF BarInv
  <1> QED BY <1>t, <1>1, <1>2, <1>3, <1>4, <1>14

(* What one who comes to the barrier meets.                                *)
LEMMA AtBarrier ==
  ASSUME IInv, NEW t \in Threads, pc[t] = "barrier"
  PROVE  /\ Even /\ t \in Coming /\ In({"resize"}) = {}
         /\ Cardinality(Coming) <= bar.left /\ bar.left >= 1
         /\ bar.left = 1 => Coming = {t}
  <1>1. t \in Coming
    BY DEF Coming
  <1>2. Even
    BY <1>1 DEF IInv, BarInv
  <1>3. count.sync2 # 0
    BY NobodyWithin DEF IInv, Within
  <1>4. In({"resize"}) = {}
    BY <1>3 DEF IInv, LockInv, In
  <1>5. Cardinality(Coming) <= bar.left /\ bar.left \in Nat
    BY <1>4 DEF IInv, BarInv, TypeOK
  <1>6. Cardinality(Coming \ {t}) = Cardinality(Coming) - 1 /\ IsFiniteSet(Coming \ {t})
    BY <1>1, ComingFinite, FS_RemoveElement
  <1>7. Cardinality(Coming \ {t}) \in Nat /\ Cardinality(Coming) \in Nat
    BY <1>6, ComingFinite, FS_CardinalityType
  <1>8. ASSUME bar.left = 1 PROVE Coming = {t}
    <2>1. Cardinality(Coming \ {t}) = 0
      BY <1>5, <1>6, <1>7, <1>8
    <2>2. Coming \ {t} = {}
      BY <1>6, <2>1, FS_EmptySet
    <2> QED BY <1>1, <2>2
  <1> QED BY <1>1, <1>2, <1>4, <1>5, <1>6, <1>7, <1>8


(* barrier_wait(): one who is not the last goes to sleep in the barrier.   *)
LEMMA ArrivesEarly ==
  ASSUME IInv, NEW t \in Threads, barrier_wait(t), bar.left # 1
  PROVE  /\ bar.left >= 2 /\ bar' = OneLess(bar)
         /\ pc' = [pc EXCEPT ![t] = "in_barrier"] /\ pc[t] = "barrier"
         /\ my' = [my EXCEPT ![t].event = bar.event] /\ wait' = [wait EXCEPT ![t] = "cv"]
         /\ UNCHANGED <<count, task, shares>>
         /\ Coming' = Coming \ {t} /\ In({"in_barrier"})' = In({"in_barrier"}) \union {t}
         /\ In({"resize"})' = {} /\ t \notin In({"in_barrier"})
  <1>t. /\ pc \in [Threads -> Labels] /\ pc[t] = "barrier"
        /\ wait \in [Threads -> Conditions]
        /\ my \in [Threads -> [index : 0 .. Size - 1, event : Nat, f : Kinds,
                               leads : BOOLEAN, to_post : Seq(Kinds)]]
        /\ bar.left \in Nat
    BY DEF IInv, TypeOK, barrier_wait, At
  <1>1. /\ Even /\ t \in Coming /\ In({"resize"}) = {}
        /\ Cardinality(Coming) <= bar.left /\ bar.left >= 1
        /\ bar.left = 1 => Coming = {t}
    BY <1>t, AtBarrier
  <1>2. /\ bar' = OneLess(bar) /\ my' = [my EXCEPT ![t].event = bar.event]
        /\ pc' = [pc EXCEPT ![t] = "in_barrier"] /\ wait' = [wait EXCEPT ![t] = "cv"]
        /\ UNCHANGED <<count, task, shares>>
    BY <1>1 DEF barrier_wait, Sleep, LastToArrive, Even
  <1>3. \A r \in Threads : r # t => /\ pc'[r] = pc[r] /\ wait'[r] = wait[r]
                                    /\ my'[r].index = my[r].index
    BY <1>t, <1>2
  <1>4. pc'[t] = "in_barrier"
    BY <1>t, <1>2
  <1>5. Coming' = Coming \ {t}
    BY <1>2, <1>3, <1>4 DEF Coming, Called
  <1>6. /\ In({"in_barrier"})' = In({"in_barrier"}) \union {t}
        /\ In({"resize"})' = {} /\ t \notin In({"in_barrier"})
    BY <1>t, <1>1, <1>3, <1>4 DEF In
  <1> QED BY <1>t, <1>1, <1>2, <1>5, <1>6

(* barrier_wait(): the last one opens the barrier and is the first to      *)
(* leave it.                                                               *)
LEMMA ArrivesLast ==
  ASSUME IInv, NEW t \in Threads, barrier_wait(t), bar.left = 1
  PROVE  /\ bar'.left = 1 /\ bar'.count = bar.count
         /\ bar'.event = IF bar.count = 1 THEN bar.event + 2 ELSE bar.event + 1
         /\ pc' = [pc EXCEPT ![t] = "roam2"] /\ pc[t] = "barrier"
         /\ my' = my /\ wait' = Woken("cv")
         /\ UNCHANGED <<count, task, shares>>
         /\ Coming = {t} /\ Coming' = {} /\ In({"in_barrier"})' = In({"in_barrier"})
         /\ In({"resize"})' = {} /\ t \notin In({"in_barrier"})
  <1>t. /\ pc \in [Threads -> Labels] /\ pc[t] = "barrier"
        /\ wait \in [Threads -> Conditions]
        /\ bar \in [left : 0 .. Size, count : 0 .. Size, event : Nat] /\ Size \in Nat
    BY SizeType DEF IInv, TypeOK, barrier_wait, At
  <1>1. /\ Even /\ t \in Coming /\ In({"resize"}) = {} /\ Coming = {t}
    BY <1>t, AtBarrier
  <1>2. /\ bar' = OneOut([OneLess(bar) EXCEPT !.event = @ + 1])
        /\ pc' = [pc EXCEPT ![t] = "roam2"] /\ wait' = Woken("cv") /\ my' = my
        /\ UNCHANGED <<count, task, shares>>
    BY <1>1 DEF barrier_wait, Sleep, LastToArrive, Even
  <1>3. \A r \in Threads : r # t => pc'[r] = pc[r] /\ (wait'[r] # "w_job" => wait[r] # "w_job")
    BY <1>t, <1>2 DEF Woken
  <1>4. pc'[t] = "roam2"
    BY <1>t, <1>2
  <1>5. Coming' = {}
    BY <1>1, <1>2, <1>3, <1>4 DEF Coming, Called
  <1>6. /\ In({"in_barrier"})' = In({"in_barrier"})
        /\ In({"resize"})' = {} /\ t \notin In({"in_barrier"})
    BY <1>t, <1>1, <1>3, <1>4 DEF In
  <1>7. /\ bar'.left = 1 /\ bar'.count = bar.count
        /\ bar'.event = IF bar.count = 1 THEN bar.event + 2 ELSE bar.event + 1
    BY <1>t, <1>2 DEF OneOut, OneLess
  <1> QED BY <1>t, <1>1, <1>2, <1>5, <1>6, <1>7

(* LeaveBarrier: while the barrier is shut it goes on sleeping.            *)
LEMMA StaysInside ==
  ASSUME IInv, NEW t \in Threads, LeaveBarrier(t), Even
  PROVE  Uncalled /\ pc' = pc /\ UNCHANGED <<count, my, task, shares>> /\ lock' = Nobody
  <1>t. /\ pc \in [Threads -> Labels] /\ pc[t] = "in_barrier" /\ t \in In({"in_barrier"})
        /\ wait \in [Threads -> Conditions]
    BY DEF IInv, TypeOK, LeaveBarrier, At, In
  <1>1. my[t].event = bar.event
    BY <1>t DEF IInv, BarInv
  <1>2. /\ bar' = bar /\ pc' = [pc EXCEPT ![t] = "in_barrier"] /\ wait' = [wait EXCEPT ![t] = "cv"]
        /\ UNCHANGED <<count, my, task, shares>> /\ lock' = Nobody
    BY <1>1 DEF LeaveBarrier, Sleep
  <1>3. pc' = pc
    BY <1>t, <1>2
  <1> QED BY <1>t, <1>2, <1>3 DEF Uncalled

(* LeaveBarrier: once it is open it goes.                                  *)
LEMMA GoesOut ==
  ASSUME IInv, NEW t \in Threads, LeaveBarrier(t), ~Even
  PROVE  /\ bar'.left = bar.left + 1 /\ bar'.count = bar.count
         /\ bar'.event = IF bar.left + 1 = bar.count THEN bar.event + 1 ELSE bar.event
         /\ pc' = [pc EXCEPT ![t] = "roam2"] /\ pc[t] = "in_barrier"
         /\ UNCHANGED <<count, my, task, shares>>
         /\ Coming = {} /\ Coming' = {} /\ In({"in_barrier"})' = In({"in_barrier"}) \ {t}
         /\ In({"resize"})' = {} /\ t \in In({"in_barrier"})
  <1>t. /\ pc \in [Threads -> Labels] /\ pc[t] = "in_barrier" /\ t \in In({"in_barrier"})
        /\ wait \in [Threads -> Conditions]
        /\ bar \in [left : 0 .. Size, count : 0 .. Size, event : Nat] /\ Size \in Nat
    BY SizeType DEF IInv, TypeOK, LeaveBarrier, At, In
  <1>1. my[t].event = bar.event - 1 /\ Coming = {}
    BY <1>t DEF IInv, BarInv
  <1>2. count.sync2 # 0
    BY <1>t, NobodyWithin DEF IInv, Within
  <1>3. In({"resize"}) = {}
    BY <1>2 DEF IInv, LockInv, In
  <1>4. /\ bar' = OneOut(bar) /\ pc' = [pc EXCEPT ![t] = "roam2"]
        /\ wait' = wait \/ wait' = Woken("cv")
        /\ UNCHANGED <<count, my, task, shares>>
    BY <1>t, <1>1 DEF LeaveBarrier
  <1>5. \A r \in Threads : r # t => pc'[r] = pc[r] /\ (wait'[r] # "w_job" => wait[r] # "w_job")
    BY <1>t, <1>4 DEF Woken
  <1>6. pc'[t] = "roam2"
    BY <1>t, <1>4
  <1>7. Coming' = {}
    BY <1>1, <1>4, <1>5, <1>6 DEF Coming, Called
  <1>8. In({"in_barrier"})' = In({"in_barrier"}) \ {t} /\ In({"resize"})' = {}
    BY <1>t, <1>3, <1>5, <1>6 DEF In
  <1>9. /\ bar'.left = bar.left + 1 /\ bar'.count = bar.count
        /\ bar'.event = IF bar.left + 1 = bar.count THEN bar.event + 1 ELSE bar.event
    BY <1>t, <1>4 DEF OneOut
  <1> QED BY <1>t, <1>1, <1>4, <1>7, <1>8, <1>9


(* The barrier has a place for each who may come after any step.           *)
LEMMA BarStep ==
  ASSUME IInv, NEW t \in Threads, Step(t)
  PROVE  BarInv'
  <1>t. /\ bar \in [left : 0 .. Size, count : 0 .. Size, event : Nat] /\ Size \in Nat
        /\ pc \in [Threads -> Labels]
        /\ my \in [Threads -> [index : 0 .. Size - 1, event : Nat, f : Kinds,
                               leads : BOOLEAN, to_post : Seq(Kinds)]]
    BY SizeType DEF IInv, TypeOK
  <1>b. /\ bar.left + Cardinality(In({"in_barrier"})) = bar.count
        /\ \A r \in In({"in_barrier"}) :
             my[r].event = IF Even THEN bar.event ELSE bar.event - 1
        /\ In({"resize"}) = {} => Cardinality(Coming) <= bar.left
        /\ ~Even => Coming = {} /\ In({"in_barrier"}) # {}
    BY DEF IInv, BarInv
  <1>c. /\ IsFiniteSet(Coming) /\ Cardinality(Coming) \in Nat
        /\ IsFiniteSet(In({"in_barrier"})) /\ Cardinality(In({"in_barrier"})) \in Nat
    BY ComingFinite, InFinite
  <1>u. CASE Uncalled
    BY <1>u, UncalledBar DEF IInv
  <1>1. CASE post_work(t)
    <2>1. /\ pc[t] = "conduct" /\ pc' = [pc EXCEPT ![t] = "resize"] /\ bar' = bar
      BY <1>1 DEF post_work, At, GoOn, Goto
    <2>2. count.sync2 = 0
      BY <2>1 DEF IInv, LockInv
    <2>3. Even /\ In({"in_barrier"}) = {} /\ bar.left = bar.count
      BY <2>2, BarrierFree DEF IInv
    <2>4. In({"in_barrier"})' = {} /\ In({"resize"})' # {}
      BY <1>t, <2>1, <2>3 DEF In
    <2>5. Even'
      BY <2>1, <2>3 DEF Even
    <2>6. Cardinality(In({"in_barrier"})') = 0
      BY <2>4, FS_EmptySet
    <2> QED BY <1>t, <2>1, <2>3, <2>4, <2>5, <2>6 DEF BarInv
  <1>2. CASE barrier_resize_unlocked(t)
    BY <1>2, CountStep, ResizeBar
  <1>3. CASE barrier_wait(t) /\ bar.left # 1
    <2>1. /\ bar.left >= 2 /\ bar' = OneLess(bar)
          /\ my' = [my EXCEPT ![t].event = bar.event]
          /\ Coming' = Coming \ {t} /\ In({"in_barrier"})' = In({"in_barrier"}) \union {t}
          /\ t \notin In({"in_barrier"}) /\ pc[t] = "barrier"
      BY <1>3, ArrivesEarly
    <2>2. /\ Even /\ t \in Coming /\ Cardinality(Coming) <= bar.left
      BY <2>1, AtBarrier
    <2>3. Cardinality(Coming') = Cardinality(Coming) - 1
      BY <1>c, <2>1, <2>2, FS_RemoveElement
    <2>4. Cardinality(In({"in_barrier"})') = Cardinality(In({"in_barrier"})) + 1
      BY <1>c, <2>1, FS_AddElement
    <2>5. Even' /\ bar'.left = bar.left - 1 /\ bar'.count = bar.count /\ bar'.event = bar.event
      BY <1>t, <2>1, <2>2 DEF Even, OneLess
    <2>6. \A r \in In({"in_barrier"})' : my'[r].event = bar'.event
      BY <1>t, <1>b, <2>1, <2>2, <2>5
    <2>7. Cardinality(Coming') <= bar'.left
      BY <1>t, <1>c, <2>2, <2>3, <2>5
    <2>8. bar'.left + Cardinality(In({"in_barrier"})') = bar'.count
      BY <1>t, <1>b, <1>c, <2>4, <2>5
    <2> QED BY <2>5, <2>6, <2>7, <2>8 DEF BarInv
  <1>4. CASE barrier_wait(t) /\ bar.left = 1
    <2>1. /\ bar'.left = 1 /\ bar'.count = bar.count
          /\ bar'.event = IF bar.count = 1 THEN bar.event + 2 ELSE bar.event + 1
          /\ my' = my /\ Coming' = {} /\ In({"in_barrier"})' = In({"in_barrier"})
          /\ pc[t] = "barrier"
      BY <1>4, ArrivesLast
    <2>2. Even
      BY <2>1, AtBarrier
    <2>3. Cardinality(In({"in_barrier"})) = bar.count - 1
      BY <1>t, <1>b, <1>c, <1>4
    <2>4. Cardinality(Coming') = 0
      BY <2>1, FS_EmptySet
    <2>5. CASE bar.count = 1
      <3>1. In({"in_barrier"}) = {}
        BY <1>c, <2>3, <2>5, FS_EmptySet
      <3>2. Even'
        BY <1>t, <2>1, <2>2, <2>5 DEF Even
      <3> QED BY <1>t, <2>1, <2>3, <2>4, <2>5, <3>1, <3>2 DEF BarInv
    <2>6. CASE bar.count # 1
      <3>1. Cardinality(In({"in_barrier"})) # 0
        BY <1>t, <2>3, <2>6
      <3>2. In({"in_barrier"}) # {}
        BY <3>1, FS_EmptySet
      <3>3. bar'.event = bar.event + 1 /\ bar.event \in Nat
        BY <1>t, <2>1, <2>6
      <3>4. ~Even'
        BY <2>2, <3>3, NextEven DEF Even
      <3>5. \A r \in In({"in_barrier"})' : my'[r].event = bar'.event - 1
        BY <1>b, <2>1, <2>2, <3>3
      <3>6. bar'.left + Cardinality(In({"in_barrier"})') = bar'.count
        BY <1>t, <2>1, <2>3
      <3>7. Cardinality(Coming') <= bar'.left
        BY <2>1, <2>4
      <3> QED BY <2>1, <3>2, <3>4, <3>5, <3>6, <3>7 DEF BarInv
    <2> QED BY <2>5, <2>6
  <1>5. CASE LeaveBarrier(t) /\ Even
    BY <1>5, <1>u, StaysInside
  <1>6. CASE LeaveBarrier(t) /\ ~Even
    <2>1. /\ bar'.left = bar.left + 1 /\ bar'.count = bar.count
          /\ bar'.event = IF bar.left + 1 = bar.count THEN bar.event + 1 ELSE bar.event
          /\ my' = my /\ Coming' = {} /\ In({"in_barrier"})' = In({"in_barrier"}) \ {t}
          /\ t \in In({"in_barrier"})
      BY <1>6, GoesOut
    <2>2. Cardinality(In({"in_barrier"})') = Cardinality(In({"in_barrier"})) - 1
      BY <1>c, <2>1, FS_RemoveElement
    <2>3. Cardinality(Coming') = 0
      BY <2>1, FS_EmptySet
    <2>4. bar'.left + Cardinality(In({"in_barrier"})') = bar'.count
      BY <1>t, <1>b, <1>c, <2>1, <2>2
    <2>5. Cardinality(Coming') <= bar'.left
      BY <1>t, <2>1, <2>3
    <2>6. IsFiniteSet(In({"in_barrier"})') /\ bar'.left \in Nat
      BY <1>t, <1>c, <2>1, FS_RemoveElement
    <2>7. CASE bar.left + 1 = bar.count
      <3>1. Cardinality(In({"in_barrier"})') = 0
        BY <1>t, <1>b, <1>c, <2>2, <2>7
      <3>2. In({"in_barrier"})' = {}
        BY <2>6, <3>1, FS_EmptySet
      <3>3. bar'.event = bar.event + 1 /\ bar.event \in Nat
        BY <1>t, <2>1, <2>7
      <3>4. Even'
        BY <1>6, <3>3, NextEven DEF Even
      <3> QED BY <2>4, <2>5, <3>2, <3>4 DEF BarInv
    <2>8. CASE bar.left + 1 # bar.count
      <3>1. Cardinality(In({"in_barrier"})') # 0
        BY <1>t, <1>b, <1>c, <2>2, <2>8
      <3>2. In({"in_barrier"})' # {}
        BY <3>1, FS_EmptySet
      <3>3. bar'.event = bar.event
        BY <2>1, <2>8
      <3>4. ~Even'
        BY <1>6, <3>3 DEF Even
      <3>5. \A r \in In({"in_barrier"})' : my'[r].event = bar'.event - 1
        BY <1>b, <1>6, <2>1, <3>3
      <3> QED BY <2>1, <2>4, <2>5, <3>2, <3>4, <3>5 DEF BarInv
    <2> QED BY <2>7, <2>8
  <1> QED
    BY <1>u, <1>1, <1>2, <1>3, <1>4, <1>5, <1>6, UncalledSteps DEF Step


-------------------------------------------------------------------------------
(* Types.                                                                  *)

LEMMA CountRange ==
  ASSUME CountInv', count' \in [ready : Int, sync : Int, async : Int, sync2 : Int, roaming : Int]
  PROVE  count' \in [ready : 0 .. Size, sync : 0 .. Size, async : 0 .. Size,
                     sync2 : 0 .. Size, roaming : 0 .. Size]
  <1>1. ASSUME NEW L
        PROVE  Cardinality({r \in Threads : pc'[r] \in L}) \in 0 .. Size
    <2>1. {r \in Threads : pc'[r] \in L} \subseteq Threads
      OBVIOUS
    <2>2. /\ IsFiniteSet({r \in Threads : pc'[r] \in L})
          /\ Cardinality({r \in Threads : pc'[r] \in L}) <= Cardinality(Threads)
      BY <2>1, TeamAssumption, FS_Subset DEF TeamAssumption
    <2>3. /\ Cardinality({r \in Threads : pc'[r] \in L}) \in Nat
          /\ Cardinality(Threads) \in Nat
      BY <2>2, TeamAssumption, FS_CardinalityType DEF TeamAssumption
    <2> QED BY <2>2, <2>3 DEF Size
  <1>2. /\ Cardinality(In({"loop"})') \in 0 .. Size /\ Cardinality(In(Zone)') \in 0 .. Size
        /\ Cardinality(In({"async", "leave_async"})') \in 0 .. Size
        /\ Cardinality(In(Within)') \in 0 .. Size /\ Cardinality(In(Joined)') \in 0 .. Size
    BY <1>1 DEF In
  <1>3. /\ Cardinality(In({"loop"})') <= count'.ready
        /\ Cardinality(In(Zone)') <= count'.sync
        /\ count'.async = Cardinality(In({"async", "leave_async"})')
        /\ count'.sync2 = Cardinality(In(Within)') /\ count'.roaming = count'.sync2
        /\ count'.ready + count'.sync + count'.async = Cardinality(In(Joined)')
    BY DEF CountInv, Zone, Within, Joined, Labels
  <1>4. /\ count'.ready \in Int /\ count'.sync \in Int /\ count'.async \in Int
        /\ count'.sync2 \in Int /\ count'.roaming \in Int
    OBVIOUS
  <1>5. /\ count'.ready \in 0 .. Size /\ count'.sync \in 0 .. Size
        /\ count'.async \in 0 .. Size /\ count'.sync2 \in 0 .. Size
        /\ count'.roaming \in 0 .. Size
    BY <1>2, <1>3, <1>4, SizeType
  <1> QED BY <1>5

(* A thread that enters the zone finds a place in it.                      *)
LEMMA PlaceInZone ==
  ASSUME IInv, NEW t \in Threads, pc[t] = "loop"
  PROVE  count.sync \in 0 .. Size - 1 /\ count.ready >= 1
  <1>1. IsFiniteSet(In({"loop"})) /\ t \in In({"loop"})
    BY InFinite DEF In
  <1>2. Cardinality(In({"loop"})) # 0
    BY <1>1, FS_EmptySet
  <1>3. /\ Cardinality(In({"loop"})) \in 0 .. Size /\ Cardinality(In(Joined)) \in 0 .. Size
        /\ Size \in Nat
    BY Counts, SizeType
  <1>4. /\ Cardinality(In({"loop"})) <= count.ready
        /\ count.ready + count.sync + count.async = Cardinality(In(Joined))
        /\ count.ready \in Nat /\ count.sync \in Nat /\ count.async \in Nat
    BY <1>3 DEF IInv, TypeOK, CountInv
  <1> QED BY <1>2, <1>3, <1>4

LEMMA BarType ==
  ASSUME IInv, NEW t \in Threads, Step(t)
  PROVE  bar' \in [left : 0 .. Size, count : 0 .. Size, event : Nat]
  <1>t. /\ bar \in [left : 0 .. Size, count : 0 .. Size, event : Nat] /\ Size \in Nat
        /\ task \in [expected : 0 .. Size, f : Kinds]
    BY SizeType DEF IInv, TypeOK
  <1>c. /\ bar.left + Cardinality(In({"in_barrier"})) = bar.count
        /\ Cardinality(In({"in_barrier"})) \in Nat /\ IsFiniteSet(In({"in_barrier"}))
    BY InFinite DEF IInv, BarInv
  <1>0. CASE bar' = bar
    BY <1>t, <1>0
  <1>1. CASE Uncalled \/ post_work(t)
    BY <1>0, <1>1 DEF Uncalled, post_work
  <1>2. CASE barrier_resize_unlocked(t)
    <2>1. bar' = Resized
      BY <1>2, CountStep, ResizeBar
    <2> QED BY <1>t, <2>1 DEF Resized
  <1>3. CASE barrier_wait(t) /\ bar.left # 1
    <2>1. bar.left >= 2 /\ bar' = OneLess(bar)
      BY <1>3, ArrivesEarly
    <2> QED BY <1>t, <2>1 DEF OneLess
  <1>4. CASE barrier_wait(t) /\ bar.left = 1
    <2>1. /\ bar'.left = 1 /\ bar'.count = bar.count
          /\ bar'.event = IF bar.count = 1 THEN bar.event + 2 ELSE bar.event + 1
      BY <1>4, ArrivesLast
    <2>2. bar' = bar \/ bar' = OneLess(bar) \/ bar' = OneOut([OneLess(bar) EXCEPT !.event = @ + 1])
      BY <1>4 DEF barrier_wait, Sleep
    <2>3. DOMAIN bar' = {"left", "count", "event"}
      BY <1>t, <2>2 DEF OneOut, OneLess
    <2>4. bar' = [left |-> bar'.left, count |-> bar'.count, event |-> bar'.event]
      BY <1>t, <2>2 DEF OneOut, OneLess
    <2>5. 1 \in 0 .. Size
      BY <1>t, <1>4
    <2> QED BY <1>t, <2>1, <2>4, <2>5
  <1>5. CASE LeaveBarrier(t) /\ Even
    BY <1>0, <1>5, StaysInside DEF Uncalled
  <1>6. CASE LeaveBarrier(t) /\ ~Even
    <2>1. t \in In({"in_barrier"}) /\ bar.left + 1 <= bar.count
      <3>1. t \in In({"in_barrier"})
        BY <1>6, GoesOut
      <3>2. Cardinality(In({"in_barrier"})) # 0
        BY <1>c, <3>1, FS_EmptySet
      <3> QED BY <1>t, <1>c, <3>1, <3>2
    <2>2. CASE bar' = OneOut(bar)
      <3>1. bar' = [left |-> bar.left + 1, count |-> bar.count,
                    event |-> IF bar.left + 1 = bar.count THEN bar.event + 1 ELSE bar.event]
        BY <1>t, <2>2 DEF OneOut
      <3>2. bar.left + 1 \in 0 .. Size /\ bar.count \in 0 .. Size
        BY <1>t, <2>1
      <3>3. bar.event \in Nat /\ bar.event + 1 \in Nat
        BY <1>t
      <3> QED BY <3>1, <3>2, <3>3
    <2> QED BY <1>0, <1>6, <2>2 DEF LeaveBarrier, Sleep
  <1> QED
    BY <1>1, <1>2, <1>3, <1>4, <1>5, <1>6, UncalledSteps DEF Step

LEMMA TypeStep ==
  ASSUME IInv, NEW t \in Threads, Step(t)
  PROVE  TypeOK'
  <1> USE DEF At, Unlocked, Goto, GoOn, Broadcast, Sleep, Unlock, Relock
  <1>tp. /\ lock \in Threads \union {Nobody} /\ pc \in [Threads -> Labels]
         /\ wait \in [Threads -> Conditions]
    BY DEF IInv, TypeOK
  <1>tc. count \in [ready : 0 .. Size, sync : 0 .. Size, async : 0 .. Size,
                     sync2 : 0 .. Size, roaming : 0 .. Size]
    BY DEF IInv, TypeOK
  <1>tm. my \in [Threads -> [index : 0 .. Size - 1, event : Nat, f : Kinds,
                             leads : BOOLEAN, to_post : Seq(Kinds)]]
    BY DEF IInv, TypeOK
  <1>td. done \in BOOLEAN /\ idx \in 0 .. MaxAd
    BY DEF IInv, TypeOK
  <1>tk. task \in [expected : 0 .. Size, f : Kinds]
    BY DEF IInv, TypeOK
  <1>tj. jobs \in [league : Nat, own : [Threads -> Nat], found : 0 .. MaxJobs]
    BY DEF IInv, TypeOK
  <1>th. shares \in [first : SUBSET Threads, second : SUBSET Threads, of : SUBSET Threads]
    BY DEF IInv, TypeOK
  <1>s. Size \in Nat /\ MaxAd \in Nat /\ MaxJobs \in Nat /\ Conducts \subseteq Seq(Kinds)
    BY SizeType, TeamAssumption DEF TeamAssumption
  <1>w. ASSUME NEW c PROVE Woken(c) \in [Threads -> Conditions]
    BY <1>tp DEF Woken, Conditions
  <1>b. bar' \in [left : 0 .. Size, count : 0 .. Size, event : Nat]
    BY BarType
  <1>c. count' \in [ready : 0 .. Size, sync : 0 .. Size, async : 0 .. Size,
                    sync2 : 0 .. Size, roaming : 0 .. Size]
    <2>1. count' \in [ready : Int, sync : Int, async : Int, sync2 : Int, roaming : Int]
      <3>1. \/ count' = count
            \/ count' = [count EXCEPT !.ready = @ + 1]
            \/ count' = [count EXCEPT !.async = @ + 1, !.ready = @ - 1]
            \/ count' = [count EXCEPT !.ready = @ + 1, !.async = @ - 1]
            \/ count' = [count EXCEPT !.ready = @ - 1, !.sync = @ + 1]
            \/ count' = [count EXCEPT !.ready = @ + 1, !.sync = @ - 1]
            \/ count' = [count EXCEPT !.sync2 = @ + 1, !.roaming = @ + 1]
            \/ count' = [count EXCEPT !.roaming = @ - 1, !.sync2 = @ - 1]
        BY DEF Step, Acquire, i_am_ready, enter_async, ProcessMatch, leave_async,
           enter_sync_zone, leave_sync_zone, Exit, post_work, barrier_resize_unlocked, GetJob,
           Roaming, DoShare, barrier_wait, LeaveBarrier, DoSecondShare, leave_roaming, PostWait,
           post_work_stop
      <3>2. count \in [ready : Int, sync : Int, async : Int, sync2 : Int, roaming : Int]
        BY <1>tc, <1>s
      <3>3. /\ count.ready + 1 \in Int /\ count.ready - 1 \in Int
            /\ count.sync + 1 \in Int /\ count.sync - 1 \in Int
            /\ count.async + 1 \in Int /\ count.async - 1 \in Int
            /\ count.sync2 + 1 \in Int /\ count.sync2 - 1 \in Int
            /\ count.roaming + 1 \in Int /\ count.roaming - 1 \in Int
        BY <3>2
      <3>4. CASE \/ count' = count
                 \/ count' = [count EXCEPT !.ready = @ + 1]
                 \/ count' = [count EXCEPT !.async = @ + 1, !.ready = @ - 1]
                 \/ count' = [count EXCEPT !.ready = @ + 1, !.async = @ - 1]
        BY <3>2, <3>3, <3>4
      <3>5. CASE \/ count' = [count EXCEPT !.ready = @ - 1, !.sync = @ + 1]
                 \/ count' = [count EXCEPT !.ready = @ + 1, !.sync = @ - 1]
        BY <3>2, <3>3, <3>5
      <3>6. CASE \/ count' = [count EXCEPT !.sync2 = @ + 1, !.roaming = @ + 1]
                 \/ count' = [count EXCEPT !.roaming = @ - 1, !.sync2 = @ - 1]
        BY <3>2, <3>3, <3>6
      <3> QED BY <3>1, <3>4, <3>5, <3>6
    <2> QED BY <2>1, CountStep, CountRange
  <1>p. pc' \in [Threads -> Labels] /\ lock' \in Threads \union {Nobody}
    <2>1. /\ lock' \in {lock, t, Nobody}
          /\ pc' = pc \/ \E b \in Labels : pc' = [pc EXCEPT ![t] = b]
      <3>1. CASE Acquire(t)
        BY <1>tp, <3>1 DEF Acquire, Labels
      <3>2. CASE i_am_ready(t)
        BY <1>tp, <3>2 DEF i_am_ready, Labels
      <3>3. CASE enter_async(t)
        BY <1>tp, <3>3 DEF enter_async, Labels
      <3>4. CASE ProcessMatch(t)
        BY <1>tp, <3>4 DEF ProcessMatch, Labels
      <3>5. CASE leave_async(t)
        BY <1>tp, <3>5 DEF leave_async, Labels
      <3>6. CASE enter_sync_zone(t)
        BY <1>tp, <3>6 DEF enter_sync_zone, Enters, MayLead, NoAdLeft, Labels
      <3>7. CASE leave_sync_zone(t)
        BY <1>tp, <3>7 DEF leave_sync_zone, HandOver, Labels
      <3>8. CASE Exit(t)
        BY <1>tp, <3>8 DEF Exit, Labels
      <3>9. CASE post_work(t)
        BY <1>tp, <3>9 DEF post_work, Labels
      <3>10. CASE barrier_resize_unlocked(t)
        BY <1>tp, <3>10 DEF barrier_resize_unlocked, Roaming, Labels
      <3>11. CASE GetJob(t)
        BY <1>tp, <3>11 DEF GetJob, Roaming, Labels
      <3>12. CASE DoShare(t)
        BY <1>tp, <3>12 DEF DoShare, Labels
      <3>13. CASE barrier_wait(t)
        BY <1>tp, <3>13 DEF barrier_wait, Labels
      <3>14. CASE LeaveBarrier(t)
        BY <1>tp, <3>14 DEF LeaveBarrier, Labels
      <3>15. CASE DoSecondShare(t)
        BY <1>tp, <3>15 DEF DoSecondShare, Labels
      <3>16. CASE leave_roaming(t)
        BY <1>tp, <3>16 DEF leave_roaming, Labels
      <3>17. CASE PostWait(t)
        BY <1>tp, <3>17 DEF PostWait, Labels
      <3>18. CASE post_work_stop(t)
        BY <1>tp, <3>18 DEF post_work_stop, Labels
      <3> QED
        BY <3>1, <3>2, <3>3, <3>4, <3>5, <3>6, <3>7, <3>8, <3>9, <3>10, <3>11, <3>12,
           <3>13, <3>14, <3>15, <3>16, <3>17, <3>18 DEF Step
    <2> QED BY <1>tp, <2>1
  <1>q. wait' \in [Threads -> Conditions]
    <2>1. \/ wait' \in {wait} \union {Woken(c) : c \in Conditions}
          \/ \E c \in Conditions, v \in {wait, Woken("w_sync2")} : wait' = [v EXCEPT ![t] = c]
      <3>1. CASE Acquire(t)
        BY <3>1 DEF Acquire, Conditions
      <3>2. CASE i_am_ready(t)
        BY <3>2 DEF i_am_ready, Conditions
      <3>3. CASE enter_async(t)
        BY <3>3 DEF enter_async, Conditions
      <3>4. CASE ProcessMatch(t)
        BY <3>4 DEF ProcessMatch, Conditions
      <3>5. CASE leave_async(t)
        BY <3>5 DEF leave_async, Conditions
      <3>6. CASE enter_sync_zone(t)
        BY <3>6 DEF enter_sync_zone, Enters, MayLead, NoAdLeft, Conditions
      <3>7. CASE leave_sync_zone(t)
        BY <3>7 DEF leave_sync_zone, HandOver, Conditions
      <3>8. CASE Exit(t)
        BY <3>8 DEF Exit, Conditions
      <3>9. CASE post_work(t)
        BY <3>9 DEF post_work, Conditions
      <3>10. CASE barrier_resize_unlocked(t)
        BY <3>10 DEF barrier_resize_unlocked, Roaming, Conditions
      <3>11. CASE GetJob(t)
        BY <3>11 DEF GetJob, Roaming, Conditions
      <3>12. CASE DoShare(t)
        BY <3>12 DEF DoShare, Conditions
      <3>13. CASE barrier_wait(t)
        BY <3>13 DEF barrier_wait, Conditions
      <3>14. CASE LeaveBarrier(t)
        BY <3>14 DEF LeaveBarrier, Conditions
      <3>15. CASE DoSecondShare(t)
        BY <3>15 DEF DoSecondShare, Conditions
      <3>16. CASE leave_roaming(t)
        BY <3>16 DEF leave_roaming, Conditions
      <3>17. CASE PostWait(t)
        BY <3>17 DEF PostWait, Conditions
      <3>18. CASE post_work_stop(t)
        BY <3>18 DEF post_work_stop, Conditions
      <3> QED
        BY <3>1, <3>2, <3>3, <3>4, <3>5, <3>6, <3>7, <3>8, <3>9, <3>10, <3>11, <3>12,
           <3>13, <3>14, <3>15, <3>16, <3>17, <3>18 DEF Step
    <2> QED BY <1>tp, <1>w, <2>1
  <1>m. my' \in [Threads -> [index : 0 .. Size - 1, event : Nat, f : Kinds,
                            leads : BOOLEAN, to_post : Seq(Kinds)]]
    <2>0. CASE my' = my
      BY <1>tm, <2>0
    <2>1. CASE enter_sync_zone(t)
      <3>1. count.sync \in 0 .. Size - 1
        BY <2>1, PlaceInZone DEF enter_sync_zone
      <3>2. \/ Enters(t, FALSE, <<>>) \/ Enters(t, TRUE, <<>>)
            \/ \E c \in Conducts : Enters(t, TRUE, c)
        BY <2>1 DEF enter_sync_zone
      <3>3. <<>> \in Seq(Kinds)
        OBVIOUS
      <3>4. \E leads \in BOOLEAN, q \in Seq(Kinds) : Enters(t, leads, q)
        BY <1>s, <3>2, <3>3
      <3>5. PICK leads \in BOOLEAN, q \in Seq(Kinds) : Enters(t, leads, q)
        BY <3>4
      <3> QED BY <1>tm, <3>1, <3>5 DEF Enters
    <2>2. CASE post_work(t)
      <3>1. my[t].to_post \in Seq(Kinds) /\ my[t].to_post # <<>>
        BY <1>tm, <2>2 DEF post_work
      <3>2. Head(my[t].to_post) \in Kinds /\ Tail(my[t].to_post) \in Seq(Kinds)
        BY <3>1
      <3>3. my' = [my EXCEPT ![t].f = Head(my[t].to_post), ![t].to_post = Tail(my[t].to_post)]
        BY <2>2 DEF post_work
      <3> QED BY <1>tm, <3>2, <3>3
    <2>3. CASE GetJob(t)
      <3>1. my' = my \/ my' = [my EXCEPT ![t].f = task.f]
        BY <2>3 DEF GetJob
      <3>2. task.f \in Kinds
        BY <1>tk
      <3> QED BY <1>tm, <3>1, <3>2
    <2>4. CASE barrier_wait(t)
      <3>1. my' = my \/ my' = [my EXCEPT ![t].event = bar.event]
        BY <2>4 DEF barrier_wait
      <3>2. bar.event \in Nat
        BY DEF IInv, TypeOK
      <3> QED BY <1>tm, <3>1, <3>2
    <2>5. CASE post_work_stop(t)
      BY <1>tm, <2>5 DEF post_work_stop
    <2> QED
      BY <2>0, <2>1, <2>2, <2>3, <2>4, <2>5 DEF Step, Acquire, i_am_ready, enter_async,
         ProcessMatch, leave_async, leave_sync_zone, Exit, barrier_resize_unlocked, DoShare,
         LeaveBarrier, DoSecondShare, leave_roaming, PostWait
  <1>d. done' \in BOOLEAN /\ idx' \in 0 .. MaxAd
    <2>0. CASE done' = done /\ idx' = idx
      BY <1>td, <2>0
    <2>1. CASE enter_sync_zone(t)
      <3>1. /\ done' = done \/ done' = TRUE
            /\ \/ idx' = idx
               \/ idx # MaxAd /\ idx' = idx + 1
        BY <2>1 DEF enter_sync_zone, NoAdLeft
      <3>2. done' \in BOOLEAN
        BY <1>td, <3>1
      <3>3. idx' \in 0 .. MaxAd
        BY <1>td, <1>s, <3>1
      <3> QED BY <3>2, <3>3
    <2> QED
      BY <2>0, <2>1 DEF Step, Acquire, i_am_ready, enter_async, ProcessMatch, leave_async,
         leave_sync_zone, Exit, post_work, barrier_resize_unlocked, GetJob, DoShare,
         barrier_wait, LeaveBarrier, DoSecondShare, leave_roaming, PostWait, post_work_stop
  <1>k. task' \in [expected : 0 .. Size, f : Kinds]
    <2>0. CASE task' = task
      BY <1>tk, <1>tm, <1>tc, <2>0
    <2>1. CASE post_work(t)
      <3>1. my[t].to_post \in Seq(Kinds) /\ my[t].to_post # <<>>
        BY <1>tk, <1>tm, <1>tc, <2>1 DEF post_work
      <3>2. Head(my[t].to_post) \in Kinds
        BY <3>1
      <3> QED BY <1>tk, <1>tm, <1>tc, <2>1, <3>2 DEF post_work
    <2>2. CASE post_work_stop(t)
      BY <1>tk, <1>tm, <1>tc, <1>s, <2>2 DEF post_work_stop
    <2> QED
      BY <2>0, <2>1, <2>2 DEF Step, Acquire, i_am_ready, enter_async, ProcessMatch, leave_async,
         enter_sync_zone, leave_sync_zone, Exit, barrier_resize_unlocked, GetJob, DoShare,
         barrier_wait, LeaveBarrier, DoSecondShare, leave_roaming, PostWait
  <1>j. jobs' \in [league : Nat, own : [Threads -> Nat], found : 0 .. MaxJobs]
    <2>0. CASE jobs' = jobs
      BY <1>tj, <2>0
    <2>1. CASE enter_async(t)
      BY <1>tj, <2>1 DEF enter_async
    <2>2. CASE leave_sync_zone(t)
      <3>1. jobs' = jobs \/ jobs' = HandOver(t)
        BY <2>2 DEF leave_sync_zone
      <3>2. jobs.league + jobs.own[t] \in Nat
        BY <1>tj
      <3>3. [jobs.own EXCEPT ![t] = 0] \in [Threads -> Nat]
        BY <1>tj
      <3>4. HandOver(t) = [league |-> jobs.league + jobs.own[t],
                           own |-> [jobs.own EXCEPT ![t] = 0], found |-> jobs.found]
        <4>1. HandOver(t) = [jobs EXCEPT !.league = jobs.league + jobs.own[t],
                                         !.own = [jobs.own EXCEPT ![t] = 0]]
          BY <1>tj DEF HandOver
        <4> QED BY <1>tj, <4>1
      <3> QED BY <1>tj, <3>1, <3>2, <3>3, <3>4
    <2>3. CASE DoSecondShare(t)
      <3>1. \/ jobs' = jobs
            \/ /\ jobs.found < MaxJobs
               /\ jobs' = [jobs EXCEPT !.own[t] = @ + 1, !.found = @ + 1]
        BY <2>3 DEF DoSecondShare
      <3>2. CASE /\ jobs.found < MaxJobs
                 /\ jobs' = [jobs EXCEPT !.own[t] = @ + 1, !.found = @ + 1]
        <4>1. jobs' = [league |-> jobs.league, own |-> [jobs.own EXCEPT ![t] = @ + 1],
                       found |-> jobs.found + 1]
          BY <1>tj, <3>2
        <4>2. [jobs.own EXCEPT ![t] = @ + 1] \in [Threads -> Nat]
          BY <1>tj
        <4>3. jobs.found + 1 \in 0 .. MaxJobs /\ jobs.league \in Nat
          BY <1>tj, <1>s, <3>2
        <4> QED BY <4>1, <4>2, <4>3
      <3> QED BY <2>0, <3>1, <3>2
    <2> QED
      BY <2>0, <2>1, <2>2, <2>3 DEF Step, Acquire, i_am_ready, ProcessMatch, leave_async,
         enter_sync_zone, Exit, post_work, barrier_resize_unlocked, GetJob, DoShare,
         barrier_wait, LeaveBarrier, leave_roaming, PostWait, post_work_stop
  <1>h. shares' \in [first : SUBSET Threads, second : SUBSET Threads, of : SUBSET Threads]
    <2>0. CASE shares' = shares
      BY <1>th, <2>0
    <2>1. CASE enter_sync_zone(t)
      <3>1. shares' = shares \/ shares' = [first |-> {}, second |-> {}, of |-> {}]
        BY <2>1 DEF enter_sync_zone
      <3> QED BY <1>th, <3>1
    <2>2. CASE post_work(t)
      BY <1>th, <2>2 DEF post_work
    <2>3. CASE DoShare(t)
      BY <1>th, <2>3 DEF DoShare
    <2>4. CASE DoSecondShare(t)
      BY <1>th, <2>4 DEF DoSecondShare
    <2> QED
      BY <2>0, <2>1, <2>2, <2>3, <2>4 DEF Step, Acquire, i_am_ready, enter_async, ProcessMatch,
         leave_async, leave_sync_zone, Exit, barrier_resize_unlocked, GetJob, barrier_wait,
         LeaveBarrier, leave_roaming, PostWait, post_work_stop
  <1> QED BY <1>b, <1>c, <1>p, <1>q, <1>m, <1>d, <1>k, <1>j, <1>h DEF TypeOK

-------------------------------------------------------------------------------
(* Tasks with a barrier.                                                   *)

(* The steps of threads that have no part in the task.                     *)
Aside ==
  /\ Uncalled /\ shares' = shares /\ task'.f = task.f
  /\ In({"in_barrier", "barrier"})' = In({"in_barrier", "barrier"})
  /\ In({"in_barrier", "roam2"})' = In({"in_barrier", "roam2"})
  /\ In({"resize"})' = In({"resize"})
  /\ In({"roam2", "leave_roaming"})' \subseteq In({"roam2", "leave_roaming"})
  /\ In(Within) \ In({"leave_roaming"}) \subseteq In(Within)'
  /\ In({"resize"}) # {} => In({"job"})' = In({"job"})

LEMMA AsideShares ==
  ASSUME IInv, Aside, HasBarrier(task.f), shares.of # {}
  PROVE  (Posted \/ FirstHalf \/ SecondHalf)'
  <1>1. Coming' \subseteq Coming /\ In({"in_barrier"})' = In({"in_barrier"})
    BY UncalledComing DEF Aside
  <1>2. bar' = bar /\ (Even' <=> Even)
    BY DEF Aside, Uncalled, Even
  <1>3. CASE Posted
    <2>1. /\ In({"resize"})' = In({"resize"}) /\ In({"job"})' = In({"job"})
          /\ shares' = shares
      BY <1>3 DEF Aside, Posted
    <2> QED BY <1>3, <2>1 DEF Posted
  <1>4. CASE FirstHalf
    <2>1. In(Within)' # {}
      <3>1. PICK r \in Threads : pc[r] \in Within
        BY <1>4 DEF FirstHalf, In
      <3>2. r \in In(Within) /\ r \notin In({"leave_roaming"})
        BY <1>4, <3>1 DEF FirstHalf, In
      <3> QED BY <3>2 DEF Aside
    <2>2. In({"roam2", "leave_roaming"})' = {} /\ In({"resize"})' = {}
      BY <1>4 DEF Aside, FirstHalf
    <2>3. shares' = shares /\ In({"in_barrier", "barrier"})' = In({"in_barrier", "barrier"})
      BY DEF Aside
    <2> QED BY <1>1, <1>2, <1>4, <2>1, <2>2, <2>3 DEF FirstHalf
  <1>5. CASE SecondHalf
    <2>1. /\ In({"resize"})' = {} /\ shares' = shares
          /\ In({"in_barrier", "roam2"})' = In({"in_barrier", "roam2"})
      BY <1>5 DEF Aside, SecondHalf
    <2> QED BY <1>1, <1>5, <2>1 DEF SecondHalf
  <1> QED BY <1>3, <1>4, <1>5 DEF IInv, ShareInv

(* Which steps these are.                                                  *)
LEMMA AsideSteps ==
  ASSUME IInv, NEW t \in Threads, shares' = shares,
         \/ Acquire(t) \/ i_am_ready(t) \/ enter_async(t) \/ ProcessMatch(t)
         \/ leave_async(t) \/ enter_sync_zone(t) \/ leave_sync_zone(t) \/ Exit(t)
         \/ GetJob(t) \/ leave_roaming(t) \/ PostWait(t) \/ post_work_stop(t)
  PROVE  Aside
  <1>0. Uncalled
    BY UncalledSteps
  <1> USE DEF At, Unlocked, Goto, GoOn, Broadcast, Sleep, Unlock, Relock
  <1>t. pc \in [Threads -> Labels] /\ Nobody \notin Threads
    BY TeamAssumption DEF IInv, TypeOK, TeamAssumption
  <1>f. task'.f = task.f
    <2>1. task \in [expected : 0 .. Size, f : Kinds]
      BY DEF IInv, TypeOK
    <2> QED BY <2>1 DEF Acquire, i_am_ready, enter_async, ProcessMatch, leave_async,
              enter_sync_zone, leave_sync_zone, Exit, GetJob, leave_roaming, PostWait,
              post_work_stop
  <1>l. ASSUME NEW r \in Threads, pc[r] = "resize" PROVE lock = r
    BY <1>l DEF IInv, LockInv
  <1>m. /\ \/ pc' = pc
           \/ \E b \in Labels : /\ pc' = [pc EXCEPT ![t] = b] /\ pc[t] # "resize"
                                /\ <<pc[t], b>> \in {<<"job", "roam">>, <<"job", "job">>, <<"job", "leave">>}
                                     \union {<<"leave_roaming", c>> : c \in {"job", "conduct", "post_wait"}}
                                     \union (Labels \ (Within \union {"job", "resize"})) \X
                                             (Labels \ (Within \union {"resize"}))
        /\ lock = t \/ (pc[t] = "async" /\ pc' = [pc EXCEPT ![t] = "leave_async"]) \/ pc' = pc
    <2>1. CASE Acquire(t)
      BY <2>1 DEF Acquire
    <2>2. CASE i_am_ready(t)
      BY <2>2 DEF i_am_ready, Labels, Within
    <2>3. CASE enter_async(t)
      BY <2>3 DEF enter_async, Labels, Within
    <2>4. CASE ProcessMatch(t)
      BY <2>4 DEF ProcessMatch, Labels, Within
    <2>5. CASE leave_async(t)
      BY <2>5 DEF leave_async, Labels, Within
    <2>6. CASE enter_sync_zone(t)
      BY <2>6 DEF enter_sync_zone, Labels, Within
    <2>7. CASE leave_sync_zone(t)
      BY <2>7 DEF leave_sync_zone, Labels, Within
    <2>8. CASE Exit(t)
      BY <2>8 DEF Exit, Labels, Within
    <2>9. CASE GetJob(t)
      BY <2>9 DEF GetJob, Labels, Within
    <2>10. CASE leave_roaming(t)
      BY <2>10 DEF leave_roaming, Labels, Within
    <2>11. CASE PostWait(t)
      BY <2>11 DEF PostWait, Labels, Within
    <2>12. CASE post_work_stop(t)
      BY <2>12 DEF post_work_stop, Labels, Within
    <2> QED BY <2>1, <2>2, <2>3, <2>4, <2>5, <2>6, <2>7, <2>8, <2>9, <2>10, <2>11, <2>12
  <1>1. CASE pc' = pc
    BY <1>0, <1>f, <1>1 DEF Aside, In
  <1>2. CASE pc' # pc
    <2>1. PICK b \in Labels :
            /\ pc' = [pc EXCEPT ![t] = b] /\ pc[t] # "resize"
            /\ <<pc[t], b>> \in {<<"job", "roam">>, <<"job", "job">>, <<"job", "leave">>}
                 \union {<<"leave_roaming", c>> : c \in {"job", "conduct", "post_wait"}}
                 \union (Labels \ (Within \union {"job", "resize"})) \X
                         (Labels \ (Within \union {"resize"}))
      BY <1>m, <1>2
    <2>2. /\ \A r \in Threads : r # t => pc'[r] = pc[r]
          /\ pc'[t] = b
      BY <1>t, <2>1
    <2>3. /\ b \notin {"in_barrier", "barrier", "roam2", "resize", "leave_roaming"}
          /\ pc[t] \notin {"in_barrier", "barrier", "roam2", "resize", "roam"}
      BY <2>1 DEF Within
    <2>4. /\ In({"in_barrier", "barrier"})' = In({"in_barrier", "barrier"})
          /\ In({"in_barrier", "roam2"})' = In({"in_barrier", "roam2"})
          /\ In({"resize"})' = In({"resize"})
          /\ In({"roam2", "leave_roaming"})' \subseteq In({"roam2", "leave_roaming"})
      BY <2>2, <2>3 DEF In
    <2>5. In(Within) \ In({"leave_roaming"}) \subseteq In(Within)'
      BY <2>2, <2>3 DEF In, Within
    <2>6. ASSUME In({"resize"}) # {} PROVE In({"job"})' = In({"job"})
      <3>1. PICK r \in Threads : pc[r] = "resize"
        BY <2>6 DEF In
      <3>2. lock # t
        BY <1>l, <2>1, <3>1
      <3>3. pc[t] = "async" /\ pc' = [pc EXCEPT ![t] = "leave_async"]
        BY <1>2, <1>m, <3>2
      <3> QED BY <1>t, <3>3 DEF In
    <2> QED BY <1>0, <1>f, <2>4, <2>5, <2>6 DEF Aside
  <1> QED BY <1>1, <1>2

(* At the barrier, only the first half can be under way.                   *)
LEMMA ArrivalShares ==
  ASSUME IInv, NEW t \in Threads, barrier_wait(t), HasBarrier(task.f), shares.of # {}
  PROVE  (Posted \/ FirstHalf \/ SecondHalf)'
  <1>t. /\ pc \in [Threads -> Labels] /\ pc[t] = "barrier" /\ t \in Threads
        /\ shares \in [first : SUBSET Threads, second : SUBSET Threads, of : SUBSET Threads]
        /\ bar \in [left : 0 .. Size, count : 0 .. Size, event : Nat] /\ Size \in Nat
    BY SizeType DEF IInv, TypeOK, barrier_wait, At
  <1>1. Even /\ t \in Coming /\ In({"resize"}) = {}
    BY <1>t, AtBarrier
  <1>2. FirstHalf
    BY <1>1 DEF IInv, ShareInv, Posted, SecondHalf
  <1>3. CASE bar.left # 1
    <2>1. /\ bar' = OneLess(bar) /\ pc' = [pc EXCEPT ![t] = "in_barrier"]
          /\ shares' = shares
          /\ Coming' = Coming \ {t} /\ In({"in_barrier"})' = In({"in_barrier"}) \union {t}
          /\ In({"resize"})' = {}
      BY <1>3, ArrivesEarly
    <2>2. bar'.count = bar.count /\ Even'
      BY <1>t, <1>1, <2>1 DEF OneLess, Even
    <2>3. /\ In({"roam2", "leave_roaming"})' = {} /\ In(Within)' # {}
          /\ In({"in_barrier", "barrier"})' = In({"in_barrier", "barrier"})
      BY <1>t, <1>2, <2>1 DEF In, Within, FirstHalf
    <2>4. Coming' \union In({"in_barrier"})' \subseteq shares.of
      BY <1>1, <1>2, <2>1 DEF FirstHalf
    <2> QED BY <1>2, <2>1, <2>2, <2>3, <2>4 DEF FirstHalf
  <1>4. CASE bar.left = 1
    <2>1. /\ bar'.count = bar.count /\ pc' = [pc EXCEPT ![t] = "roam2"]
          /\ shares' = shares
          /\ Coming = {t} /\ Coming' = {} /\ In({"in_barrier"})' = In({"in_barrier"})
          /\ In({"resize"})' = {} /\ t \notin In({"in_barrier"})
      BY <1>4, ArrivesLast
    <2> DEFINE Came == In({"in_barrier"}) \union {t}
    <2>2. Came \subseteq shares.of
      BY <1>2, <2>1 DEF FirstHalf
    <2>3. IsFiniteSet(shares.of)
      BY <1>t, TeamAssumption, FS_Subset DEF TeamAssumption
    <2>4. /\ IsFiniteSet(In({"in_barrier"})) /\ Cardinality(In({"in_barrier"})) \in Nat
          /\ Cardinality(Came) = Cardinality(In({"in_barrier"})) + 1
      <3>1. IsFiniteSet(In({"in_barrier"})) /\ Cardinality(In({"in_barrier"})) \in Nat
        BY InFinite
      <3>2. Cardinality(In({"in_barrier"}) \union {t}) = Cardinality(In({"in_barrier"})) + 1
        BY <2>1, <3>1, FS_AddElement
      <3> QED BY <3>1, <3>2
    <2>5. Cardinality(Came) = bar.count
      <3>1. bar.left + Cardinality(In({"in_barrier"})) = bar.count
        BY DEF IInv, BarInv
      <3> HIDE DEF Came
      <3> QED BY <1>t, <1>4, <2>4, <3>1
    <2>6. Cardinality(shares.of) <= bar.count
      BY <1>2 DEF FirstHalf
    <2>7. Cardinality(Came) <= Cardinality(shares.of)
      BY <2>2, <2>3, FS_Subset
    <2>8. Cardinality(shares.of) \in Nat
      BY <2>3, FS_CardinalityType
    <2>9. Cardinality(Came) = Cardinality(shares.of)
      BY <1>t, <2>4, <2>5, <2>6, <2>7, <2>8
    <2>10. Came = shares.of
      BY <2>2, <2>3, <2>9, FS_Subset
    <2>11. In({"in_barrier", "barrier"}) = Came
      <3>1. \A r \in Threads : pc[r] = "barrier" => r \in Coming
        BY DEF Coming
      <3>2. \A r \in Threads : pc[r] = "barrier" => r = t
        BY <3>1, <2>1
      <3> QED BY <1>t, <3>2 DEF In
    <2>12. In({"in_barrier", "roam2"})' = Came
      <3>1. \A r \in Threads : pc[r] # "roam2"
        BY <1>2 DEF FirstHalf, In
      <3>2. \A r \in Threads : r # t => pc'[r] = pc[r]
        BY <1>t, <2>1
      <3>3. pc'[t] = "roam2"
        BY <1>t, <2>1
      <3> QED BY <1>t, <3>1, <3>2, <3>3 DEF In
    <2>13. shares.first = shares.of /\ shares.second = {}
      BY <1>2, <2>10, <2>11 DEF FirstHalf
    <2> HIDE DEF Came
    <2> QED BY <2>1, <2>10, <2>12, <2>13 DEF SecondHalf
  <1> QED BY <1>3, <1>4

(* Leaving it, only the second half.                                       *)
LEMMA DepartureShares ==
  ASSUME IInv, NEW t \in Threads, LeaveBarrier(t), ~Even, HasBarrier(task.f), shares.of # {}
  PROVE  (Posted \/ FirstHalf \/ SecondHalf)'
  <1>1. /\ pc' = [pc EXCEPT ![t] = "roam2"] /\ pc[t] = "in_barrier" /\ shares' = shares
        /\ Coming' = {} /\ In({"resize"})' = {}
    BY GoesOut
  <1>2. In({"resize"}) = {}
    <2>1. count.sync2 # 0
      BY <1>1, NobodyWithin DEF IInv, Within
    <2> QED BY <2>1 DEF IInv, LockInv, In
  <1>3. SecondHalf
    BY <1>2 DEF IInv, ShareInv, Posted, FirstHalf
  <1>4. In({"in_barrier", "roam2"})' = In({"in_barrier", "roam2"})
    <2>1. pc \in [Threads -> Labels]
      BY DEF IInv, TypeOK
    <2> QED BY <1>1, <2>1 DEF In
  <1> QED BY <1>1, <1>3, <1>4 DEF SecondHalf

(* A share before the barrier.                                             *)
LEMMA FirstShares ==
  ASSUME IInv, NEW t \in Threads, DoShare(t), HasBarrier(task.f), shares.of # {}
  PROVE  (Posted \/ FirstHalf \/ SecondHalf)'
  <1>t. /\ pc \in [Threads -> Labels] /\ pc[t] = "roam"
        /\ shares \in [first : SUBSET Threads, second : SUBSET Threads, of : SUBSET Threads]
    BY DEF IInv, TypeOK, DoShare, Unlocked
  <1>1. my[t].f = task.f /\ count.sync2 # 0
    BY <1>t, NobodyWithin DEF IInv, LockInv, Within
  <1>2. /\ pc' = [pc EXCEPT ![t] = "barrier"] /\ bar' = bar
        /\ shares'.first = shares.first \union {t} /\ shares'.second = shares.second
        /\ shares'.of = shares.of
    BY <1>t, <1>1 DEF DoShare, Relock
  <1>3. t \in Coming /\ In({"resize"}) = {}
    BY <1>t, <1>1 DEF Coming, IInv, LockInv, In
  <1>4. FirstHalf
    BY <1>3 DEF IInv, ShareInv, Posted, SecondHalf
  <1>5. Coming' \subseteq Coming /\ In({"in_barrier"})' = In({"in_barrier"})
    BY UncalledSteps, UncalledComing
  <1>6. /\ In({"in_barrier", "barrier"})' = In({"in_barrier", "barrier"}) \union {t}
        /\ In({"roam2", "leave_roaming"})' = {} /\ In(Within)' # {}
        /\ In({"resize"})' = {}
    BY <1>t, <1>2, <1>3, <1>4 DEF In, Within, FirstHalf
  <1>7. Even' /\ bar'.count = bar.count
    BY <1>2, <1>4 DEF Even, FirstHalf
  <1> QED BY <1>2, <1>4, <1>5, <1>6, <1>7 DEF FirstHalf

(* A share behind it.                                                      *)
LEMMA SecondShares ==
  ASSUME IInv, NEW t \in Threads, DoSecondShare(t), HasBarrier(task.f), shares.of # {}
  PROVE  (Posted \/ FirstHalf \/ SecondHalf)'
  <1>t. /\ pc \in [Threads -> Labels] /\ pc[t] = "roam2"
        /\ shares \in [first : SUBSET Threads, second : SUBSET Threads, of : SUBSET Threads]
    BY DEF IInv, TypeOK, DoSecondShare, Unlocked
  <1>1. count.sync2 # 0
    BY <1>t, NobodyWithin DEF IInv, Within
  <1>2. /\ pc' = [pc EXCEPT ![t] = "leave_roaming"] /\ bar' = bar
        /\ shares'.second = shares.second \union {t} /\ shares'.first = shares.first
        /\ shares'.of = shares.of
    BY <1>t, <1>1 DEF DoSecondShare, Relock
  <1>3. t \in In({"roam2", "leave_roaming"}) /\ In({"resize"}) = {}
    BY <1>t, <1>1 DEF Coming, IInv, LockInv, In
  <1>4. SecondHalf
    BY <1>3 DEF IInv, ShareInv, Posted, FirstHalf
  <1>5. Coming' \subseteq Coming
    BY UncalledSteps, UncalledComing
  <1>6. /\ In({"in_barrier", "roam2"})' = In({"in_barrier", "roam2"}) \ {t}
        /\ In({"resize"})' = {} /\ t \in In({"in_barrier", "roam2"})
    BY <1>t, <1>2, <1>3 DEF In
  <1>7. Coming' = {} /\ shares'.first = shares'.of
    BY <1>2, <1>4, <1>5 DEF SecondHalf
  <1>8. /\ In({"in_barrier", "roam2"})' \subseteq shares'.of
        /\ shares'.second = shares'.of \ In({"in_barrier", "roam2"})'
    BY <1>2, <1>4, <1>6 DEF SecondHalf
  <1> QED BY <1>6, <1>7, <1>8 DEF SecondHalf

(* A task is posted to all who wait for one.                               *)
LEMMA PostShares ==
  ASSUME IInv, NEW t \in Threads, post_work(t)
  PROVE  Posted' /\ shares'.of # {}
  <1>t. /\ pc \in [Threads -> Labels] /\ pc[t] = "conduct" /\ lock = t
        /\ pc' = [pc EXCEPT ![t] = "resize"]
        /\ shares' = [first |-> {}, second |-> {},
                      of |-> {t} \union {s \in Threads : pc[s] = "job"}]
    BY DEF IInv, TypeOK, post_work, At, GoOn, Goto
  <1>1. \A r \in Threads : pc[r] # "resize"
    <2>1. ASSUME NEW r \in Threads, pc[r] = "resize" PROVE FALSE
      <3>1. lock = r
        BY <2>1 DEF IInv, LockInv
      <3> QED BY <1>t, <2>1, <3>1
    <2> QED BY <2>1
  <1>2. In({"resize"})' = {t} /\ In({"job"})' = {s \in Threads : pc[s] = "job"}
    BY <1>t, <1>1 DEF In
  <1> QED BY <1>t, <1>2 DEF Posted

(* It begins.                                                              *)
LEMMA BeginShares ==
  ASSUME IInv, NEW t \in Threads, barrier_resize_unlocked(t), HasBarrier(task.f),
         shares.of # {}
  PROVE  FirstHalf'
  <1>t. /\ pc \in [Threads -> Labels] /\ wait \in [Threads -> Conditions]
        /\ shares \in [first : SUBSET Threads, second : SUBSET Threads, of : SUBSET Threads]
        /\ bar \in [left : 0 .. Size, count : 0 .. Size, event : Nat] /\ Size \in Nat
        /\ task \in [expected : 0 .. Size, f : Kinds]
    BY SizeType DEF IInv, TypeOK
  <1>1. /\ Even /\ bar' = Resized /\ In({"in_barrier"})' = {}
        /\ pc' = [pc EXCEPT ![t] = "roam"] /\ task' = task /\ my' = my /\ shares' = shares
        /\ pc[t] = "resize" /\ count.sync2 = 0 /\ task.expected = count.sync
    <2>1. Step(t)
      BY DEF Step
    <2>2. CountInv'
      BY <2>1, CountStep
    <2> QED BY <2>2, ResizeBar
  <1>2. \A r \in Threads : pc[r] = "resize" => r = t
    <2>1. ASSUME NEW r \in Threads, pc[r] = "resize" PROVE r = t
      <3>1. lock = r /\ lock = t
        BY <1>1, <2>1 DEF IInv, LockInv
      <3> QED BY <3>1
    <2> QED BY <2>1
  <1>3. t \in In({"resize"})
    BY <1>1 DEF In
  <1>4. Posted
    BY <1>3 DEF IInv, ShareInv, FirstHalf, SecondHalf
  <1>5. shares.of = {t} \union In({"job"}) /\ shares.first = {} /\ shares.second = {}
    BY <1>3, <1>4 DEF Posted
  <1>6. \A r \in Threads : pc[r] \notin Within
    BY <1>1, NobodyWithin DEF IInv
  <1>7. \A r \in Threads : r # t => pc'[r] = pc[r]
    BY <1>t, <1>1
  <1>8. pc'[t] = "roam"
    BY <1>t, <1>1
  <1>9. /\ In({"resize"})' = {} /\ In({"roam2", "leave_roaming"})' = {} /\ In(Within)' # {}
        /\ In({"in_barrier", "barrier"})' = {}
    BY <1>2, <1>6, <1>7, <1>8 DEF In, Within
  <1>10. Coming' \subseteq shares.of
    BY <1>5, <1>6, <1>7, <1>8 DEF Coming, Called, In, Within
  <1>11. Even' /\ bar'.count = task.expected
    BY <1>t, <1>1 DEF Even, Resized
  <1>12. Cardinality(shares.of) <= Cardinality(In(Zone))
    <2>1. shares.of \subseteq In(Zone) /\ IsFiniteSet(In(Zone))
      BY <1>1, <1>5, InFinite DEF In, Zone
    <2> QED BY <2>1, FS_Subset
  <1>13. /\ Cardinality(In(Zone)) <= task.expected /\ Cardinality(In(Zone)) \in Nat
         /\ Cardinality(shares.of) \in Nat
    <2>1. IsFiniteSet(shares.of)
      BY <1>t, TeamAssumption, FS_Subset DEF TeamAssumption
    <2> QED BY <1>1, <2>1, InFinite, FS_CardinalityType DEF IInv, CountInv
  <1>14. Cardinality(shares.of) <= bar'.count
    BY <1>t, <1>11, <1>12, <1>13
  <1> QED BY <1>1, <1>5, <1>9, <1>10, <1>11, <1>14 DEF FirstHalf


(* As long as no task is posted, nobody is within one or about to be.      *)
LEMMA NothingPosted ==
  ASSUME IInv, NEW t \in Threads, Step(t), shares'.of = {}
  PROVE  /\ shares'.first = {} /\ shares'.second = {}
         /\ In({"roam", "roam2", "barrier", "in_barrier", "resize"})' = {}
         /\ task'.expected = 0 \/ In({"conduct"})' # {}
  <1> USE DEF At, Unlocked, Goto, GoOn, Broadcast, Sleep, Unlock, Relock
  <1> DEFINE Working == {"roam", "roam2", "barrier", "in_barrier", "resize"}
  <1>t. /\ pc \in [Threads -> Labels] /\ task \in [expected : 0 .. Size, f : Kinds]
        /\ shares \in [first : SUBSET Threads, second : SUBSET Threads, of : SUBSET Threads]
        /\ my \in [Threads -> [index : 0 .. Size - 1, event : Nat, f : Kinds,
                               leads : BOOLEAN, to_post : Seq(Kinds)]]
        /\ Nobody \notin Threads /\ Size \in Nat
    BY TeamAssumption, SizeType DEF IInv, TypeOK, TeamAssumption
  <1>l. \A r \in Threads : pc[r] \in {"conduct", "resize", "last_stop"} =>
                           lock = r /\ count.sync2 = 0
    BY DEF IInv, LockInv
  <1>1. CASE shares.of # {}
    <2>1. enter_sync_zone(t) /\ shares' = [first |-> {}, second |-> {}, of |-> {}]
      <3>1. ~post_work(t)
        BY <1>t DEF post_work
      <3>2. ASSUME DoShare(t) PROVE FALSE
        BY <1>t, <1>1, <3>2 DEF DoShare
      <3>3. ASSUME DoSecondShare(t) PROVE FALSE
        BY <1>t, <1>1, <3>3 DEF DoSecondShare
      <3>4. shares' # shares
        BY <1>1
      <3>5. enter_sync_zone(t)
        BY <3>1, <3>2, <3>3, <3>4 DEF Step, Acquire, i_am_ready, enter_async, ProcessMatch,
           leave_async, leave_sync_zone, Exit, barrier_resize_unlocked, GetJob,
           barrier_wait, LeaveBarrier, leave_roaming, PostWait, post_work_stop
      <3> QED BY <3>4, <3>5 DEF enter_sync_zone
    <2>2. /\ pc[t] = "loop" /\ lock = t /\ pc' = [pc EXCEPT ![t] = "conduct"]
          /\ MayLead(count.ready - 1)
      BY <1>t, <1>1, <2>1 DEF enter_sync_zone
    <2>3. \A r \in Threads : pc[r] \notin Within /\ pc[r] # "resize"
      BY <1>l, <2>2, NobodyWithin DEF MayLead, IInv
    <2>4. In(Working)' = {} /\ In({"conduct"})' # {}
      BY <1>t, <2>2, <2>3 DEF In, Within
    <2> QED BY <2>1, <2>4
  <1>2. CASE shares.of = {}
    <2>1. /\ shares.first = {} /\ shares.second = {}
          /\ \A r \in Threads : pc[r] \notin Working
          /\ task.expected = 0 \/ In({"conduct"}) # {}
      BY <1>2 DEF IInv, ShareInv, In
    <2>2. \/ shares' = shares
          \/ shares' = [first |-> {}, second |-> {}, of |-> {}]
      <3>1. ~post_work(t)
        BY <1>t DEF post_work
      <3>2. ~DoShare(t)
        BY <2>1 DEF DoShare
      <3>3. ~DoSecondShare(t)
        BY <2>1 DEF DoSecondShare
      <3>4. CASE enter_sync_zone(t)
        BY <3>4 DEF enter_sync_zone
      <3> QED BY <3>1, <3>2, <3>3, <3>4 DEF Step, Acquire, i_am_ready, enter_async, ProcessMatch,
             leave_async, leave_sync_zone, Exit, barrier_resize_unlocked, GetJob, barrier_wait,
             LeaveBarrier, leave_roaming, PostWait, post_work_stop
    <2>3. shares'.first = {} /\ shares'.second = {}
      BY <2>1, <2>2
    <2>4. ASSUME lock = t, In({"conduct"}) # {} PROVE pc[t] = "conduct"
      BY <1>l, <2>4 DEF In
    <2>5. (\A r \in Threads : pc'[r] \notin Working) /\ (task'.expected = 0 \/ In({"conduct"})' # {})
      <3>1. CASE Acquire(t)
        BY <1>t, <1>l, <2>1, <2>4, <3>1 DEF Acquire, In
      <3>2. CASE i_am_ready(t)
        BY <1>t, <1>l, <2>1, <2>4, <3>2 DEF i_am_ready, In
      <3>3. CASE enter_async(t)
        BY <1>t, <1>l, <2>1, <2>4, <3>3 DEF enter_async, In
      <3>4. CASE ProcessMatch(t)
        BY <1>t, <1>l, <2>1, <2>4, <3>4 DEF ProcessMatch, In
      <3>5. CASE leave_async(t)
        BY <1>t, <1>l, <2>1, <2>4, <3>5 DEF leave_async, In
      <3>6. CASE enter_sync_zone(t)
        BY <1>t, <1>l, <2>1, <2>4, <3>6 DEF enter_sync_zone, Enters, MayLead, NoAdLeft, In
      <3>7. CASE leave_sync_zone(t)
        BY <1>t, <1>l, <2>1, <2>4, <3>7 DEF leave_sync_zone, HandOver, In
      <3>8. CASE Exit(t)
        BY <1>t, <1>l, <2>1, <2>4, <3>8 DEF Exit, In
      <3>9. CASE post_work(t)
        BY <1>t, <3>9 DEF post_work, In
      <3>10. CASE barrier_resize_unlocked(t)
        BY <1>t, <1>l, <2>1, <2>4, <3>10 DEF barrier_resize_unlocked, Roaming, In
      <3>11. CASE GetJob(t)
        BY <1>t, <1>l, <2>1, <2>4, <3>11 DEF GetJob, Roaming, In
      <3>12. CASE DoShare(t)
        BY <1>t, <1>l, <2>1, <2>4, <3>12 DEF DoShare, In
      <3>13. CASE barrier_wait(t)
        BY <1>t, <1>l, <2>1, <2>4, <3>13 DEF barrier_wait, In
      <3>14. CASE LeaveBarrier(t)
        BY <1>t, <1>l, <2>1, <2>4, <3>14 DEF LeaveBarrier, In
      <3>15. CASE DoSecondShare(t)
        BY <1>t, <1>l, <2>1, <2>4, <3>15 DEF DoSecondShare, In
      <3>16. CASE leave_roaming(t)
        BY <1>t, <1>l, <2>1, <2>4, <3>16 DEF leave_roaming, In
      <3>17. CASE PostWait(t)
        BY <1>t, <1>l, <2>1, <2>4, <3>17 DEF PostWait, In
      <3>18. CASE post_work_stop(t)
        BY <1>t, <1>l, <2>1, <2>4, <3>18 DEF post_work_stop, In
      <3> QED
        BY <3>1, <3>2, <3>3, <3>4, <3>5, <3>6, <3>7, <3>8, <3>9, <3>10, <3>11, <3>12,
           <3>13, <3>14, <3>15, <3>16, <3>17, <3>18 DEF Step
    <2> QED BY <2>3, <2>5 DEF In
  <1> QED BY <1>1, <1>2

(* A task with a barrier goes from one stage to the next.                  *)
LEMMA ShareStep ==
  ASSUME IInv, NEW t \in Threads, Step(t)
  PROVE  ShareInv'
  <1>1. ASSUME HasBarrier(task'.f), shares'.of # {}
        PROVE  (Posted \/ FirstHalf \/ SecondHalf)'
    <2>1. CASE post_work(t)
      BY <2>1, PostShares
    <2>2. CASE ~post_work(t)
      <3>1. task'.f = task.f
        <4>1. task \in [expected : 0 .. Size, f : Kinds]
          BY DEF IInv, TypeOK
        <4> QED BY <2>2, <4>1 DEF Step, Acquire, i_am_ready, enter_async, ProcessMatch,
               leave_async, enter_sync_zone, leave_sync_zone, Exit, barrier_resize_unlocked,
               GetJob, DoShare, barrier_wait, LeaveBarrier, DoSecondShare, leave_roaming,
               PostWait, post_work_stop
      <3>2. shares'.of = shares.of
        <4>1. shares \in [first : SUBSET Threads, second : SUBSET Threads, of : SUBSET Threads]
          BY DEF IInv, TypeOK
        <4>2. CASE shares' = shares
          BY <4>2
        <4>3. CASE DoShare(t)
          BY <4>1, <4>3 DEF DoShare
        <4>4. CASE DoSecondShare(t)
          BY <4>1, <4>4 DEF DoSecondShare
        <4>5. CASE enter_sync_zone(t)
          <5>1. \/ shares' = shares
                \/ shares' = [first |-> {}, second |-> {}, of |-> {}]
            BY <4>5 DEF enter_sync_zone
          <5> QED BY <1>1, <4>2, <5>1
        <4> QED BY <2>2, <4>2, <4>3, <4>4, <4>5 DEF Step, Acquire, i_am_ready, enter_async,
               ProcessMatch, leave_async, leave_sync_zone, Exit, barrier_resize_unlocked,
               GetJob, barrier_wait, LeaveBarrier, leave_roaming, PostWait, post_work_stop
      <3>3. HasBarrier(task.f) /\ shares.of # {}
        BY <1>1, <3>1, <3>2
      <3>4. CASE Aside
        BY <3>3, <3>4, AsideShares
      <3>5. CASE enter_sync_zone(t)
        <4>1. shares' = shares
          <5>1. \/ shares' = shares
                \/ shares' = [first |-> {}, second |-> {}, of |-> {}]
            BY <3>5 DEF enter_sync_zone
          <5> QED BY <1>1, <5>1
        <4> QED BY <3>4, <3>5, <4>1, AsideSteps
      <3>6. CASE LeaveBarrier(t) /\ Even
        <4>1. /\ Uncalled /\ pc' = pc /\ shares' = shares
          BY <3>6, StaysInside
        <4> QED BY <3>1, <3>4, <4>1 DEF Aside, In
      <3>7. CASE LeaveBarrier(t) /\ ~Even
        BY <3>3, <3>7, DepartureShares
      <3>8. CASE barrier_wait(t)
        BY <3>3, <3>8, ArrivalShares
      <3>9. CASE DoShare(t)
        BY <3>3, <3>9, FirstShares
      <3>10. CASE DoSecondShare(t)
        BY <3>3, <3>10, SecondShares
      <3>11. CASE barrier_resize_unlocked(t)
        BY <3>3, <3>11, BeginShares
      <3>12. CASE \/ Acquire(t) \/ i_am_ready(t) \/ enter_async(t) \/ ProcessMatch(t)
                  \/ leave_async(t) \/ leave_sync_zone(t) \/ Exit(t)
                  \/ GetJob(t) \/ leave_roaming(t) \/ PostWait(t) \/ post_work_stop(t)
        <4>1. shares' = shares
          BY <3>12 DEF Acquire, i_am_ready, enter_async, ProcessMatch, leave_async,
             leave_sync_zone, Exit, GetJob, leave_roaming, PostWait, post_work_stop
        <4> QED BY <3>4, <3>12, <4>1, AsideSteps
      <3> QED
        BY <2>2, <3>5, <3>6, <3>7, <3>8, <3>9, <3>10, <3>11, <3>12 DEF Step
    <2> QED BY <2>1, <2>2
  <1>2. ASSUME shares'.of = {}
        PROVE  /\ shares'.first = {} /\ shares'.second = {}
               /\ In({"roam", "roam2", "barrier", "in_barrier", "resize"})' = {}
               /\ task'.expected = 0 \/ In({"conduct"})' # {}
    BY <1>2, NothingPosted
  <1> QED BY <1>1, <1>2 DEF ShareInv

-------------------------------------------------------------------------------
(* The theorems.                                                           *)

LEMMA InitInv == Init => IInv
  <1> SUFFICES ASSUME Init PROVE IInv
    OBVIOUS
  <1>0. /\ Size \in Nat /\ Size # 0 /\ Nobody \notin Threads
        /\ MaxAd \in Nat /\ MaxJobs \in Nat
    <2>1. Cardinality(Threads) # 0
      BY TeamAssumption, FS_EmptySet DEF TeamAssumption
    <2> QED BY <2>1, SizeType, TeamAssumption DEF TeamAssumption, Size
  <1>p. /\ pc \in [Threads -> Labels] /\ wait \in [Threads -> Conditions]
        /\ \A t \in Threads : pc[t] = "start" /\ wait[t] = "lock"
    BY DEF Init, Labels, Conditions
  <1>e. ASSUME NEW L, "start" \notin L
        PROVE  In(L) = {} /\ Cardinality(In(L)) = 0
    <2>1. In(L) = {}
      BY <1>p, <1>e DEF In
    <2> QED BY <2>1, FS_EmptySet
  <1>1. TypeOK
    <2>1. my \in [Threads -> [index : 0 .. Size - 1, event : Nat, f : Kinds,
                             leads : BOOLEAN, to_post : Seq(Kinds)]]
      <3>1. <<>> \in Seq(Kinds) /\ "none" \in Kinds /\ 0 \in 0 .. Size - 1
        BY <1>0 DEF Kinds
      <3> QED BY <3>1 DEF Init
    <2>2. /\ count \in [ready : 0 .. Size, sync : 0 .. Size, async : 0 .. Size,
                        sync2 : 0 .. Size, roaming : 0 .. Size]
          /\ task \in [expected : 0 .. Size, f : Kinds]
          /\ bar \in [left : 0 .. Size, count : 0 .. Size, event : Nat]
      <3>1. 0 \in 0 .. Size /\ "none" \in Kinds /\ 0 \in Nat
        BY <1>0 DEF Kinds
      <3>2. /\ count = [ready |-> 0, sync |-> 0, async |-> 0, sync2 |-> 0, roaming |-> 0]
            /\ task = [expected |-> 0, f |-> "none"]
            /\ bar = [left |-> 0, count |-> 0, event |-> 0]
        BY DEF Init
      <3> QED BY <3>1, <3>2
    <2>3. /\ jobs \in [league : Nat, own : [Threads -> Nat], found : 0 .. MaxJobs]
          /\ shares \in [first : SUBSET Threads, second : SUBSET Threads, of : SUBSET Threads]
      BY <1>0 DEF Init
    <2>4. lock \in Threads \union {Nobody} /\ idx \in 0 .. MaxAd
      <3>1. 0 \in 0 .. MaxAd
        BY <1>0
      <3>2. lock = Nobody /\ idx = 0
        BY DEF Init
      <3> QED BY <3>1, <3>2
    <2>5. done \in BOOLEAN
      <3>1. done = FALSE
        BY DEF Init
      <3> QED BY <3>1
    <2> QED BY <1>p, <2>1, <2>2, <2>3, <2>4, <2>5 DEF TypeOK
  <1>2. CountInv
    <2>1. /\ Cardinality(In({"loop"})) = 0 /\ Cardinality(In(Zone)) = 0
          /\ Cardinality(In({"async", "leave_async"})) = 0
          /\ Cardinality(In(Within)) = 0 /\ Cardinality(In(Joined)) = 0
      BY <1>e DEF Zone, Within, Joined
    <2> QED BY <2>1 DEF CountInv, Init
  <1>3. LockInv
    BY <1>0, <1>p DEF LockInv, Init, Within
  <1>4. BarInv
    <2>1. In({"in_barrier"}) = {} /\ Cardinality(In({"in_barrier"})) = 0
      BY <1>e
    <2>2. Coming = {}
      BY <1>p DEF Coming, Called
    <2>3. Cardinality(Coming) = 0
      BY <2>2, FS_EmptySet
    <2>4. Even /\ bar.left = 0 /\ bar.count = 0
      BY DEF Init, Even
    <2> QED BY <2>1, <2>3, <2>4 DEF BarInv
  <1>5. ShareInv
    <2>1. In({"roam", "roam2", "barrier", "in_barrier", "resize"}) = {}
      BY <1>e
    <2> QED BY <2>1 DEF ShareInv, Init
  <1>6. MatchInv
    BY DEF MatchInv, Init
  <1> QED BY <1>1, <1>2, <1>3, <1>4, <1>5, <1>6 DEF IInv

LEMMA NextInv == IInv /\ [Next]_vars => IInv'
  <1> SUFFICES ASSUME IInv, [Next]_vars PROVE IInv'
    OBVIOUS
  <1>1. CASE UNCHANGED vars
    <2>0. /\ lock' = lock /\ pc' = pc /\ wait' = wait /\ count' = count /\ my' = my
          /\ done' = done /\ idx' = idx /\ task' = task /\ bar' = bar /\ jobs' = jobs
          /\ shares' = shares
      BY <1>1 DEF vars
    <2>1. TypeOK'
      BY <2>0 DEF IInv, TypeOK
    <2>3. (Coming' = Coming) /\ (Even' <=> Even)
      BY <2>0 DEF Coming, Called, Even
    <2>4. CountInv'
      BY <2>0 DEF IInv, CountInv, In
    <2>5. LockInv'
      BY <2>0 DEF IInv, LockInv
    <2>6. BarInv'
      BY <2>0, <2>3 DEF IInv, BarInv, In
    <2>7. /\ Posted' <=> Posted
          /\ FirstHalf' <=> FirstHalf
          /\ SecondHalf' <=> SecondHalf
      BY <2>0, <2>3 DEF Posted, FirstHalf, SecondHalf, In
    <2>8. ShareInv'
      BY <2>0, <2>7 DEF IInv, ShareInv, In
    <2>9. MatchInv'
      BY <2>0 DEF IInv, MatchInv
    <2> QED BY <2>1, <2>4, <2>5, <2>6, <2>8, <2>9 DEF IInv
  <1>2. CASE Next
    <2>1. ASSUME NEW t \in Threads, Step(t) PROVE IInv'
      BY <2>1, TypeStep, CountStep, LockStep, BarStep, ShareStep, MatchStep DEF IInv
    <2>2. CASE Ended
      BY <1>1, <2>2 DEF Ended
    <2> QED BY <1>2, <2>1, <2>2 DEF Next
  <1> QED BY <1>1, <1>2

THEOREM TeamInvariant == Spec => []IInv
  BY InitInv, NextInv, PTL DEF Spec

(* Every variable has its type, and the counters of the team, the          *)
(* barrier's number of places and the indices stay within the size of the  *)
(* team (polyselect_thread_team.c, barrier.c).                             *)
THEOREM TeamTypes == Spec => []TypeOK
  <1>1. IInv => TypeOK
    BY DEF IInv
  <1> QED BY <1>1, TeamInvariant, PTL

(* The invariant of polyselect_thread_team.h:95-103 on the five counters   *)
(* that the transitions of a thread keep.                                  *)
THEOREM CountersRight == Spec => []CountersAgree
  <1>1. IInv => CountersAgree
    <2> SUFFICES ASSUME IInv PROVE CountersAgree
      OBVIOUS
    <2>1. ASSUME \A t \in Threads : pc[t] # "start"
          PROVE  count.ready + count.sync + count.async = Size
      <3>1. In(Joined) = Threads
        BY <2>1 DEF In, Joined, IInv, TypeOK
      <3> QED BY <3>1 DEF IInv, CountInv, Size
    <2>2. In(Within) \subseteq In(Zone) /\ IsFiniteSet(In(Zone))
      BY InFinite DEF In, Zone
    <2>3. Cardinality(In(Within)) <= Cardinality(In(Zone))
      BY <2>2, FS_Subset
    <2>4. /\ count.roaming = count.sync2 /\ count.sync2 = Cardinality(In(Within))
          /\ Cardinality(In(Zone)) <= count.sync
          /\ count.sync \in Int /\ count.sync2 \in Int
          /\ Cardinality(In(Within)) \in Int /\ Cardinality(In(Zone)) \in Int
      BY Counts, SizeType DEF IInv, CountInv, TypeOK
    <2>5. count.sync2 <= count.sync /\ count.roaming <= count.sync2
      BY <2>3, <2>4
    <2> QED BY <2>1, <2>5 DEF CountersAgree
  <1> QED BY <1>1, TeamInvariant, PTL

(* When post_work() returns from a task with a barrier, all threads it was *)
(* posted to have done both halves of their shares, however late they      *)
(* woke up and whoever came back from a match meanwhile.                   *)
THEOREM TasksComplete == Spec => []BarrierTasksComplete
  <1>1. IInv => BarrierTasksComplete
    <2> SUFFICES ASSUME IInv, NEW t \in Threads, pc[t] = "conduct", HasBarrier(task.f)
                 PROVE  shares.first = shares.of /\ shares.second = shares.of
      BY DEF BarrierTasksComplete
    <2>1. lock = t /\ count.sync2 = 0
      BY DEF IInv, LockInv
    <2>2. In(Within) = {}
      BY <2>1, NobodyWithin DEF IInv
    <2>3. In({"resize"}) = {}
      <3>1. ASSUME NEW r \in Threads, pc[r] = "resize" PROVE FALSE
        <4>1. lock = r
          BY <3>1 DEF IInv, LockInv
        <4> QED BY <2>1, <3>1, <4>1
      <3> QED BY <3>1 DEF In
    <2>4. CASE shares.of = {}
      BY <2>4 DEF IInv, ShareInv
    <2>5. CASE shares.of # {}
      <3>1. SecondHalf
        BY <2>2, <2>3, <2>5 DEF IInv, ShareInv, Posted, FirstHalf
      <3>2. In({"in_barrier", "roam2"}) = {}
        BY <2>2 DEF In, Within
      <3> QED BY <3>1, <3>2 DEF SecondHalf
    <2> QED BY <2>4, <2>5
  <1> QED BY <1>1, TeamInvariant, PTL

(* All matches found have been processed when the threads have left the    *)
(* loop: each hands over its own on its way out of the zone, to a list     *)
(* that somebody is left to empty (thread_loop).                           *)
THEOREM MatchesHandedOver == Spec => []NoMatchLeft
  <1>1. IInv => NoMatchLeft
    <2> SUFFICES ASSUME IInv, \A t \in Threads : pc[t] = "ended"
                 PROVE  jobs.league = 0 /\ \A t \in Threads : jobs.own[t] = 0
      BY DEF NoMatchLeft
    <2>1. jobs \in [league : Nat, own : [Threads -> Nat], found : 0 .. MaxJobs]
      BY DEF IInv, TypeOK
    <2>2. ~(jobs.league > 0)
      BY DEF IInv, MatchInv
    <2>3. \A t \in Threads : ~(jobs.own[t] > 0)
      BY DEF IInv, MatchInv, Zone, Within
    <2> QED BY <2>1, <2>2, <2>3
  <1> QED BY <1>1, TeamInvariant, PTL

Inside == {t \in Threads : pc[t] = "in_barrier" /\ my[t].event = bar.event}

(* Nobody counts as waiting once the barrier is open.                      *)
LEMMA InsideIs ==
  ASSUME IInv
  PROVE  Inside = IF Even THEN In({"in_barrier"}) ELSE {}
  <1>1. bar.event \in Nat
    BY DEF IInv, TypeOK
  <1>2. \A t \in In({"in_barrier"}) :
          my[t].event = IF Even THEN bar.event ELSE bar.event - 1
    BY DEF IInv, BarInv
  <1>3. CASE Even
    BY <1>2, <1>3 DEF Inside, In
  <1>4. CASE ~Even
    <2>1. \A t \in In({"in_barrier"}) : my[t].event # bar.event
      BY <1>1, <1>2, <1>4
    <2> QED BY <1>4, <2>1 DEF Inside, In
  <1> QED BY <1>3, <1>4


(* A step of the team is a step of the abstract barrier, or none.          *)
LEMMA MeetingStep ==
  ASSUME IInv, IInv', NEW t \in Threads, Step(t)
  PROVE  \/ bar'.count = bar.count /\ Inside' = Inside
         \/ Inside = {} /\ Inside' = {} /\ bar'.count \in Nat
         \/ /\ t \notin Inside /\ Cardinality(Inside) < bar.count
            /\ Inside' = IF Cardinality(Inside) + 1 = bar.count THEN {} ELSE Inside \union {t}
            /\ bar'.count = bar.count
  <1>t. /\ bar \in [left : 0 .. Size, count : 0 .. Size, event : Nat] /\ Size \in Nat
        /\ bar' \in [left : 0 .. Size, count : 0 .. Size, event : Nat]
    BY SizeType, BarType DEF IInv, TypeOK
  <1>1. /\ Inside = IF Even THEN In({"in_barrier"}) ELSE {}
        /\ bar.left + Cardinality(In({"in_barrier"})) = bar.count
        /\ Cardinality(In({"in_barrier"})) \in Nat /\ IsFiniteSet(In({"in_barrier"}))
    BY InsideIs, InFinite DEF IInv, BarInv
  <1>2. Inside' = IF Even' THEN In({"in_barrier"})' ELSE {}
    <2>1. \A r \in In({"in_barrier"})' :
            my'[r].event = IF Even' THEN bar'.event ELSE bar'.event - 1
      BY DEF IInv, BarInv
    <2>2. bar'.event \in Nat
      BY <1>t
    <2>3. CASE Even'
      BY <2>1, <2>3 DEF Inside, In
    <2>4. CASE ~Even'
      <3>1. \A r \in In({"in_barrier"})' : my'[r].event # bar'.event
        BY <2>1, <2>2, <2>4
      <3> QED BY <2>4, <3>1 DEF Inside, In
    <2> QED BY <2>3, <2>4
  <1>3. CASE Uncalled
    <2>1. In({"in_barrier"})' = In({"in_barrier"}) /\ bar' = bar
      BY <1>3, UncalledComing DEF Uncalled
    <2>2. Even' <=> Even
      BY <2>1 DEF Even
    <2> QED BY <1>1, <1>2, <2>1, <2>2
  <1>4. CASE post_work(t)
    <2>1. pc[t] = "conduct" /\ pc' = [pc EXCEPT ![t] = "resize"] /\ bar' = bar
      BY <1>4 DEF post_work, At, GoOn, Goto
    <2>2. pc \in [Threads -> Labels]
      BY DEF IInv, TypeOK
    <2>3. In({"in_barrier"})' = In({"in_barrier"}) /\ (Even' <=> Even)
      BY <2>1, <2>2 DEF In, Even
    <2> QED BY <1>1, <1>2, <2>1, <2>3
  <1>5. CASE barrier_resize_unlocked(t)
    <2>1. /\ In({"in_barrier"}) = {} /\ In({"in_barrier"})' = {}
      BY <1>5, CountStep, ResizeBar
    <2>2. bar'.count \in Nat
      BY <1>t
    <2> QED BY <1>1, <1>2, <2>1, <2>2
  <1>6. CASE barrier_wait(t) /\ bar.left # 1
    <2>1. /\ bar.left >= 2 /\ bar' = OneLess(bar) /\ pc[t] = "barrier"
          /\ In({"in_barrier"})' = In({"in_barrier"}) \union {t}
          /\ t \notin In({"in_barrier"})
      BY <1>6, ArrivesEarly
    <2>2. Even
      BY <2>1, AtBarrier
    <2>3. Even' /\ bar'.count = bar.count
      BY <1>t, <2>1, <2>2 DEF Even, OneLess
    <2>4. Inside = In({"in_barrier"}) /\ Inside' = Inside \union {t}
      BY <1>1, <1>2, <2>1, <2>2, <2>3
    <2>5. Cardinality(Inside) < bar.count /\ Cardinality(Inside) + 1 # bar.count
      BY <1>t, <1>1, <2>1, <2>4
    <2> QED BY <2>1, <2>3, <2>4, <2>5
  <1>7. CASE barrier_wait(t) /\ bar.left = 1
    <2>1. /\ bar'.left = 1 /\ bar'.count = bar.count /\ pc[t] = "barrier"
          /\ bar'.event = IF bar.count = 1 THEN bar.event + 2 ELSE bar.event + 1
          /\ In({"in_barrier"})' = In({"in_barrier"}) /\ t \notin In({"in_barrier"})
      BY <1>7, ArrivesLast
    <2>2. Even
      BY <2>1, AtBarrier
    <2>3. Inside = In({"in_barrier"})
      BY <1>1, <2>2
    <2>4. Cardinality(Inside) < bar.count /\ Cardinality(Inside) + 1 = bar.count
      BY <1>t, <1>1, <1>7, <2>3
    <2>5. Inside' = {}
      <3>1. CASE bar.count = 1
        <4>1. Cardinality(In({"in_barrier"})) = 0
          BY <1>1, <2>3, <2>4, <3>1
        <4>2. In({"in_barrier"}) = {}
          BY <1>1, <4>1, FS_EmptySet
        <4> QED BY <1>2, <2>1, <4>2
      <3>2. CASE bar.count # 1
        <4>1. bar'.event = bar.event + 1 /\ bar.event \in Nat
          BY <1>t, <2>1, <3>2
        <4>2. ~Even'
          BY <2>2, <4>1, NextEven DEF Even
        <4> QED BY <1>2, <4>2
      <3> QED BY <3>1, <3>2
    <2> QED BY <2>1, <2>3, <2>4, <2>5
  <1>8. CASE LeaveBarrier(t) /\ Even
    BY <1>3, <1>8, StaysInside
  <1>9. CASE LeaveBarrier(t) /\ ~Even
    <2>1. /\ bar'.left = bar.left + 1 /\ bar'.count = bar.count
          /\ bar'.event = IF bar.left + 1 = bar.count THEN bar.event + 1 ELSE bar.event
          /\ In({"in_barrier"})' = In({"in_barrier"}) \ {t} /\ t \in In({"in_barrier"})
      BY <1>9, GoesOut
    <2>2. /\ Cardinality(In({"in_barrier"})') = Cardinality(In({"in_barrier"})) - 1
          /\ IsFiniteSet(In({"in_barrier"})')
      BY <1>1, <2>1, FS_RemoveElement
    <2>3. CASE bar.left + 1 = bar.count
      <3>1. Cardinality(In({"in_barrier"})') = 0
        BY <1>t, <1>1, <2>2, <2>3
      <3>2. In({"in_barrier"})' = {}
        BY <2>2, <3>1, FS_EmptySet
      <3> QED BY <1>1, <1>2, <1>9, <2>1, <3>2
    <2>4. CASE bar.left + 1 # bar.count
      <3>1. bar'.event = bar.event
        BY <2>1, <2>4
      <3>2. ~Even'
        BY <1>9, <3>1 DEF Even
      <3> QED BY <1>1, <1>2, <1>9, <2>1, <3>2
    <2> QED BY <2>3, <2>4
  <1> QED
    BY <1>3, <1>4, <1>5, <1>6, <1>7, <1>8, <1>9, UncalledSteps DEF Step

(* The barrier of barrier.c, resized from task to task and entered again   *)
(* while others are still leaving it, implements Rendezvous: nobody goes   *)
(* on before all have come, and its size changes only between meetings.    *)
THEOREM BarrierKept == Spec => BarrierPromise
  <1>1. Init => R!Init
    BY DEF Init, R!Init
  <1>2. ASSUME IInv, IInv', [Next]_vars
        PROVE  [R!Next]_<<bar.count, Inside>>
    <2>1. CASE UNCHANGED vars
      BY <2>1 DEF vars, Inside
    <2>2. ASSUME NEW t \in Threads, Step(t) PROVE [R!Next]_<<bar.count, Inside>>
      <3>1. \/ bar'.count = bar.count /\ Inside' = Inside
            \/ Inside = {} /\ Inside' = {} /\ bar'.count \in Nat
            \/ /\ t \notin Inside /\ Cardinality(Inside) < bar.count
               /\ Inside' = IF Cardinality(Inside) + 1 = bar.count THEN {}
                            ELSE Inside \union {t}
               /\ bar'.count = bar.count
        BY <1>2, <2>2, MeetingStep
      <3>2. CASE bar'.count = bar.count /\ Inside' = Inside
        BY <3>2
      <3>3. CASE Inside = {} /\ Inside' = {} /\ bar'.count \in Nat
        <4>1. R!Resize
          BY <3>3 DEF R!Resize, Inside
        <4> QED BY <4>1 DEF R!Next
      <3>4. CASE /\ t \notin Inside /\ Cardinality(Inside) < bar.count
                 /\ Inside' = IF Cardinality(Inside) + 1 = bar.count THEN {}
                              ELSE Inside \union {t}
                 /\ bar'.count = bar.count
        <4>1. Cardinality(Inside) = R!Cardinality(Inside)
          BY DEF Cardinality, R!Cardinality
        <4>2. R!Arrive(t)
          BY <3>4, <4>1 DEF R!Arrive, Inside
        <4> QED BY <4>2 DEF R!Next
      <3> QED BY <3>1, <3>2, <3>3, <3>4
    <2>3. CASE Ended
      BY <2>1, <2>3 DEF Ended
    <2> QED BY <1>2, <2>1, <2>2, <2>3 DEF Next
  <1>3. IInv /\ IInv' /\ [Next]_vars =>
          [R!Next]_<<bar.count, {t \in Threads : pc[t] = "in_barrier" /\ my[t].event = bar.event}>>
    BY <1>2 DEF Inside
  <1> QED BY <1>1, <1>3, TeamInvariant, PTL DEF Spec, BarrierPromise, R!Spec
================================================================================
