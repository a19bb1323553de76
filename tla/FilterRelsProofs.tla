---------------------------- MODULE FilterRelsProofs ----------------------------
(* Theorems about FilterRels, for any number of levels, threads and slots,   *)
(* as long as fewer lines than an unsigned int can count have been found:    *)
(* about the pipe, whatever the ring buffer delivers; and about the lines    *)
(* found in the ring buffer, of any size.                                    *)
EXTENDS FilterRels, FiniteSetTheorems, FunctionTheorems, WellFoundedInduction, TLAPS

(* complete() recovers numbers below 2^32 only.                              *)
FewLines == main.nrels + SizeBuf < UIntMod

-------------------------------------------------------------------------------
(* The inductive invariant.                                                  *)

MainLabels == Labels \ {"leave"}
ConsumerLabels == {"enter", "entered", "schedule", "decide", "holds", "leave", "ended"}

PipeTypes ==
  /\ setup \in Setups
  /\ completed \in [Levels -> Nat] /\ scheduled \in [Levels -> Nat]
  /\ status \in [Slots -> Int] /\ \A x \in Slots : status[x] >= -1
  /\ active \in [Levels -> Int]
  /\ pc \in [Threads -> Labels] /\ pc[Main] \in MainLabels
  /\ \A t \in Threads \ {Main} : pc[t] \in ConsumerLabels
  /\ my \in [Threads -> [slot : Slots, s : Nat]]
  /\ DOMAIN main = {"avail_seen", "avail_offset", "nl", "nrels", "k"}
  /\ main.nrels \in Nat /\ main.k \in Levels
  /\ rels = [x \in Slots |-> rels[x]] /\ passed = [k \in Levels |-> passed[k]]

Working(t) == pc[t] \in {"parse", "holds"}

(* Level k has been drained by Main.                                         *)
Drained(k) == k < main.k \/ pc[Main] \in {"join", "ended"}

(* Level k has finished relation n.                                          *)
Done(k, n) ==
  /\ n < scheduled[k]
  /\ \A t \in Threads : LevelOf(t) = k /\ Working(t) => my[t].s # n

(* The relations that are the last ones given to their slots.                *)
Recent(n) == n < scheduled[0] /\ scheduled[0] <= n + SizeBuf

(* active[] counts the threads of a level between enter() and leave().       *)
Outside == {"enter", "drain", "join", "ended"}
Inside(k) == {t \in Threads : LevelOf(t) = k /\ pc[t] \notin Outside}
ActiveInv ==
  /\ \A k \in Levels : active[k] = Cardinality(Inside(k))
  /\ pc[Main] \notin {"enter", "entered"} => \A t \in Threads : pc[t] # "enter"
  /\ main.k > 0 => pc[Main] \in {"drain", "join", "ended"}
  /\ \A k \in Levels : Drained(k) => completed[k] = SIZE_MAX /\ Inside(k) = {}

(* There is a relation for level k to take.                                  *)
MayTake(k) ==
  IF k = 0 THEN scheduled[0] < completed[LastLevel] + SizeBuf
  ELSE ~Drained(k - 1) => scheduled[k] < completed[k - 1]

(* The comment at filter_io.cpp:222, for every two levels.                   *)
OrderInv ==
  /\ \A k \in Levels, j \in Levels : j < k =>
       /\ scheduled[k] <= scheduled[j]
       /\ ~Drained(j) => scheduled[k] <= completed[j]
  /\ \A k \in Levels : ~Drained(k) => completed[k] <= scheduled[k]
  /\ ~Drained(LastLevel) => scheduled[0] <= completed[LastLevel] + SizeBuf
  /\ scheduled[0] + (IF pc[Main] \in {"schedule", "decide"} THEN 1 ELSE 0) <= main.nrels

(* What a thread has found out in schedule().                                *)
PlaceInv ==
  \A t \in Threads, k \in Levels : LevelOf(t) = k =>
    /\ pc[t] = "leave" => /\ k > 0 /\ Drained(k - 1)
                          /\ my[t].s = scheduled[k] /\ scheduled[k] = scheduled[k - 1]
    /\ pc[t] = "decide" => ~setup.posix /\ MayTake(k)

(* What a thread that has a slot knows of it.                                *)
WorkInv ==
  /\ \A t \in Threads, k \in Levels : LevelOf(t) = k /\ Working(t) =>
       /\ completed[k] <= my[t].s /\ my[t].s < scheduled[k]
       /\ scheduled[0] <= my[t].s + SizeBuf
       /\ my[t].slot = SlotOf(my[t].s)
  /\ Working(Main) => scheduled[0] = my[Main].s + 1
  /\ \A t, u \in Threads :
       Working(t) /\ Working(u) /\ LevelOf(t) = LevelOf(u) /\ my[t].s = my[u].s => t = u

(* With locks, the status table tells how far a slot is; without, a level has *)
(* finished all it was given but the relation its one thread works on.       *)
StatusInv ==
  /\ setup.posix => \A n \in Nat, k \in Levels :
       Recent(n) => (status[SlotOf(n)] >= k <=> Done(k, n))
  /\ ~setup.posix => \A k \in Levels : ~Drained(k) =>
       /\ \A t \in Threads : LevelOf(t) = k /\ Working(t) =>
            completed[k] = my[t].s /\ scheduled[k] = my[t].s + 1
       /\ (\A t \in Threads : LevelOf(t) = k => ~Working(t)) => completed[k] = scheduled[k]

(* The lines parsed into the slots.                                          *)
Num(n) == rels[SlotOf(n)].num
Filled(n) == Recent(n) /\ ~(pc[Main] = "parse" /\ my[Main].s = n)
Found == IF pc[Main] \in {"schedule", "decide", "parse"} THEN main.nrels - 1 ELSE main.nrels
LineInv ==
  /\ \A n \in Nat : Filled(n) => Num(n) \in Nat /\ Num(n) < Found
  /\ \A n, m \in Nat : Filled(m) /\ Filled(n) /\ m < n => Num(m) < Num(n)

(* A relation has passed the levels its slot says, or all of them.           *)
PassedInv ==
  /\ \A n \in Nat, k \in Levels : Filled(n) => (Num(n) \in passed[k] <=> Done(k, n))
  /\ \A k \in Levels : \A x \in passed[k] :
       \/ \E n \in Nat : Filled(n) /\ x = Num(n)
       \/ /\ x \in Nat /\ x < Found
          /\ \A j \in Levels : x \in passed[j]
          /\ \A n \in Nat : Filled(n) => x < Num(n)

IInv ==
  /\ PipeTypes /\ ActiveInv /\ OrderInv /\ PlaceInv /\ WorkInv
  /\ StatusInv /\ LineInv /\ PassedInv

-------------------------------------------------------------------------------
(* Numbers and slots.                                                        *)

(* The sizes are what the assumptions say.                                   *)
LEMMA Sizes ==
  /\ SizeBuf \in Nat /\ SizeBuf > 0 /\ UIntMod \in Nat /\ UIntMod > 0
  /\ SizeTMod \in Nat /\ UIntMod <= SizeTMod /\ SIZE_MAX \in Nat /\ SIZE_MAX = SizeTMod - 1
  BY InflightAssumption DEF InflightAssumption, SIZE_MAX

(* A number is in its slot.                                                  *)
LEMMA Division ==
  ASSUME NEW n \in Nat
  PROVE  /\ n \div SizeBuf \in Nat /\ n % SizeBuf \in 0 .. SizeBuf - 1
         /\ n = SizeBuf * (n \div SizeBuf) + (n % SizeBuf)
  <1>1. n % SizeBuf \in 0 .. SizeBuf - 1
    BY Sizes
  <1>2. n \div SizeBuf \in Nat
    BY Sizes
  <1>3. n % SizeBuf = n - SizeBuf * (n \div SizeBuf)
    BY Sizes, SMTT(20)
  <1>4. SizeBuf * (n \div SizeBuf) \in Int
    BY <1>2, Sizes
  <1> DEFINE p == SizeBuf * (n \div SizeBuf)
             r == n % SizeBuf
  <1>5. p \in Int /\ r \in Int /\ r = n - p
    BY <1>1, <1>3, <1>4
  <1> HIDE DEF p, r
  <1>6. n = p + r
    BY <1>5
  <1> QED BY <1>1, <1>2, <1>6 DEF p, r

LEMMA SlotType == ASSUME NEW n \in Nat PROVE SlotOf(n) \in Slots
  BY Division DEF SlotOf, Slots

(* A multiple of SizeBuf less than SizeBuf above another is the same.        *)
LEMMA Multiples ==
  ASSUME NEW p \in Nat, NEW q \in Nat, SizeBuf * p < SizeBuf * q + SizeBuf
  PROVE  p <= q
  <1> SUFFICES ASSUME p >= q + 1 PROVE FALSE
    OBVIOUS
  <1>1. SizeBuf * p >= SizeBuf * (q + 1)
    BY Sizes
  <1>2. SizeBuf * (q + 1) = SizeBuf * q + SizeBuf
    BY Sizes
  <1>3. SizeBuf * p \in Nat /\ SizeBuf * q \in Nat
    BY Sizes
  <1> QED BY <1>1, <1>2, <1>3, Sizes

(* Among SizeBuf numbers in a row no two have the same slot.                 *)
LEMMA SlotUnique ==
  ASSUME NEW m \in Nat, NEW n \in Nat, m <= n, n < m + SizeBuf, SlotOf(m) = SlotOf(n)
  PROVE  m = n
  <1> DEFINE p == m \div SizeBuf
             q == n \div SizeBuf
  <1>1. /\ p \in Nat /\ q \in Nat /\ m % SizeBuf \in Nat /\ m % SizeBuf = n % SizeBuf
        /\ m = SizeBuf * p + (m % SizeBuf) /\ n = SizeBuf * q + (n % SizeBuf)
    BY Division DEF SlotOf
  <1>2. SizeBuf * p \in Nat /\ SizeBuf * q \in Nat
    BY <1>1, Sizes
  <1> HIDE DEF p, q
  <1> DEFINE P == SizeBuf * p
             Q == SizeBuf * q
             r == m % SizeBuf
  <1>a. P \in Nat /\ Q \in Nat /\ r \in Nat /\ m = P + r /\ n = Q + r
    BY <1>1, <1>2, Zenon
  <1> HIDE DEF P, Q, r
  <1>b. Q < P + SizeBuf /\ P < Q + SizeBuf
    BY <1>a, Sizes
  <1>3. SizeBuf * q < SizeBuf * p + SizeBuf /\ SizeBuf * p < SizeBuf * q + SizeBuf
    BY <1>b DEF P, Q
  <1>4. q <= p /\ p <= q
    BY <1>1, <1>3, Multiples
  <1>5. p = q
    BY <1>1, <1>4
  <1> QED BY <1>a, <1>5 DEF P, Q

(* The mask gives back the number of a slot among the SizeBuf from c on.     *)
LEMMA Recovered ==
  ASSUME NEW c \in Nat, NEW s \in Nat, c <= s, s < c + SizeBuf, c + SizeBuf < UIntMod
  PROVE  SlotOf(s) + Masked((c - SlotOf(s) + SizeBuf - 1) % SizeTMod) = s
  <1> DEFINE q == s \div SizeBuf
             r == s % SizeBuf
             x == c - r + SizeBuf - 1
  <1>d. /\ s \div SizeBuf \in Nat /\ s % SizeBuf \in 0 .. SizeBuf - 1
        /\ s = SizeBuf * (s \div SizeBuf) + (s % SizeBuf)
    BY Division
  <1>1. q \in Nat /\ r \in 0 .. SizeBuf - 1 /\ s = SizeBuf * q + r /\ SlotOf(s) = r
    BY <1>d, Zenon DEF SlotOf
  <1>2. x \in Nat /\ x < UIntMod /\ x < SizeTMod /\ SizeBuf * q \in Nat
    BY <1>1, Sizes
  <1>3. x % SizeTMod = x /\ x % UIntMod = x
    BY <1>2, Sizes
  <1>4. SizeBuf * q <= x /\ x < SizeBuf * q + SizeBuf
    BY <1>1, <1>2, Sizes
  <1>5. /\ x \div SizeBuf \in Nat /\ x % SizeBuf \in 0 .. SizeBuf - 1
        /\ x = SizeBuf * (x \div SizeBuf) + (x % SizeBuf)
    BY <1>2, Division
  <1> DEFINE y == x \div SizeBuf
  <1>6. y = q
    <2>1. SizeBuf * y \in Nat
      BY <1>5, Sizes
    <2> HIDE DEF y, q
    <2>2. y \in Nat
      BY <1>5 DEF y
    <2>3. SizeBuf * y < SizeBuf * q + SizeBuf /\ SizeBuf * q < SizeBuf * y + SizeBuf
      BY <1>1, <1>2, <1>4, <1>5, <2>1, Sizes DEF y
    <2> QED BY <1>1, <2>2, <2>3, Multiples
  <1>7. Masked(x % SizeTMod) = SizeBuf * q
    BY <1>3, <1>6 DEF Masked
  <1>8. SlotOf(s) + Masked(x % SizeTMod) = SizeBuf * q + r
    BY <1>1, <1>2, <1>7
  <1>9. c - SlotOf(s) + SizeBuf - 1 = x
    BY <1>1
  <1> QED BY <1>1, <1>8, <1>9, Zenon

(* A set of naturals has a least element.                                    *)
LEMMA LeastElement ==
  ASSUME NEW S \in SUBSET Nat, S # {}
  PROVE  \E m \in S : \A n \in S : m <= n
  <1> DEFINE R == {ss \in Nat \X Nat : ss[1] < ss[2]}
  <1>1. IsWellFoundedOn(R, Nat)
    BY NatLessThanWellFounded DEF OpToRel
  <1>2. \A x, y \in Nat : x < y => <<x, y>> \in R
    OBVIOUS
  <1> HIDE DEF R
  <1>3. PICK m \in S : \A n \in S : <<n, m>> \notin R
    BY <1>1, WFMin
  <1>4. ASSUME NEW n \in S PROVE m <= n
    <2>1. m \in Nat /\ n \in Nat /\ ~(n < m)
      BY <1>2, <1>3
    <2> QED BY <2>1
  <1> QED BY <1>4

-------------------------------------------------------------------------------
(* What the operators of the pipe compute.                                   *)

(* The threads and levels of an execution.                                   *)
LEMMA Team ==
  ASSUME PipeTypes
  PROVE  /\ setup.posix \in BOOLEAN /\ LastLevel \in Nat \ {0} /\ Levels = 0 .. LastLevel
         /\ 0 \in Levels /\ LastLevel \in Levels
         /\ IsFiniteSet(Threads) /\ Main \in Threads /\ LevelOf(Main) = 0
         /\ \A t \in Threads : LevelOf(t) \in Levels /\ (t # Main => LevelOf(t) > 0)
  <1>1. /\ setup.posix \in BOOLEAN /\ LastLevel \in Nat \ {0}
        /\ IsFiniteSet(DOMAIN setup.level) /\ Main \notin DOMAIN setup.level
        /\ setup.level \in [DOMAIN setup.level -> 1 .. LastLevel]
    BY SetupsAssumption DEF PipeTypes, SetupsAssumption, LastLevel
  <1>2. IsFiniteSet({Main} \union DOMAIN setup.level)
    BY <1>1, FS_Singleton, FS_Union
  <1> QED BY <1>1, <1>2 DEF Levels, Threads, LevelOf

(* Without locks, no two threads work at one level.                          *)
LEMMA OneEach ==
  ASSUME PipeTypes, ~setup.posix, NEW t \in Threads, NEW u \in Threads,
         LevelOf(t) = LevelOf(u)
  PROVE  t = u
  <1>1. /\ Main \notin DOMAIN setup.level
        /\ \A v, w \in DOMAIN setup.level : setup.level[v] = setup.level[w] => v = w
    BY SetupsAssumption DEF PipeTypes, SetupsAssumption
  <1>2. t = Main <=> u = Main
    BY Team
  <1> QED BY <1>1, <1>2 DEF Threads, LevelOf

LEMMA Frame ==
  ASSUME UNCHANGED setup
  PROVE  /\ Threads' = Threads /\ Levels' = Levels /\ LastLevel' = LastLevel
         /\ \A t : LevelOf(t)' = LevelOf(t)
  BY DEF Threads, Levels, LastLevel, LevelOf

(* A slot holds one recent relation.                                         *)
LEMMA RecentUnique ==
  ASSUME PipeTypes, NEW m \in Nat, NEW n \in Nat, Recent(m), Recent(n), SlotOf(m) = SlotOf(n)
  PROVE  m = n
  <1>1. scheduled[0] \in Nat /\ SizeBuf \in Nat
    BY Team, Sizes DEF PipeTypes
  <1>2. CASE m <= n
    BY <1>1, <1>2, SlotUnique DEF Recent
  <1>3. CASE n <= m
    BY <1>1, <1>3, SlotUnique DEF Recent
  <1> QED BY <1>2, <1>3

(* catchup() stops at the first relation that has not passed the level.      *)
LEMMA CaughtUpRange ==
  ASSUME PipeTypes, NEW k \in Levels, NEW c \in Nat, NEW limit \in Nat, c <= limit
  PROVE  /\ CaughtUp(k, c, limit) \in Nat
         /\ c <= CaughtUp(k, c, limit) /\ CaughtUp(k, c, limit) <= limit
         /\ ~setup.posix => CaughtUp(k, c, limit) = c
         /\ setup.posix => \A e \in Nat : c <= e /\ e < CaughtUp(k, c, limit)
                                            => status[SlotOf(e)] >= k
  <1>1. CASE ~setup.posix
    BY <1>1 DEF CaughtUp
  <1>2. CASE setup.posix
    <2> DEFINE Stop(d) == d = limit \/ status[SlotOf(d)] < k
               P(d) == /\ \A e \in c .. d - 1 : status[SlotOf(e)] >= k
                       /\ Stop(d)
               S == {d \in c .. limit : Stop(d)}
    <2>1. S \in SUBSET Nat /\ limit \in S
      OBVIOUS
    <2>2. PICK m \in S : \A n \in S : m <= n
      BY <2>1, LeastElement
    <2>3. \A e \in c .. m - 1 : status[SlotOf(e)] >= k
      <3> SUFFICES ASSUME NEW e \in c .. m - 1 PROVE status[SlotOf(e)] >= k
        OBVIOUS
      <3>1. e \in c .. limit /\ e \in Nat /\ ~(m <= e)
        BY <2>2
      <3>2. ~(status[SlotOf(e)] < k)
        BY <2>2, <3>1
      <3>3. status[SlotOf(e)] \in Int /\ k \in Int
        <4>1. SlotOf(e) \in Slots
          BY <3>1, SlotType
        <4>2. k \in Int
          BY Team
        <4> QED BY <4>1, <4>2 DEF PipeTypes
      <3> DEFINE x == status[SlotOf(e)]
      <3>4. x \in Int /\ ~(x < k)
        BY <3>2, <3>3
      <3> HIDE DEF x
      <3>5. x >= k
        BY <3>3, <3>4
      <3> QED BY <3>5 DEF x
    <2>4. m \in c .. limit /\ P(m)
      BY <2>2, <2>3
    <2>5. CaughtUp(k, c, limit) = CHOOSE d \in c .. limit : P(d)
      BY <1>2 DEF CaughtUp
    <2> HIDE DEF S, P
    <2>6. CaughtUp(k, c, limit) \in c .. limit /\ P(CaughtUp(k, c, limit))
      BY <2>4, <2>5
    <2> QED BY <1>2, <2>6 DEF P
  <1> QED BY <1>1, <1>2, Team

-------------------------------------------------------------------------------
(* The steps that move no relation.                                          *)

Pipes == <<setup, completed, scheduled, status, active, my, rels, passed>>
Counters == <<setup, completed, scheduled, status, rels, passed>>
MainFields == {"avail_seen", "avail_offset", "nl", "nrels", "k"}
TypedPc ==
  /\ pc \in [Threads -> Labels] /\ pc[Main] \in MainLabels
  /\ \A t \in Threads \ {Main} : pc[t] \in ConsumerLabels
TypedMain == DOMAIN main = MainFields /\ main.nrels \in Nat /\ main.k \in Levels

(* The types of the pipe, and its invariants, by name.                       *)
LEMMA Parts ==
  ASSUME IInv
  PROVE  /\ PipeTypes /\ ActiveInv /\ OrderInv /\ PlaceInv /\ WorkInv
         /\ StatusInv /\ LineInv /\ PassedInv
  BY DEF IInv

LEMMA Types ==
  ASSUME IInv
  PROVE  /\ setup.posix \in BOOLEAN /\ LastLevel \in Nat \ {0} /\ Levels = 0 .. LastLevel
         /\ 0 \in Levels /\ LastLevel \in Levels /\ Levels \subseteq Nat
         /\ scheduled \in [Levels -> Nat] /\ completed \in [Levels -> Nat]
         /\ active \in [Levels -> Int] /\ status \in [Slots -> Int]
         /\ my \in [Threads -> [slot : Slots, s : Nat]]
         /\ pc \in [Threads -> Labels] /\ pc[Main] \in MainLabels
         /\ \A t \in Threads \ {Main} : pc[t] \in ConsumerLabels
         /\ DOMAIN main = MainFields /\ main.nrels \in Nat /\ main.k \in Levels
         /\ rels = [x \in Slots |-> rels[x]] /\ passed = [k \in Levels |-> passed[k]]
         /\ Main \in Threads /\ LevelOf(Main) = 0
         /\ \A t \in Threads : LevelOf(t) \in Levels /\ (t # Main => LevelOf(t) > 0)
  <1>1. PipeTypes
    BY Parts
  <1>2. Levels \subseteq Nat
    BY <1>1, Team
  <1> QED BY <1>1, <1>2, Team DEF PipeTypes, MainFields

(* Main and nobody else is at level 0, and a later level follows another.    *)
LEMMA LevelTypes ==
  ASSUME IInv, NEW t \in Threads, NEW k \in Levels, LevelOf(t) = k
  PROVE  /\ t = Main <=> k = 0
         /\ k \in Nat
         /\ k > 0 => k - 1 \in Levels
  <1>1. t = Main <=> k = 0
    BY Parts, Team
  <1>2. LastLevel \in Nat \ {0} /\ Levels = 0 .. LastLevel
    BY Parts, Team
  <1> QED BY <1>1, <1>2

(* A step by which no thread gets or gives back a slot, and no level that     *)
(* somebody works at is found to have finished his relation.                 *)
LEMMA SameSlots ==
  ASSUME IInv, UNCHANGED <<setup, scheduled, status>>,
         \A t \in Threads : /\ Working(t)' <=> Working(t)
                            /\ Working(t) => my'[t] = my[t],
         \A t \in Threads, k \in Levels : LevelOf(t) = k /\ Working(t) => completed'[k] <= my[t].s,
         ~setup.posix => \A k \in Levels :
            ~Drained(k)' => ~Drained(k) /\ completed'[k] = completed[k]
  PROVE  /\ WorkInv' /\ StatusInv'
         /\ \A k \in Levels, n \in Nat : Done(k, n)' <=> Done(k, n)
         /\ \A n \in Nat : Recent(n)' <=> Recent(n)
  <1>f. /\ Threads' = Threads /\ Levels' = Levels /\ LastLevel' = LastLevel
        /\ \A t : LevelOf(t)' = LevelOf(t)
    BY Frame
  <1>p. PipeTypes
    BY DEF IInv
  <1>w. \A t \in Threads : (Working(t)' <=> Working(t)) /\ (Working(t) => my'[t] = my[t])
    OBVIOUS
  <1>3. WorkInv'
    <2>1. WorkInv /\ Main \in Threads /\ scheduled' = scheduled
      BY <1>p, Team DEF IInv
    <2>2. \A t \in Threads, k \in Levels : LevelOf(t) = k /\ Working(t)' =>
             /\ completed'[k] <= my'[t].s /\ my'[t].s < scheduled'[k]
             /\ scheduled'[0] <= my'[t].s + SizeBuf
             /\ my'[t].slot = SlotOf(my'[t].s)
      BY <1>w, <2>1 DEF WorkInv
    <2>3. Working(Main)' => scheduled'[0] = my'[Main].s + 1
      BY <1>w, <2>1 DEF WorkInv
    <2>4. \A t, u \in Threads : Working(t)' /\ Working(u)' /\ LevelOf(t) = LevelOf(u)
                                  /\ my'[t].s = my'[u].s => t = u
      BY <1>w, <2>1 DEF WorkInv
    <2>5. \A n : SlotOf(n)' = SlotOf(n)
      BY DEF SlotOf
    <2> QED BY <1>f, <2>2, <2>3, <2>4, <2>5 DEF WorkInv
  <1>n. \A k \in Levels, n \in Nat : Done(k, n)' <=> Done(k, n)
    BY <1>f DEF Done
  <1>r. \A n \in Nat : Recent(n)' <=> Recent(n)
    BY DEF Recent
  <1>4. StatusInv'
    <2>1. StatusInv
      BY DEF IInv
    <2>2. setup.posix => \A n \in Nat, k \in Levels :
            Recent(n)' => (status'[SlotOf(n)] >= k <=> Done(k, n)')
      BY <1>n, <1>r, <2>1 DEF StatusInv
    <2>3. ~setup.posix => \A k \in Levels : ~Drained(k)' =>
            /\ \A t \in Threads : LevelOf(t) = k /\ Working(t)' =>
                 completed'[k] = my'[t].s /\ scheduled'[k] = my'[t].s + 1
            /\ (\A t \in Threads : LevelOf(t) = k => ~Working(t)') => completed'[k] = scheduled'[k]
      BY <1>w, <2>1 DEF StatusInv
    <2> QED BY <1>f, <2>2, <2>3 DEF StatusInv
  <1> QED BY <1>3, <1>4, <1>n, <1>r

(* A step that leaves alone the lines in the slots and what the levels have   *)
(* finished.                                                                 *)
LEMMA SameLines ==
  ASSUME IInv, UNCHANGED <<setup, rels, passed>>,
         \A n \in Nat, k \in Levels : Done(k, n)' <=> Done(k, n),
         \A n \in Nat : Filled(n)' <=> Filled(n),
         Found \in Int, Found' \in Int, Found <= Found'
  PROVE  LineInv' /\ PassedInv'
  <1>f. /\ Threads' = Threads /\ Levels' = Levels /\ LastLevel' = LastLevel
        /\ \A t : LevelOf(t)' = LevelOf(t)
    BY Frame
  <1>5. LineInv'
    <2>1. LineInv
      BY DEF IInv
    <2>2. \A n \in Nat : Num(n)' = Num(n)
      BY DEF Num
    <2>3. ASSUME NEW n \in Nat, Filled(n)' PROVE Num(n)' \in Nat /\ Num(n)' < Found'
      BY <2>1, <2>2, <2>3 DEF LineInv
    <2>4. \A n, m \in Nat : Filled(m)' /\ Filled(n)' /\ m < n => Num(m)' < Num(n)'
      BY <2>1, <2>2 DEF LineInv
    <2> QED BY <2>3, <2>4 DEF LineInv
  <1>6. PassedInv'
    <2>1. PassedInv
      BY DEF IInv
    <2>2. \A n \in Nat : Num(n)' = Num(n)
      BY DEF Num
    <2>3. \A n \in Nat, k \in Levels : Filled(n)' => (Num(n)' \in passed'[k] <=> Done(k, n)')
      BY <2>1, <2>2 DEF PassedInv
    <2>4. ASSUME NEW k \in Levels, NEW x \in passed'[k]
          PROVE  \/ \E n \in Nat : Filled(n)' /\ x = Num(n)'
                 \/ /\ x \in Nat /\ x < Found'
                    /\ \A j \in Levels : x \in passed'[j]
                    /\ \A n \in Nat : Filled(n)' => x < Num(n)'
      <3>1. CASE \E n \in Nat : Filled(n) /\ x = Num(n)
        BY <2>2, <3>1
      <3>2. CASE /\ x \in Nat /\ x < Found
                 /\ \A j \in Levels : x \in passed[j]
                 /\ \A n \in Nat : Filled(n) => x < Num(n)
        BY <2>2, <3>2
      <3> QED BY <2>1, <3>1, <3>2 DEF PassedInv
    <2> QED BY <1>f, <2>3, <2>4 DEF PassedInv
  <1> QED BY <1>5, <1>6

(* A step that does both.                                                    *)
LEMMA SameWork ==
  ASSUME IInv, UNCHANGED <<setup, scheduled, status, rels, passed>>,
         \A t \in Threads : /\ Working(t)' <=> Working(t)
                            /\ Working(t) => my'[t] = my[t],
         pc'[Main] = "parse" <=> pc[Main] = "parse",
         Found \in Int, Found' \in Int, Found <= Found',
         \A t \in Threads, k \in Levels : LevelOf(t) = k /\ Working(t) => completed'[k] <= my[t].s,
         ~setup.posix => \A k \in Levels :
            ~Drained(k)' => ~Drained(k) /\ completed'[k] = completed[k]
  PROVE  WorkInv' /\ StatusInv' /\ LineInv' /\ PassedInv'
  <1>f. /\ Threads' = Threads /\ Levels' = Levels /\ LastLevel' = LastLevel
        /\ \A t : LevelOf(t)' = LevelOf(t)
    BY Frame
  <1>p. PipeTypes
    BY DEF IInv
  <1>w. \A t \in Threads : (Working(t)' <=> Working(t)) /\ (Working(t) => my'[t] = my[t])
    OBVIOUS
  <1>1. /\ WorkInv' /\ StatusInv'
        /\ \A k \in Levels, n \in Nat : Done(k, n)' <=> Done(k, n)
        /\ \A n \in Nat : Recent(n)' <=> Recent(n)
    BY SameSlots
  <1>n. \A k \in Levels, n \in Nat : Done(k, n)' <=> Done(k, n)
    BY <1>1
  <1>r. \A n \in Nat : /\ Recent(n)' <=> Recent(n)
                       /\ Filled(n)' <=> Filled(n)
    <2>1. pc[Main] = "parse" => my'[Main] = my[Main]
      BY <1>p, <1>w, Team DEF Working
    <2> QED BY <1>1, <2>1 DEF Filled
  <1>2. LineInv' /\ PassedInv'
    BY <1>n, <1>r, SameLines
  <1> QED BY <1>1, <1>2

(* A step that leaves the counters alone and by which no thread gets or      *)
(* gives back a slot: all of the invariant but ActiveInv.                    *)
LEMMA CalmMove ==
  ASSUME IInv, UNCHANGED Counters, active' \in [Levels -> Int],
         my' \in [Threads -> [slot : Slots, s : Nat]], TypedPc', TypedMain', main'.k = main.k,
         \A t \in Threads :
           /\ Working(t)' <=> Working(t)
           /\ Working(t) => my'[t] = my[t]
           /\ pc'[t] = "leave" => (pc[t] = "leave" /\ my'[t] = my[t])
                \/ \A k \in Levels : LevelOf(t) = k =>
                     /\ k > 0 /\ Drained(k - 1)
                     /\ my'[t].s = scheduled[k] /\ scheduled[k] = scheduled[k - 1]
           /\ pc'[t] = "decide" => pc[t] = "decide"
                \/ (~setup.posix /\ \A k \in Levels : LevelOf(t) = k => MayTake(k)),
         pc'[Main] = "parse" <=> pc[Main] = "parse",
         pc'[Main] \in {"join", "ended"} <=> pc[Main] \in {"join", "ended"},
         Found <= Found',
         scheduled[0] + (IF pc'[Main] \in {"schedule", "decide"} THEN 1 ELSE 0) <= main'.nrels
  PROVE  /\ PipeTypes' /\ OrderInv' /\ PlaceInv' /\ WorkInv'
         /\ StatusInv' /\ LineInv' /\ PassedInv'
  <1>f. /\ Threads' = Threads /\ Levels' = Levels /\ LastLevel' = LastLevel
        /\ \A t : LevelOf(t)' = LevelOf(t)
    BY Frame DEF Counters
  <1>p. PipeTypes
    BY DEF IInv
  <1>t. PipeTypes'
    <2>1. (active \in [Levels -> Int])' /\ Slots' = Slots
      BY <1>f DEF Slots
    <2>2. UNCHANGED <<setup, completed, scheduled, status, rels, passed>>
      BY DEF Counters
    <2>3. TypedPc' /\ TypedMain' /\ (my \in [Threads -> [slot : Slots, s : Nat]])'
      BY <1>f, <2>1
    <2>4. (/\ setup \in Setups
           /\ completed \in [Levels -> Nat] /\ scheduled \in [Levels -> Nat]
           /\ status \in [Slots -> Int] /\ \A x \in Slots : status[x] >= -1
           /\ rels = [x \in Slots |-> rels[x]] /\ passed = [k \in Levels |-> passed[k]])'
      BY <1>f, <1>p, <2>1, <2>2 DEF PipeTypes
    <2>5. (/\ pc \in [Threads -> Labels] /\ pc[Main] \in MainLabels
           /\ \A t \in Threads \ {Main} : pc[t] \in ConsumerLabels)'
      BY <2>3 DEF TypedPc
    <2>6. (/\ DOMAIN main = {"avail_seen", "avail_offset", "nl", "nrels", "k"}
           /\ main.nrels \in Nat /\ main.k \in Levels)'
      BY <2>3 DEF TypedMain, MainFields
    <2> QED BY <2>1, <2>3, <2>4, <2>5, <2>6 DEF PipeTypes
  <1>d. \A k \in Levels : Drained(k)' <=> Drained(k)
    BY <1>f DEF Drained
  <1>m. \A k \in Levels : MayTake(k)' <=> MayTake(k)
    <2>1. \A k \in Levels : k # 0 => k - 1 \in Levels
      BY <1>p, Team
    <2>2. scheduled' = scheduled /\ completed' = completed
      BY DEF Counters
    <2> QED BY <1>d, <1>f, <2>1, <2>2 DEF MayTake
  <1>2. OrderInv'
    <2>1. OrderInv
      BY DEF IInv
    <2>2. \A k \in Levels, j \in Levels : j < k =>
            scheduled'[k] <= scheduled'[j] /\ (~Drained(j)' => scheduled'[k] <= completed'[j])
      BY <1>d, <2>1 DEF OrderInv, Counters
    <2>3. \A k \in Levels : ~Drained(k)' => completed'[k] <= scheduled'[k]
      BY <1>d, <2>1 DEF OrderInv, Counters
    <2>5. ~Drained(LastLevel)' => scheduled'[0] <= completed'[LastLevel] + SizeBuf
      <3>1. Drained(LastLevel)' <=> Drained(LastLevel)
        BY <1>f, <1>d, <1>p, Team DEF Drained
      <3> QED BY <3>1, <2>1 DEF OrderInv, Counters
    <2>6. scheduled' = scheduled /\ completed' = completed /\ setup' = setup
      BY DEF Counters
    <2>7. \A k \in Levels : /\ ~Drained(k)' => completed[k] <= scheduled[k]
                            /\ \A j \in Levels : j < k =>
                                 /\ scheduled[k] <= scheduled[j]
                                 /\ ~Drained(j)' => scheduled[k] <= completed[j]
      BY <2>2, <2>3, <2>6
    <2>9. (/\ \A k \in Levels, j \in Levels : j < k =>
                /\ scheduled[k] <= scheduled[j]
                /\ ~Drained(j) => scheduled[k] <= completed[j]
           /\ \A k \in Levels : ~Drained(k) => completed[k] <= scheduled[k])'
      BY <1>f, <2>6, <2>7
    <2>10. (/\ ~Drained(LastLevel) => scheduled[0] <= completed[LastLevel] + SizeBuf
            /\ scheduled[0] + (IF pc[Main] \in {"schedule", "decide"} THEN 1 ELSE 0) <= main.nrels)'
      BY <1>f, <2>5, <2>6
    <2> QED BY <2>9, <2>10 DEF OrderInv
  <1>7. PlaceInv'
    <2> SUFFICES ASSUME NEW t \in Threads, NEW k \in Levels, LevelOf(t) = k
                 PROVE  /\ pc'[t] = "leave" =>
                             /\ k > 0 /\ Drained(k - 1)'
                             /\ my'[t].s = scheduled'[k] /\ scheduled'[k] = scheduled'[k - 1]
                        /\ pc'[t] = "decide" => ~setup'.posix /\ MayTake(k)'
      BY <1>f DEF PlaceInv
    <2>1. PlaceInv /\ (k > 0 => k - 1 \in Levels)
      BY <1>p, Team DEF IInv
    <2>2. scheduled' = scheduled /\ setup' = setup
      BY DEF Counters
    <2>3. (k > 0 => (Drained(k - 1)' <=> Drained(k - 1))) /\ (MayTake(k)' <=> MayTake(k))
      BY <1>d, <1>m, <2>1
    <2>4. pc'[t] = "decide" => ~setup.posix /\ MayTake(k)
      BY <2>1 DEF PlaceInv
    <2>5. pc'[t] = "leave" => /\ k > 0 /\ Drained(k - 1)
                              /\ my'[t].s = scheduled[k] /\ scheduled[k] = scheduled[k - 1]
      BY <2>1 DEF PlaceInv
    <2> QED BY <2>2, <2>3, <2>4, <2>5
  <1>3. WorkInv' /\ StatusInv' /\ LineInv' /\ PassedInv'
    <2>1. Found \in Int /\ Found' \in Int
      BY <1>p, <1>t DEF PipeTypes, Found
    <2>2. \A t \in Threads, k \in Levels : LevelOf(t) = k /\ Working(t) => completed'[k] <= my[t].s
      BY DEF IInv, WorkInv, Counters
    <2>3. UNCHANGED <<setup, scheduled, status, rels, passed>> /\ completed' = completed
      BY DEF Counters
    <2> QED BY <1>d, <2>1, <2>2, <2>3, SameWork
  <1> QED BY <1>t, <1>2, <1>3, <1>7

(* A step that leaves the counters alone, by which no thread gets or gives   *)
(* back a slot and none enters or leaves a level.                            *)
LEMMA QuietMove ==
  ASSUME IInv, UNCHANGED <<Counters, active>>, my' \in [Threads -> [slot : Slots, s : Nat]],
         TypedPc', TypedMain', main'.k = main.k,
         \A t \in Threads :
           /\ Working(t)' <=> Working(t)
           /\ pc'[t] \in Outside <=> pc[t] \in Outside
           /\ pc'[t] = "enter" <=> pc[t] = "enter"
           /\ Working(t) => my'[t] = my[t]
           /\ pc'[t] = "leave" => (pc[t] = "leave" /\ my'[t] = my[t])
                \/ \A k \in Levels : LevelOf(t) = k =>
                     /\ k > 0 /\ Drained(k - 1)
                     /\ my'[t].s = scheduled[k] /\ scheduled[k] = scheduled[k - 1]
           /\ pc'[t] = "decide" => pc[t] = "decide"
                \/ (~setup.posix /\ \A k \in Levels : LevelOf(t) = k => MayTake(k)),
         pc'[Main] \notin {"enter", "entered"} => \A t \in Threads : pc[t] # "enter",
         pc'[Main] = "parse" <=> pc[Main] = "parse",
         pc'[Main] \in {"join", "ended"} <=> pc[Main] \in {"join", "ended"},
         main.k > 0 => pc'[Main] \in {"drain", "join", "ended"},
         Found <= Found',
         scheduled[0] + (IF pc'[Main] \in {"schedule", "decide"} THEN 1 ELSE 0) <= main'.nrels
  PROVE  IInv'
  <1>f. /\ Threads' = Threads /\ Levels' = Levels /\ LastLevel' = LastLevel
        /\ \A t : LevelOf(t)' = LevelOf(t)
    BY Frame DEF Counters
  <1>d. \A k \in Levels : Drained(k)' <=> Drained(k)
    BY <1>f DEF Drained
  <1>i. \A k \in Levels : Inside(k)' = Inside(k)
    BY <1>f DEF Inside
  <1>1. ActiveInv'
    <2>1. ActiveInv
      BY DEF IInv
    <2>2. \A k \in Levels : active'[k] = Cardinality(Inside(k)')
      BY <1>i, <2>1 DEF ActiveInv
    <2>3. \A k \in Levels : Drained(k)' => completed'[k] = SIZE_MAX /\ Inside(k)' = {}
      BY <1>d, <1>i, <2>1 DEF ActiveInv, Counters
    <2> QED BY <1>f, <2>2, <2>3 DEF ActiveInv
  <1>2. /\ PipeTypes' /\ OrderInv' /\ PlaceInv' /\ WorkInv'
        /\ StatusInv' /\ LineInv' /\ PassedInv'
    BY Types, CalmMove
  <1> QED BY <1>1, <1>2 DEF IInv

(* A step that leaves the pipe alone, by which no thread gets or gives back  *)
(* a slot and none enters or leaves a level.                                 *)
LEMMA QuietStep ==
  ASSUME IInv, UNCHANGED Pipes, TypedPc', TypedMain', main'.k = main.k,
         \A t \in Threads :
           /\ Working(t)' <=> Working(t)
           /\ pc'[t] \in Outside <=> pc[t] \in Outside
           /\ pc'[t] = "enter" <=> pc[t] = "enter"
           /\ pc'[t] = "leave" => pc[t] = "leave"
           /\ pc'[t] = "decide" => pc[t] = "decide"
                \/ (~setup.posix /\ \A k \in Levels : LevelOf(t) = k => MayTake(k)),
         pc'[Main] \notin {"enter", "entered"} => \A t \in Threads : pc[t] # "enter",
         pc'[Main] = "parse" <=> pc[Main] = "parse",
         pc'[Main] \in {"join", "ended"} <=> pc[Main] \in {"join", "ended"},
         main.k > 0 => pc'[Main] \in {"drain", "join", "ended"},
         Found <= Found',
         scheduled[0] + (IF pc'[Main] \in {"schedule", "decide"} THEN 1 ELSE 0) <= main'.nrels
  PROVE  IInv'
  BY QuietMove, Types DEF Pipes, Counters

-------------------------------------------------------------------------------
(* What a thread finds out in schedule().                                    *)

(* No counter of a level in use comes near the end of its range.             *)
LEMMA NoOverflow ==
  ASSUME IInv, FewLines, NEW k \in Levels
  PROVE  /\ scheduled[k] \in Nat /\ scheduled[k] + SizeBuf < UIntMod
         /\ ~Drained(k) => /\ completed[k] \in Nat /\ completed[k] <= scheduled[k]
                           /\ completed[k] + SizeBuf < UIntMod /\ completed[k] # SIZE_MAX
         /\ Drained(k) <=> completed[k] = SIZE_MAX
  <1>1. /\ scheduled \in [Levels -> Nat] /\ completed \in [Levels -> Nat]
        /\ main.nrels \in Nat /\ k \in Nat /\ 0 \in Levels
    BY Types
  <1>2. /\ scheduled[0] <= main.nrels /\ scheduled[k] <= scheduled[0]
        /\ ~Drained(k) => completed[k] <= scheduled[k]
    <2>1. OrderInv
      BY DEF IInv
    <2>2. scheduled[k] <= scheduled[0]
      <3>1. CASE k = 0
        BY <1>1, <3>1
      <3>2. CASE 0 < k
        BY <1>1, <2>1, <3>2 DEF OrderInv
      <3> QED BY <1>1, <3>1, <3>2
    <2>3. scheduled[0] <= main.nrels
      BY <1>1, <2>1 DEF OrderInv
    <2>4. ~Drained(k) => completed[k] <= scheduled[k]
      BY <2>1 DEF OrderInv
    <2> QED BY <2>2, <2>3, <2>4
  <1>3. scheduled[k] + SizeBuf < UIntMod
    BY <1>1, <1>2, Sizes DEF FewLines
  <1>4. Drained(k) => completed[k] = SIZE_MAX
    BY DEF IInv, ActiveInv
  <1> QED BY <1>1, <1>2, <1>3, <1>4, Sizes

(* The levels Main has drained are the first ones.                           *)
LEMMA DrainedLevels ==
  ASSUME IInv, NEW k \in Levels
  PROVE  /\ Drained(k) => \A j \in Levels : j <= k => Drained(j)
         /\ Drained(LastLevel) <=> pc[Main] \in {"join", "ended"}
         /\ Drained(0) => pc[Main] \in {"drain", "join", "ended"}
  <1>1. /\ LastLevel \in Nat /\ Levels = 0 .. LastLevel /\ main.k \in Levels
        /\ main.k > 0 => pc[Main] \in {"drain", "join", "ended"}
    BY Types, Parts DEF ActiveInv
  <1> QED BY <1>1 DEF Drained

LEMMA RoomValue ==
  ASSUME IInv, FewLines, NEW k \in Levels
  PROVE  /\ k > 0 => Prev(k) \in Levels /\ Prev(k) = k - 1 /\ Room(k) = completed[k - 1]
         /\ k = 0 /\ ~Drained(LastLevel) => /\ Prev(k) = LastLevel
                                            /\ Room(k) = completed[LastLevel] + SizeBuf
  <1>1. /\ LastLevel \in Nat \ {0} /\ Levels = 0 .. LastLevel /\ LastLevel \in Levels
        /\ completed \in [Levels -> Nat]
    BY Types
  <1>2. CASE k > 0
    <2>1. Prev(k) = k - 1 /\ k - 1 \in Levels /\ k # 0
      BY <1>1, <1>2 DEF Prev
    <2>2. completed[k - 1] \in Nat /\ completed[k - 1] < SizeTMod
      <3>1. completed[k - 1] = SIZE_MAX \/ completed[k - 1] + SizeBuf < UIntMod
        BY <2>1, NoOverflow
      <3> QED BY <1>1, <2>1, <3>1, Sizes
    <2>3. Room(k) = (completed[k - 1] + 0) % SizeTMod
      BY <2>1 DEF Room
    <2>4. ASSUME NEW x \in Nat, x < SizeTMod PROVE (x + 0) % SizeTMod = x
      BY <2>4, Sizes
    <2>5. Room(k) = completed[k - 1]
      BY <2>2, <2>3, <2>4
    <2> QED BY <1>2, <2>1, <2>5
  <1>3. CASE k = 0 /\ ~Drained(LastLevel)
    <2>1. Prev(k) = LastLevel
      BY <1>3 DEF Prev
    <2>2. completed[LastLevel] + SizeBuf \in Nat /\ completed[LastLevel] + SizeBuf < SizeTMod
      BY <1>1, <1>3, NoOverflow, Sizes
    <2>3. Room(k) = (completed[LastLevel] + SizeBuf) % SizeTMod
      BY <1>3, <2>1 DEF Room
    <2>4. ASSUME NEW x \in Nat, x < SizeTMod PROVE x % SizeTMod = x
      BY <2>4, Sizes
    <2>5. Room(k) = completed[LastLevel] + SizeBuf
      BY <2>2, <2>3, <2>4
    <2> QED BY <1>3, <2>1, <2>5
  <1>4. k \in Nat
    BY <1>1
  <1> QED BY <1>2, <1>3, <1>4

(* schedule() waits exactly if there is nothing to take and the level before *)
(* is still in use.                                                          *)
LEMMA SchedulePromise ==
  ASSUME IInv, FewLines, NEW k \in Levels, k = 0 => ~Drained(LastLevel)
  PROVE  /\ ~NothingToSchedule(k) => MayTake(k)
         /\ NoneLeft(k) => /\ k > 0 /\ Drained(k - 1) /\ scheduled[k] = scheduled[k - 1]
         /\ k > 0 /\ Drained(k - 1) /\ ~NoneLeft(k) => scheduled[k] < scheduled[k - 1]
  <1>1. /\ LastLevel \in Nat \ {0} /\ Levels = 0 .. LastLevel /\ LastLevel \in Levels
        /\ scheduled \in [Levels -> Nat] /\ completed \in [Levels -> Nat] /\ k \in Nat
    BY Types
  <1>2. OrderInv
    BY DEF IInv
  <1>3. CASE k = 0
    <2>1. /\ Room(k) = completed[LastLevel] + SizeBuf /\ Prev(k) = LastLevel
          /\ completed[LastLevel] # SIZE_MAX
      BY <1>1, <1>3, RoomValue, NoOverflow
    <2>2. scheduled[0] <= completed[LastLevel] + SizeBuf
      BY <1>2, <1>3 DEF OrderInv
    <2>3. ~NothingToSchedule(k) => scheduled[0] < completed[LastLevel] + SizeBuf
      <3>1. scheduled[0] \in Nat /\ completed[LastLevel] + SizeBuf \in Nat
        BY <1>1, <1>3, Sizes
      <3>2. \A a, b \in Nat : a <= b /\ a # b => a < b
        OBVIOUS
      <3> QED BY <1>3, <2>1, <2>2, <3>1, <3>2 DEF NothingToSchedule
    <2> QED BY <1>3, <2>1, <2>3 DEF MayTake, NoneLeft
  <1>4. CASE k > 0
    <2>1. Prev(k) = k - 1 /\ Room(k) = completed[k - 1] /\ k - 1 \in Levels /\ k # 0
      BY <1>4, RoomValue
    <2>2. Drained(k - 1) <=> completed[k - 1] = SIZE_MAX
      BY <2>1, NoOverflow
    <2>3. scheduled[k] <= scheduled[k - 1] /\ (~Drained(k - 1) => scheduled[k] <= completed[k - 1])
      BY <1>1, <1>2, <2>1 DEF OrderInv
    <2>4. ~NothingToSchedule(k) => MayTake(k)
      BY <1>1, <2>1, <2>3 DEF NothingToSchedule, MayTake
    <2>5. NoneLeft(k) <=> Drained(k - 1) /\ scheduled[k] = scheduled[k - 1]
      BY <1>1, <2>1, <2>2 DEF NoneLeft
    <2> QED BY <1>1, <1>4, <2>1, <2>3, <2>4, <2>5
  <1> QED BY <1>1, <1>3, <1>4

(* The steps that change neither the pipe nor where a thread is.             *)
LEMMA IdleStep == ASSUME IInv, UNCHANGED <<Pipes, pc, main>> PROVE IInv'
  <1>1. /\ pc[Main] \notin {"enter", "entered"} => \A t \in Threads : pc[t] # "enter"
        /\ main.k > 0 => pc[Main] \in {"drain", "join", "ended"}
    BY Parts DEF ActiveInv
  <1>2. scheduled[0] + (IF pc[Main] \in {"schedule", "decide"} THEN 1 ELSE 0) <= main.nrels
    BY Parts DEF OrderInv
  <1>f. Threads' = Threads /\ Levels' = Levels
    BY Frame DEF Pipes
  <1>3. TypedPc' /\ TypedMain' /\ Found' = Found /\ Found <= Found'
    <2>1. TypedPc' /\ TypedMain' /\ Found' = Found
      BY <1>f, Types DEF TypedPc, TypedMain, Found
    <2>2. Found \in Int
      BY Types DEF Found
    <2> QED BY <2>1, <2>2
  <1>4. \A t \in Threads :
           /\ Working(t)' <=> Working(t)
           /\ pc'[t] \in Outside <=> pc[t] \in Outside
           /\ pc'[t] = "enter" <=> pc[t] = "enter"
    BY DEF Working
  <1>5. UNCHANGED Pipes /\ pc' = pc /\ main' = main
    OBVIOUS
  <1> QED BY <1>1, <1>2, <1>3, <1>4, <1>5, QuietStep, Zenon

(* A thread moves on in the program and the rest of the pipe stays.          *)
LEMMA QuietGoto ==
  ASSUME IInv, UNCHANGED Pipes, TypedMain', main'.k = main.k,
         NEW t \in Threads, NEW label \in Labels, Goto(t, label),
         IF t = Main THEN label \in MainLabels ELSE label \in ConsumerLabels,
         label \notin {"parse", "holds", "enter", "leave"},
         pc[t] \notin {"parse", "holds", "enter"},
         label \in Outside <=> pc[t] \in Outside,
         label = "decide" => ~setup.posix /\ \A k \in Levels : LevelOf(t) = k => MayTake(k),
         t = Main => /\ label # "entered" /\ \A u \in Threads : pc[u] # "enter"
                     /\ label \in {"join", "ended"} <=> pc[Main] \in {"join", "ended"}
                     /\ main.k > 0 => label \in {"drain", "join", "ended"},
         t # Main => main' = main,
         Found <= Found',
         scheduled[0] + (IF pc'[Main] \in {"schedule", "decide"} THEN 1 ELSE 0) <= main'.nrels
  PROVE  IInv'
  <1>1. /\ pc[Main] \notin {"enter", "entered"} => \A u \in Threads : pc[u] # "enter"
        /\ main.k > 0 => pc[Main] \in {"drain", "join", "ended"}
    BY Parts DEF ActiveInv
  <1>2. /\ pc' = [pc EXCEPT ![t] = label] /\ pc \in [Threads -> Labels] /\ Main \in Threads
        /\ Threads' = Threads /\ pc'[t] = label /\ \A u \in Threads \ {t} : pc'[u] = pc[u]
    BY Frame, Types DEF Goto, Pipes
  <1>3. TypedPc'
    BY <1>2, Types DEF TypedPc
  <1>4. \A u \in Threads :
           /\ Working(u)' <=> Working(u)
           /\ pc'[u] \in Outside <=> pc[u] \in Outside
           /\ pc'[u] = "enter" <=> pc[u] = "enter"
           /\ pc'[u] = "leave" => pc[u] = "leave"
           /\ pc'[u] = "decide" => pc[u] = "decide"
                \/ (~setup.posix /\ \A k \in Levels : LevelOf(u) = k => MayTake(k))
    <2> SUFFICES ASSUME NEW u \in Threads
                 PROVE /\ Working(u)' <=> Working(u)
                       /\ pc'[u] \in Outside <=> pc[u] \in Outside
                       /\ pc'[u] = "enter" <=> pc[u] = "enter"
                       /\ pc'[u] = "leave" => pc[u] = "leave"
                       /\ pc'[u] = "decide" => pc[u] = "decide"
                            \/ (~setup.posix /\ \A k \in Levels : LevelOf(u) = k => MayTake(k))
      OBVIOUS
    <2>1. CASE u = t
      BY <1>2, <2>1 DEF Working
    <2>2. CASE u # t
      BY <1>2, <2>2 DEF Working
    <2> QED BY <2>1, <2>2
  <1>5. /\ pc'[Main] \notin {"enter", "entered"} => \A u \in Threads : pc[u] # "enter"
        /\ pc'[Main] = "parse" <=> pc[Main] = "parse"
        /\ pc'[Main] \in {"join", "ended"} <=> pc[Main] \in {"join", "ended"}
        /\ main.k > 0 => pc'[Main] \in {"drain", "join", "ended"}
    <2>1. CASE t = Main
      BY <1>1, <1>2, <2>1
    <2>2. CASE t # Main
      BY <1>1, <1>2, <2>2
    <2> QED BY <2>1, <2>2
  <1> QED BY <1>3, <1>4, <1>5, QuietStep

LEMMA QuietActions ==
  ASSUME IInv, FewLines,
         \/ Read \/ WaitForData \/ FindLine \/ SkipLine \/ JoinAll \/ UNCHANGED vars
         \/ \E t \in Threads : AllEntered(t)
  PROVE  IInv'
  <1>a. /\ pc[Main] \notin {"enter", "entered"} => \A u \in Threads : pc[u] # "enter"
        /\ main.k > 0 => pc[Main] \in {"drain", "join", "ended"}
    BY Parts DEF ActiveInv
  <1>b. /\ scheduled[0] + (IF pc[Main] \in {"schedule", "decide"} THEN 1 ELSE 0) <= main.nrels
        /\ scheduled[0] \in Nat /\ main.nrels \in Nat /\ DOMAIN main = MainFields
        /\ main.k \in Levels /\ Main \in Threads /\ pc \in [Threads -> Labels]
    BY Parts, Types DEF OrderInv
  <1>1. CASE Read \/ UNCHANGED vars
    BY <1>1, IdleStep DEF Read, vars, inflightVars, Pipes
  <1>c. \A l \in Labels : pc' = [pc EXCEPT ![Main] = l] => pc'[Main] = l
    BY <1>b
  <1>d. LevelOf(Main) = 0 /\ TypedMain
    BY Types DEF TypedMain
  <1>2. CASE WaitForData
    <2>1. UNCHANGED Pipes /\ Threads' = Threads /\ Levels' = Levels
      BY <1>2, Frame DEF WaitForData, inflightVars, Pipes
    <2>2. CASE UNCHANGED <<pc, main>>
      BY <2>1, <2>2, IdleStep
    <2>3. ASSUME NEW label \in {"drain_first", "line"}, pc[Main] = "wait", Goto(Main, label),
                 main' = [main EXCEPT !.avail_seen = rb.avail_to_read, !.avail_offset = 0]
          PROVE  IInv'
      <3>1. main'.nrels = main.nrels /\ main'.k = main.k /\ DOMAIN main' = MainFields
        BY <1>b, <2>3 DEF MainFields
      <3>2. TypedMain' /\ label \in Labels /\ label \in MainLabels /\ pc'[Main] = label
        BY <1>b, <1>c, <2>1, <2>3, <3>1 DEF TypedMain, Labels, MainLabels, Goto
      <3>3. Found <= Found'
        BY <1>b, <2>3, <3>1, <3>2 DEF Found
      <3> QED BY <1>a, <1>b, <2>1, <2>3, <3>1, <3>2, <3>3, QuietGoto DEF Outside
    <2> QED BY <1>2, <2>2, <2>3 DEF WaitForData, At
  <1>3. CASE FindLine
    <2>1. UNCHANGED Pipes /\ Threads' = Threads /\ Levels' = Levels /\ pc[Main] = "line"
      BY <1>3, Frame DEF FindLine, inflightVars, Pipes, At
    <2>2. CASE Goto(Main, "wait") /\ UNCHANGED main
      <3>1. TypedMain' /\ pc'[Main] = "wait" /\ "wait" \in Labels /\ "wait" \in MainLabels
        BY <1>c, <1>d, <2>1, <2>2 DEF TypedMain, Labels, MainLabels, Goto
      <3>2. Found <= Found'
        BY <1>b, <2>1, <2>2, <3>1 DEF Found
      <3> QED BY <1>a, <1>b, <2>1, <2>2, <3>1, <3>2, QuietGoto DEF Outside
    <2>3. ASSUME NEW label \in {"skip", "schedule"}, NEW nl, NEW nrels, Goto(Main, label),
                 main' = [main EXCEPT !.nl = nl, !.nrels = nrels],
                 nrels = main.nrels + 1 \/ (nrels = main.nrels /\ label = "skip")
          PROVE  IInv'
      <3>1. main'.nrels = nrels /\ main'.k = main.k /\ DOMAIN main' = MainFields
        BY <1>b, <2>3 DEF MainFields
      <3>2. TypedMain' /\ label \in Labels /\ label \in MainLabels /\ pc'[Main] = label
        BY <1>b, <1>c, <2>1, <2>3, <3>1 DEF TypedMain, Labels, MainLabels, Goto
      <3>3. Found <= Found'
        BY <1>b, <2>1, <2>3, <3>1, <3>2 DEF Found
      <3>4. scheduled[0] + (IF pc'[Main] \in {"schedule", "decide"} THEN 1 ELSE 0) <= main'.nrels
        BY <1>b, <2>1, <2>3, <3>1, <3>2
      <3> QED BY <1>a, <1>b, <2>1, <2>3, <3>1, <3>2, <3>3, <3>4, QuietGoto DEF Outside
    <2>4. CASE ~(Goto(Main, "wait") /\ UNCHANGED main)
      <3>1. LET comment == Stream[Cell(0)] = "#"
            IN /\ main' = [main EXCEPT !.nl = ringbuf_strchr,
                                       !.nrels = IF comment THEN @ ELSE @ + 1]
               /\ Goto(Main, IF comment \/ main.nrels \in Unwanted
                             THEN "skip" ELSE "schedule")
        BY <1>3, <2>4 DEF FindLine
      <3> DEFINE comment == Stream[Cell(0)] = "#"
                 label == IF comment \/ main.nrels \in Unwanted THEN "skip" ELSE "schedule"
                 nrels == IF comment THEN main.nrels ELSE main.nrels + 1
      <3>2. main' = [main EXCEPT !.nl = ringbuf_strchr, !.nrels = nrels] /\ Goto(Main, label)
        BY <3>1, Zenon
      <3>3. /\ label \in {"skip", "schedule"}
            /\ nrels = main.nrels + 1 \/ (nrels = main.nrels /\ label = "skip")
        OBVIOUS
      <3> HIDE DEF label, nrels
      <3> QED BY <2>3, <3>2, <3>3
    <2> QED BY <2>2, <2>4
  <1>4. CASE SkipLine
    <2>1. UNCHANGED Pipes /\ Threads' = Threads /\ Levels' = Levels /\ pc[Main] = "skip"
      BY <1>4, Frame DEF SkipLine, inflightVars, Pipes, At
    <2>2. main'.nrels = main.nrels /\ main'.k = main.k /\ DOMAIN main' = MainFields
      BY <1>4, <1>b DEF SkipLine, MainFields
    <2>3. TypedMain' /\ Goto(Main, "line") /\ "line" \in Labels /\ "line" \in MainLabels
      BY <1>4, <1>b, <2>1, <2>2 DEF SkipLine, TypedMain, Labels, MainLabels
    <2>4. pc'[Main] = "line"
      BY <1>c, <2>3 DEF Goto
    <2>5. Found <= Found'
      BY <1>b, <2>1, <2>2, <2>4 DEF Found
    <2> QED BY <1>a, <1>b, <2>1, <2>2, <2>3, <2>4, <2>5, QuietGoto DEF Outside
  <1>5. CASE JoinAll
    <2>1. UNCHANGED Pipes /\ Threads' = Threads /\ Levels' = Levels /\ pc[Main] = "join"
      BY <1>5, Frame DEF JoinAll, inflightVars, Pipes, At
    <2>2. main' = main /\ Goto(Main, "ended") /\ "ended" \in Labels /\ "ended" \in MainLabels
      BY <1>5 DEF JoinAll, Labels, MainLabels
    <2>3. pc'[Main] = "ended" /\ TypedMain'
      BY <1>c, <1>d, <2>1, <2>2 DEF Goto, TypedMain
    <2>4. Found <= Found'
      BY <1>b, <2>1, <2>2, <2>3 DEF Found
    <2> QED BY <1>a, <1>b, <2>1, <2>2, <2>3, <2>4, QuietGoto DEF Outside
  <1>6. ASSUME NEW t \in Threads, AllEntered(t) PROVE IInv'
    <2> DEFINE label == IF t = Main THEN "wait" ELSE "schedule"
    <2>1. /\ UNCHANGED Pipes /\ Threads' = Threads /\ Levels' = Levels /\ pc[t] = "entered"
          /\ main' = main /\ Goto(t, label) /\ \A u \in Threads : pc[u] # "enter"
      BY <1>6, Frame DEF AllEntered, inflightVars, Pipes, At
    <2>2. /\ label \in Labels /\ IF t = Main THEN label \in MainLabels ELSE label \in ConsumerLabels
          /\ label \notin {"parse", "holds", "enter", "leave", "decide"}
          /\ label \notin Outside /\ pc[t] \notin Outside
          /\ t = Main => label = "wait"
      BY <2>1 DEF Labels, MainLabels, ConsumerLabels, Outside
    <2>3. pc' = [pc EXCEPT ![t] = label] /\ TypedMain'
      BY <1>d, <2>1 DEF Goto, TypedMain
    <2> HIDE DEF label
    <2>4. pc'[Main] = pc[Main] \/ (pc[Main] = "entered" /\ pc'[Main] = "wait")
      <3>1. CASE t = Main
        BY <1>b, <2>1, <2>2, <2>3, <3>1
      <3>2. CASE t # Main
        BY <1>b, <2>3, <3>2
      <3> QED BY <3>1, <3>2
    <2>5. /\ Found <= Found'
          /\ scheduled[0] + (IF pc'[Main] \in {"schedule", "decide"} THEN 1 ELSE 0) <= main'.nrels
      BY <1>b, <2>1, <2>4 DEF Found
    <2> QED BY <1>a, <1>b, <2>1, <2>2, <2>3, <2>5, QuietGoto
  <1> QED BY <1>1, <1>2, <1>3, <1>4, <1>5, <1>6

(* schedule() gives no slot: the thread waits, or has found out that there   *)
(* is something, or that nothing is left.                                    *)
LEMMA NothingGiven ==
  ASSUME IInv, FewLines, NEW t \in Threads, pc[t] \in {"schedule", "decide"},
         UNCHANGED <<main, rels, passed>>,
         \/ WaitForWork(t, LevelOf(t)) /\ UNCHANGED <<pc, my>>
         \/ /\ ~NothingToSchedule(LevelOf(t)) /\ ~setup.posix /\ Goto(t, "decide")
            /\ UNCHANGED <<inflightVars, my>>
         \/ /\ NoneLeft(LevelOf(t)) /\ Goto(t, "leave")
            /\ my' = [my EXCEPT ![t].s = scheduled[LevelOf(t)]] /\ UNCHANGED inflightVars
  PROVE  IInv'
  <1>a. /\ pc[Main] \notin {"enter", "entered"} => \A u \in Threads : pc[u] # "enter"
        /\ main.k > 0 => pc[Main] \in {"drain", "join", "ended"}
    BY Parts DEF ActiveInv
  <1>b. /\ scheduled[0] + (IF pc[Main] \in {"schedule", "decide"} THEN 1 ELSE 0) <= main.nrels
        /\ scheduled[0] \in Nat /\ main.nrels \in Nat /\ main.k \in Levels
        /\ Main \in Threads /\ pc \in [Threads -> Labels] /\ TypedMain
        /\ LevelOf(Main) = 0 /\ LevelOf(t) \in Levels /\ scheduled \in [Levels -> Nat]
    BY Parts, Types DEF OrderInv, TypedMain
  <1> DEFINE k == LevelOf(t)
  <1>c. k = 0 => ~Drained(LastLevel)
    <2>1. k = 0 => t = Main
      BY Types
    <2> QED BY <2>1, DrainedLevels, <1>b
  <1>1. CASE WaitForWork(t, k) /\ UNCHANGED <<pc, my>>
    BY <1>1, IdleStep DEF WaitForWork, Pipes
  <1>2. CASE /\ ~NothingToSchedule(k) /\ ~setup.posix /\ Goto(t, "decide")
             /\ UNCHANGED <<inflightVars, my>>
    <2>1. UNCHANGED Pipes /\ Threads' = Threads /\ Levels' = Levels
      BY <1>2, Frame DEF inflightVars, Pipes
    <2>2. MayTake(k)
      BY <1>b, <1>c, <1>2, SchedulePromise
    <2>3. "decide" \in Labels /\ "decide" \in MainLabels /\ "decide" \in ConsumerLabels
      BY DEF Labels, MainLabels, ConsumerLabels
    <2>4. pc' = [pc EXCEPT ![t] = "decide"] /\ TypedMain'
      BY <1>2, <1>b, <2>1 DEF Goto, TypedMain
    <2>5. pc'[Main] \in {"schedule", "decide"} <=> pc[Main] \in {"schedule", "decide"}
      <3>1. CASE t = Main
        BY <1>b, <2>4, <3>1
      <3>2. CASE t # Main
        BY <1>b, <2>4, <3>2
      <3> QED BY <3>1, <3>2
    <2>6. pc'[Main] = "parse" <=> pc[Main] = "parse"
      <3>1. CASE t = Main
        BY <1>b, <2>4, <3>1
      <3>2. CASE t # Main
        BY <1>b, <2>4, <3>2
      <3> QED BY <3>1, <3>2
    <2>7. Found <= Found'
      BY <1>b, <2>5, <2>6 DEF Found
    <2>8. scheduled[0] + (IF pc'[Main] \in {"schedule", "decide"} THEN 1 ELSE 0) <= main'.nrels
      BY <1>b, <2>5
    <2>9. \A j \in Levels : LevelOf(t) = j => MayTake(j)
      BY <2>2
    <2>10. "decide" \notin Outside /\ pc[t] \notin Outside
      BY DEF Outside
    <2>11. t = Main => main.k = 0 /\ \A u \in Threads : pc[u] # "enter"
      <3>1. main.k \in Nat
        BY Types
      <3> QED BY <1>a, <3>1
    <2>12. main' = main /\ main'.k = main.k /\ (t = Main => ~(main.k > 0))
      BY <2>11
    <2> HIDE DEF k
    <2> QED BY <1>2, <2>1, <2>3, <2>4, <2>7, <2>8, <2>9, <2>10, <2>11, <2>12, QuietGoto
  <1>3. CASE /\ NoneLeft(k) /\ Goto(t, "leave")
             /\ my' = [my EXCEPT ![t].s = scheduled[k]] /\ UNCHANGED inflightVars
    <2>1. UNCHANGED <<Counters, active>> /\ Threads' = Threads /\ Levels' = Levels
      BY <1>3, Frame DEF inflightVars, Counters
    <2>2. k > 0 /\ Drained(k - 1) /\ scheduled[k] = scheduled[k - 1]
      BY <1>b, <1>c, <1>3, SchedulePromise
    <2>3. t # Main
      BY <1>b, <2>2
    <2>4. /\ pc' = [pc EXCEPT ![t] = "leave"] /\ pc'[t] = "leave" /\ pc'[Main] = pc[Main]
          /\ \A u \in Threads \ {t} : pc'[u] = pc[u]
      BY <1>3, <1>b, <2>3 DEF Goto
    <2>5. /\ my' \in [Threads -> [slot : Slots, s : Nat]] /\ my'[t].s = scheduled[k]
          /\ \A u \in Threads \ {t} : my'[u] = my[u]
      <3>1. my \in [Threads -> [slot : Slots, s : Nat]] /\ scheduled[k] \in Nat
        BY <1>b, Types
      <3> QED BY <1>3, <3>1
    <2>6. TypedPc' /\ TypedMain'
      <3>1. "leave" \in Labels /\ "leave" \in ConsumerLabels
        BY DEF Labels, ConsumerLabels
      <3> QED BY <1>b, <2>1, <2>3, <2>4, <3>1, Types DEF TypedPc, TypedMain
    <2>7. \A u \in Threads :
             /\ Working(u)' <=> Working(u)
             /\ pc'[u] \in Outside <=> pc[u] \in Outside
             /\ pc'[u] = "enter" <=> pc[u] = "enter"
             /\ Working(u) => my'[u] = my[u]
             /\ pc'[u] = "leave" => (pc[u] = "leave" /\ my'[u] = my[u])
                  \/ \A j \in Levels : LevelOf(u) = j =>
                       /\ j > 0 /\ Drained(j - 1)
                       /\ my'[u].s = scheduled[j] /\ scheduled[j] = scheduled[j - 1]
             /\ pc'[u] = "decide" => pc[u] = "decide"
      <3> SUFFICES ASSUME NEW u \in Threads
                   PROVE
             /\ Working(u)' <=> Working(u)
             /\ pc'[u] \in Outside <=> pc[u] \in Outside
             /\ pc'[u] = "enter" <=> pc[u] = "enter"
             /\ Working(u) => my'[u] = my[u]
             /\ pc'[u] = "leave" => (pc[u] = "leave" /\ my'[u] = my[u])
                  \/ \A j \in Levels : LevelOf(u) = j =>
                       /\ j > 0 /\ Drained(j - 1)
                       /\ my'[u].s = scheduled[j] /\ scheduled[j] = scheduled[j - 1]
             /\ pc'[u] = "decide" => pc[u] = "decide"
        OBVIOUS
      <3>1. CASE u = t
        BY <2>2, <2>4, <2>5, <3>1 DEF Working, Outside
      <3>2. CASE u # t
        BY <2>4, <2>5, <3>2 DEF Working
      <3> QED BY <3>1, <3>2
    <2>8. Found <= Found'
      BY <1>b, <2>4 DEF Found
    <2> HIDE DEF k
    <2> QED BY <1>a, <1>b, <2>1, <2>4, <2>5, <2>6, <2>7, <2>8, QuietMove
  <1> QED BY <1>1, <1>2, <1>3

-------------------------------------------------------------------------------
(* The steps by which a thread enters or leaves a level.                     *)

LEMMA InsideFinite ==
  ASSUME IInv, NEW k \in Levels
  PROVE  IsFiniteSet(Inside(k)) /\ active[k] = Cardinality(Inside(k))
  <1>1. IsFiniteSet(Threads) /\ Inside(k) \subseteq Threads
    BY Parts, Team DEF Inside
  <1>2. IsFiniteSet(Inside(k))
    BY <1>1, FS_Subset
  <1> QED BY <1>2, Parts DEF ActiveInv

(* A thread enters its level.                                                *)
LEMMA EnterKeeps ==
  ASSUME IInv, NEW t \in Threads, NEW k \in Levels, LevelOf(t) = k, EnterPipe(t)
  PROVE  IInv'
  <1>1. /\ pc \in [Threads -> Labels] /\ Main \in Threads
        /\ active \in [Levels -> Int] /\ main.nrels \in Nat /\ main.k \in Nat
        /\ my \in [Threads -> [slot : Slots, s : Nat]]
    BY Types
  <1>2. /\ pc[t] = "enter" /\ active' = [active EXCEPT ![k] = active[k] + 1]
        /\ pc' = [pc EXCEPT ![t] = "entered"] /\ main' = main /\ my' = my
        /\ UNCHANGED Counters
    BY DEF EnterPipe, At, Enter, Goto, Counters
  <1>3. /\ Threads' = Threads /\ Levels' = Levels /\ \A u : LevelOf(u)' = LevelOf(u)
    BY <1>2, Frame DEF Counters
  <1>4. pc[Main] \in {"enter", "entered"} /\ ~(main.k > 0) /\ main.k = 0
    BY <1>1, <1>2, Parts DEF ActiveInv
  <1>5. pc'[t] = "entered" /\ \A u \in Threads \ {t} : pc'[u] = pc[u]
    BY <1>1, <1>2
  <1>6. pc'[Main] \in {"enter", "entered"}
    BY <1>1, <1>4, <1>5
  <1>7. ActiveInv'
    <2>1. Inside(k)' = Inside(k) \union {t} /\ t \notin Inside(k)
      BY <1>2, <1>3, <1>5 DEF Inside, Outside
    <2>2. \A j \in Levels : j # k => Inside(j)' = Inside(j)
      BY <1>3, <1>5 DEF Inside
    <2>3. IsFiniteSet(Inside(k)) /\ active[k] = Cardinality(Inside(k))
      BY <1>1, InsideFinite
    <2>4. Cardinality(Inside(k) \union {t}) = Cardinality(Inside(k)) + 1
      BY <2>1, <2>3, FS_AddElement
    <2>5. ASSUME NEW j \in Levels PROVE active'[j] = Cardinality(Inside(j)')
      <3>1. CASE j = k
        <4>1. active'[k] = active[k] + 1
          BY <1>1, <1>2
        <4>2. Cardinality(Inside(k)') = active[k] + 1
          BY <2>1, <2>3, <2>4, Zenon
        <4> QED BY <3>1, <4>1, <4>2
      <3>2. CASE j # k
        <4>1. active'[j] = active[j] /\ Inside(j)' = Inside(j)
          BY <1>1, <1>2, <2>2, <3>2
        <4>2. active[j] = Cardinality(Inside(j))
          BY InsideFinite
        <4> QED BY <4>1, <4>2
      <3> QED BY <3>1, <3>2
    <2>6. \A j \in Levels : ~Drained(j)'
      <3>1. main'.k = 0 /\ pc'[Main] \notin {"join", "ended"} /\ Levels \subseteq Nat
        BY <1>2, <1>4, <1>6, Types
      <3> QED BY <3>1 DEF Drained
    <2> QED BY <1>2, <1>3, <1>4, <1>6, <2>5, <2>6 DEF ActiveInv
  <1>8. TypedPc' /\ TypedMain'
    <2>1. TypedMain'
      BY <1>2, <1>3, Types DEF TypedMain
    <2>2. "entered" \in Labels /\ "entered" \in MainLabels /\ "entered" \in ConsumerLabels
      BY DEF Labels, MainLabels, ConsumerLabels
    <2>3. pc' \in [Threads -> Labels]
      BY <1>1, <1>2, <2>2
    <2>4. pc'[Main] \in MainLabels /\ \A u \in Threads \ {Main} : pc'[u] \in ConsumerLabels
      BY <1>5, <2>2, Types
    <2> QED BY <1>3, <2>1, <2>3, <2>4 DEF TypedPc
  <1>9. \A u \in Threads :
           /\ Working(u)' <=> Working(u)
           /\ pc'[u] = "leave" => pc[u] = "leave"
           /\ pc'[u] = "decide" => pc[u] = "decide"
    BY <1>2, <1>5 DEF Working
  <1>10. active' \in [Levels -> Int]
    BY <1>1, <1>2
  <1>11. Found <= Found'
    BY <1>1, <1>2, <1>4, <1>6 DEF Found
  <1>12. scheduled[0] + (IF pc'[Main] \in {"schedule", "decide"} THEN 1 ELSE 0) <= main'.nrels
    BY <1>2, <1>4, <1>6, Parts DEF OrderInv
  <1>13. /\ PipeTypes' /\ OrderInv' /\ PlaceInv' /\ WorkInv'
         /\ StatusInv' /\ LineInv' /\ PassedInv'
    BY <1>1, <1>2, <1>4, <1>6, <1>8, <1>9, <1>10, <1>11, <1>12, CalmMove
  <1> QED BY <1>7, <1>13 DEF IInv

(* Main leaves level 0 before it drains the levels.                          *)
LEMMA StartDrainKeeps == ASSUME IInv, StartDrain PROVE IInv'
  <1>1. /\ 0 \in Levels /\ pc \in [Threads -> Labels] /\ Main \in Threads
        /\ active \in [Levels -> Int] /\ main.nrels \in Nat /\ main.k \in Nat
        /\ my \in [Threads -> [slot : Slots, s : Nat]] /\ LevelOf(Main) = 0
    BY Types
  <1>2. /\ pc[Main] = "drain_first" /\ active' = [active EXCEPT ![0] = @ - 1]
        /\ pc' = [pc EXCEPT ![Main] = "drain"] /\ main' = main /\ my' = my
        /\ UNCHANGED Counters
    BY DEF StartDrain, At, LeaveMain, Goto, Counters
  <1>3. /\ Threads' = Threads /\ Levels' = Levels /\ \A u : LevelOf(u)' = LevelOf(u)
    BY <1>2, Frame DEF Counters
  <1>4. ~(main.k > 0) /\ main.k = 0 /\ \A u \in Threads : pc[u] # "enter"
    BY <1>1, <1>2, Parts DEF ActiveInv
  <1>5. pc'[Main] = "drain" /\ \A u \in Threads \ {Main} : pc'[u] = pc[u]
    BY <1>1, <1>2
  <1>7. ActiveInv'
    <2>1. Inside(0)' = Inside(0) \ {Main} /\ Main \in Inside(0)
      BY <1>1, <1>2, <1>3, <1>5 DEF Inside, Outside
    <2>2. \A j \in Levels : j # 0 => Inside(j)' = Inside(j)
      BY <1>1, <1>3, <1>5 DEF Inside
    <2>3. IsFiniteSet(Inside(0)) /\ active[0] = Cardinality(Inside(0))
      BY <1>1, InsideFinite
    <2>4. Cardinality(Inside(0) \ {Main}) = Cardinality(Inside(0)) - 1
      BY <2>1, <2>3, FS_RemoveElement
    <2>5. ASSUME NEW j \in Levels PROVE active'[j] = Cardinality(Inside(j)')
      <3>1. CASE j = 0
        BY <1>1, <1>2, <2>1, <2>3, <2>4, <3>1
      <3>2. CASE j # 0
        <4>1. active'[j] = active[j] /\ Inside(j)' = Inside(j)
          BY <1>1, <1>2, <2>2, <3>2
        <4>2. active[j] = Cardinality(Inside(j))
          BY InsideFinite
        <4> QED BY <4>1, <4>2
      <3> QED BY <3>1, <3>2
    <2>6. \A j \in Levels : ~Drained(j)'
      BY <1>1, <1>2, <1>4, <1>5, Types DEF Drained
    <2>7. \A u \in Threads : pc'[u] # "enter"
      BY <1>4, <1>5
    <2> QED BY <1>2, <1>3, <1>4, <1>5, <2>5, <2>6, <2>7 DEF ActiveInv
  <1>8. TypedPc' /\ TypedMain'
    <2>1. TypedMain'
      BY <1>2, <1>3, Types DEF TypedMain
    <2>2. "drain" \in Labels /\ "drain" \in MainLabels
      BY DEF Labels, MainLabels
    <2>3. pc' \in [Threads -> Labels]
      BY <1>1, <1>2, <2>2
    <2>4. pc'[Main] \in MainLabels /\ \A u \in Threads \ {Main} : pc'[u] \in ConsumerLabels
      BY <1>5, <2>2, Types
    <2> QED BY <1>3, <2>1, <2>3, <2>4 DEF TypedPc
  <1>9. \A u \in Threads :
           /\ Working(u)' <=> Working(u)
           /\ pc'[u] = "leave" => pc[u] = "leave"
           /\ pc'[u] = "decide" => pc[u] = "decide"
    BY <1>2, <1>5 DEF Working
  <1>10. active' \in [Levels -> Int]
    BY <1>1, <1>2
  <1>11. Found <= Found'
    BY <1>1, <1>2, <1>5 DEF Found
  <1>12. scheduled[0] + (IF pc'[Main] \in {"schedule", "decide"} THEN 1 ELSE 0) <= main'.nrels
    BY <1>2, <1>5, Parts DEF OrderInv
  <1>13. /\ PipeTypes' /\ OrderInv' /\ PlaceInv' /\ WorkInv'
         /\ StatusInv' /\ LineInv' /\ PassedInv'
    BY <1>1, <1>2, <1>5, <1>8, <1>9, <1>10, <1>11, <1>12, CalmMove
  <1> QED BY <1>7, <1>13 DEF IInv

(* A relation a thread works on is the last one given to its slot.           *)
LEMMA WorkingRecent ==
  ASSUME IInv, NEW t \in Threads, NEW k \in Levels, LevelOf(t) = k, Working(t)
  PROVE  /\ my[t].s \in Nat /\ my[t].slot = SlotOf(my[t].s) /\ Recent(my[t].s)
         /\ completed[k] <= my[t].s /\ my[t].s < scheduled[k] /\ ~Done(k, my[t].s)
         /\ ~Drained(k)
  <1>1. /\ my[t].s \in Nat /\ my \in [Threads -> [slot : Slots, s : Nat]]
        /\ scheduled \in [Levels -> Nat] /\ k \in Nat /\ 0 \in Levels
    BY Types
  <1>2. /\ completed[k] <= my[t].s /\ my[t].s < scheduled[k]
        /\ scheduled[0] <= my[t].s + SizeBuf /\ my[t].slot = SlotOf(my[t].s)
    BY Parts DEF WorkInv
  <1>3. scheduled[k] <= scheduled[0]
    <2>1. k = 0 \/ 0 < k
      BY <1>1
    <2> QED BY <1>1, <2>1, Parts DEF OrderInv
  <1>4. Recent(my[t].s)
    <2> DEFINE a == scheduled[k]
               b == scheduled[0]
    <2>1. a \in Nat /\ b \in Nat /\ my[t].s < a /\ a <= b /\ b <= my[t].s + SizeBuf
      BY <1>1, <1>2, <1>3
    <2> HIDE DEF a
    <2>2. my[t].s < b
      BY <1>1, <2>1
    <2> QED BY <2>1, <2>2 DEF Recent
  <1>5. ~Done(k, my[t].s)
    BY DEF Done
  <1>6. t \in Inside(k)
    BY DEF Inside, Working, Outside
  <1>7. ~Drained(k)
    BY <1>6, Parts DEF ActiveInv
  <1> QED BY <1>1, <1>2, <1>4, <1>5, <1>7

(* With locks, catchup() does not pass a relation somebody works on.         *)
LEMMA CaughtUpBefore ==
  ASSUME IInv, NEW t \in Threads, NEW k \in Levels, LevelOf(t) = k, Working(t),
         NEW limit \in Nat, completed[k] <= limit
  PROVE  CaughtUp(k, completed[k], limit) <= my[t].s
  <1>1. /\ my[t].s \in Nat /\ Recent(my[t].s) /\ completed[k] <= my[t].s /\ ~Done(k, my[t].s)
    BY WorkingRecent
  <1>2. completed[k] \in Nat /\ setup.posix \in BOOLEAN
    BY Types
  <1> DEFINE c == CaughtUp(k, completed[k], limit)
  <1>3. /\ c \in Nat
        /\ ~setup.posix => c = completed[k]
        /\ setup.posix => \A e \in Nat : completed[k] <= e /\ e < c => status[SlotOf(e)] >= k
    BY <1>2, CaughtUpRange, Parts
  <1>4. setup.posix => ~(status[SlotOf(my[t].s)] >= k)
    BY <1>1, Parts DEF StatusInv
  <1> HIDE DEF c
  <1>5. setup.posix => c <= my[t].s
    BY <1>1, <1>2, <1>3, <1>4
  <1>6. ~setup.posix => c <= my[t].s
    BY <1>1, <1>3
  <1> QED BY <1>5, <1>6 DEF c

(* A level is found to have finished more of what it was given.              *)
LEMMA RaisedCounter ==
  ASSUME IInv, NEW k \in Levels, NEW c \in Nat, ~Drained(k),
         completed[k] <= c, c <= scheduled[k],
         completed' = [completed EXCEPT ![k] = c], UNCHANGED <<setup, scheduled, main>>,
         \A t \in Threads : /\ pc'[t] = "leave" => pc[t] = "leave" /\ my'[t] = my[t]
                            /\ pc'[t] = "decide" => pc[t] = "decide",
         pc'[Main] \in {"join", "ended"} <=> pc[Main] \in {"join", "ended"},
         pc'[Main] \in {"schedule", "decide"} => pc[Main] \in {"schedule", "decide"}
  PROVE  OrderInv' /\ PlaceInv'
  <1>f. /\ Threads' = Threads /\ Levels' = Levels /\ LastLevel' = LastLevel
        /\ \A t : LevelOf(t)' = LevelOf(t)
    BY Frame
  <1>t. /\ scheduled \in [Levels -> Nat] /\ completed \in [Levels -> Nat] /\ main.nrels \in Nat
        /\ Levels = 0 .. LastLevel /\ LastLevel \in Nat \ {0} /\ LastLevel \in Levels /\ 0 \in Levels
    BY Types
  <1>d. \A j \in Levels : Drained(j)' <=> Drained(j)
    BY DEF Drained
  <1>c. \A j \in Levels : /\ completed'[j] \in Nat /\ completed[j] <= completed'[j]
                          /\ ~Drained(j) => completed'[j] <= scheduled[j]
    <2>1. \A j \in Levels : ~Drained(j) => completed[j] <= scheduled[j]
      BY Parts DEF OrderInv
    <2>2. completed'[k] = c /\ \A j \in Levels : j # k => completed'[j] = completed[j]
      BY <1>t
    <2> QED BY <1>t, <2>1, <2>2
  <1>1. OrderInv'
    <2>1. \A i \in Levels, j \in Levels : j < i =>
            /\ scheduled[i] <= scheduled[j]
            /\ ~Drained(j) => scheduled[i] <= completed'[j]
      <3> SUFFICES ASSUME NEW i \in Levels, NEW j \in Levels, j < i
                   PROVE  /\ scheduled[i] <= scheduled[j]
                          /\ ~Drained(j) => scheduled[i] <= completed'[j]
        OBVIOUS
      <3>1. scheduled[i] <= scheduled[j] /\ (~Drained(j) => scheduled[i] <= completed[j])
        BY Parts DEF OrderInv
      <3>2. /\ scheduled[i] \in Nat /\ completed[j] \in Nat /\ completed'[j] \in Nat
            /\ completed[j] <= completed'[j]
        BY <1>c, <1>t
      <3> QED BY <3>1, <3>2
    <2>2. ~Drained(LastLevel) => scheduled[0] <= completed'[LastLevel] + SizeBuf
      <3>1. ~Drained(LastLevel) => scheduled[0] <= completed[LastLevel] + SizeBuf
        BY Parts DEF OrderInv
      <3>2. /\ scheduled[0] \in Nat /\ completed[LastLevel] \in Nat
            /\ completed'[LastLevel] \in Nat /\ completed[LastLevel] <= completed'[LastLevel]
        BY <1>c, <1>t
      <3> QED BY <3>1, <3>2, Sizes
    <2>3. scheduled[0] + (IF pc'[Main] \in {"schedule", "decide"} THEN 1 ELSE 0) <= main.nrels
      <3>1. scheduled[0] + (IF pc[Main] \in {"schedule", "decide"} THEN 1 ELSE 0) <= main.nrels
        BY Parts DEF OrderInv
      <3> QED BY <1>t, <3>1
    <2>4. Drained(LastLevel)' <=> Drained(LastLevel)
      BY <1>f, <1>d, <1>t DEF Drained
    <2>5. (/\ \A i \in Levels, j \in Levels : j < i =>
                /\ scheduled[i] <= scheduled[j]
                /\ ~Drained(j) => scheduled[i] <= completed[j]
           /\ \A i \in Levels : ~Drained(i) => completed[i] <= scheduled[i])'
      BY <1>f, <1>d, <1>c, <2>1
    <2>6. (/\ ~Drained(LastLevel) => scheduled[0] <= completed[LastLevel] + SizeBuf
           /\ scheduled[0] + (IF pc[Main] \in {"schedule", "decide"} THEN 1 ELSE 0) <= main.nrels)'
      BY <1>f, <2>2, <2>3, <2>4
    <2> QED BY <2>5, <2>6 DEF OrderInv
  <1>m. ASSUME NEW j \in Levels, MayTake(j) PROVE MayTake(j)'
    <2>1. CASE j = 0
      <3>1. scheduled[0] < completed[LastLevel] + SizeBuf
        BY <1>m, <2>1 DEF MayTake
      <3>2. completed[LastLevel] <= completed'[LastLevel] /\ completed'[LastLevel] \in Nat
        BY <1>c, <1>t
      <3>3. scheduled[0] < completed'[LastLevel] + SizeBuf
        BY <1>t, <3>1, <3>2, Sizes
      <3> QED BY <1>f, <2>1, <3>3 DEF MayTake
    <2>2. CASE j # 0
      <3>1. j - 1 \in Levels
        BY <1>t, <2>2
      <3>2. ~Drained(j - 1) => scheduled[j] < completed[j - 1]
        BY <1>m, <2>2 DEF MayTake
      <3>3. completed[j - 1] <= completed'[j - 1] /\ completed'[j - 1] \in Nat
        BY <1>c, <3>1
      <3>4. ~Drained(j - 1)' => scheduled[j] < completed'[j - 1]
        BY <1>t, <1>d, <3>1, <3>2, <3>3
      <3> QED BY <2>2, <3>4 DEF MayTake
    <2> QED BY <2>1, <2>2
  <1>2. PlaceInv'
    <2> SUFFICES ASSUME NEW t \in Threads, NEW j \in Levels, LevelOf(t) = j
                 PROVE  /\ pc'[t] = "leave" =>
                             /\ j > 0 /\ Drained(j - 1)'
                             /\ my'[t].s = scheduled'[j] /\ scheduled'[j] = scheduled'[j - 1]
                        /\ pc'[t] = "decide" => ~setup'.posix /\ MayTake(j)'
      BY <1>f DEF PlaceInv
    <2>1. /\ pc[t] = "leave" => /\ j > 0 /\ Drained(j - 1)
                                /\ my[t].s = scheduled[j] /\ scheduled[j] = scheduled[j - 1]
          /\ pc[t] = "decide" => ~setup.posix /\ MayTake(j)
      BY Parts DEF PlaceInv
    <2>2. j > 0 => (Drained(j - 1)' <=> Drained(j - 1))
      BY <1>d, <1>t
    <2> QED BY <1>m, <2>1, <2>2
  <1> QED BY <1>1, <1>2

(* A thread leaves its level: schedule() returns NULL.                       *)
LEMMA LeaveKeeps ==
  ASSUME IInv, NEW t \in Threads, NEW k \in Levels, LevelOf(t) = k, LeaveLevel(t)
  PROVE  IInv'
  <1>1. /\ pc \in [Threads -> Labels] /\ Main \in Threads /\ setup.posix \in BOOLEAN
        /\ active \in [Levels -> Int] /\ main.nrels \in Nat /\ main.k \in Levels
        /\ my \in [Threads -> [slot : Slots, s : Nat]] /\ LevelOf(Main) = 0
        /\ completed \in [Levels -> Nat] /\ scheduled \in [Levels -> Nat]
    BY Types
  <1> DEFINE c == CaughtUp(k, completed[k], my[t].s)
  <1>2. /\ pc[t] = "leave" /\ active' = [active EXCEPT ![k] = active[k] - 1]
        /\ pc' = [pc EXCEPT ![t] = "ended"] /\ main' = main /\ my' = my
        /\ UNCHANGED <<setup, scheduled, status, rels, passed>>
        /\ completed' = [completed EXCEPT ![k] = c]
    BY DEF LeaveLevel, At, Leave, Goto
  <1>3. /\ Threads' = Threads /\ Levels' = Levels /\ LastLevel' = LastLevel
        /\ \A u : LevelOf(u)' = LevelOf(u)
    BY <1>2, Frame
  <1>4. k > 0 /\ my[t].s = scheduled[k] /\ t # Main
    BY <1>1, <1>2, Parts DEF PlaceInv
  <1>5. pc'[t] = "ended" /\ pc'[Main] = pc[Main] /\ \A u \in Threads \ {t} : pc'[u] = pc[u]
    BY <1>1, <1>2, <1>4
  <1>6. t \in Inside(k) /\ ~Drained(k)
    <2>1. t \in Inside(k)
      BY <1>2 DEF Inside, Outside
    <2> QED BY <2>1, Parts DEF ActiveInv
  <1>7. completed[k] <= scheduled[k] /\ scheduled[k] \in Nat /\ completed[k] \in Nat
    BY <1>1, <1>6, Parts DEF OrderInv
  <1>8. c \in Nat /\ completed[k] <= c /\ c <= scheduled[k] /\ (~setup.posix => c = completed[k])
    BY <1>4, <1>7, CaughtUpRange, Parts
  <1>9. \A u \in Threads : LevelOf(u) = k /\ Working(u) => c <= my[u].s
    BY <1>1, <1>4, <1>7, CaughtUpBefore
  <1> HIDE DEF c
  <1>10. \A u \in Threads : /\ Working(u)' <=> Working(u)
                            /\ pc'[u] = "leave" => pc[u] = "leave" /\ my'[u] = my[u]
                            /\ pc'[u] = "decide" => pc[u] = "decide"
    BY <1>2, <1>5 DEF Working
  <1>11. OrderInv' /\ PlaceInv'
    BY <1>2, <1>5, <1>6, <1>8, <1>10, RaisedCounter
  <1>12. WorkInv' /\ StatusInv' /\ LineInv' /\ PassedInv'
    <2>1. Found \in Int /\ Found' \in Int /\ Found <= Found'
      BY <1>1, <1>2, <1>5 DEF Found
    <2>2. \A u \in Threads, j \in Levels : LevelOf(u) = j /\ Working(u) => completed'[j] <= my[u].s
      <3> SUFFICES ASSUME NEW u \in Threads, NEW j \in Levels, LevelOf(u) = j, Working(u)
                   PROVE  completed'[j] <= my[u].s
        OBVIOUS
      <3>1. CASE j = k
        BY <1>1, <1>2, <1>9, <3>1
      <3>2. CASE j # k
        BY <1>1, <1>2, <3>2, WorkingRecent
      <3> QED BY <3>1, <3>2
    <2>3. ~setup.posix => completed' = completed
      BY <1>1, <1>2, <1>8
    <2>4. \A j \in Levels : Drained(j)' <=> Drained(j)
      BY <1>2, <1>5 DEF Drained
    <2> QED BY <1>2, <1>5, <1>10, <2>1, <2>2, <2>3, <2>4, SameWork
  <1>13. ActiveInv'
    <2>1. Inside(k)' = Inside(k) \ {t}
      BY <1>3, <1>5 DEF Inside, Outside
    <2>2. \A j \in Levels : j # k => Inside(j)' = Inside(j)
      BY <1>3, <1>5 DEF Inside
    <2>3. IsFiniteSet(Inside(k)) /\ active[k] = Cardinality(Inside(k))
      BY <1>1, InsideFinite
    <2>4. Cardinality(Inside(k) \ {t}) = Cardinality(Inside(k)) - 1
      BY <1>6, <2>3, FS_RemoveElement
    <2>5. ASSUME NEW j \in Levels PROVE active'[j] = Cardinality(Inside(j)')
      <3>1. CASE j = k
        <4>1. active'[k] = active[k] - 1
          BY <1>1, <1>2
        <4>2. Cardinality(Inside(k)') = active[k] - 1
          BY <2>1, <2>3, <2>4, Zenon
        <4> QED BY <3>1, <4>1, <4>2
      <3>2. CASE j # k
        <4>1. active'[j] = active[j] /\ Inside(j)' = Inside(j)
          BY <1>1, <1>2, <2>2, <3>2
        <4>2. active[j] = Cardinality(Inside(j))
          BY InsideFinite
        <4> QED BY <4>1, <4>2
      <3> QED BY <3>1, <3>2
    <2>6. ASSUME NEW j \in Levels, Drained(j)' PROVE completed'[j] = SIZE_MAX /\ Inside(j)' = {}
      <3>1. Drained(j)
        BY <1>2, <1>5, <2>6 DEF Drained
      <3>2. j # k
        BY <1>6, <3>1
      <3>3. completed'[j] = completed[j] /\ Inside(j)' = Inside(j)
        BY <1>1, <1>2, <2>2, <3>2
      <3> QED BY <3>1, <3>3, Parts DEF ActiveInv
    <2>7. pc'[Main] \notin {"enter", "entered"} => \A u \in Threads : pc'[u] # "enter"
      BY <1>5, Parts DEF ActiveInv
    <2>8. main'.k > 0 => pc'[Main] \in {"drain", "join", "ended"}
      BY <1>2, <1>5, Parts DEF ActiveInv
    <2> QED BY <1>3, <2>5, <2>6, <2>7, <2>8 DEF ActiveInv
  <1>14. PipeTypes'
    <2>1. "ended" \in Labels /\ "ended" \in ConsumerLabels
      BY DEF Labels, ConsumerLabels
    <2>2. (/\ pc \in [Threads -> Labels] /\ pc[Main] \in MainLabels
           /\ \A u \in Threads \ {Main} : pc[u] \in ConsumerLabels)'
      BY <1>1, <1>2, <1>3, <1>5, <2>1, Types
    <2>3. completed' \in [Levels -> Nat] /\ active' \in [Levels -> Int]
      BY <1>1, <1>2, <1>8
    <2>4. (/\ setup \in Setups
           /\ completed \in [Levels -> Nat] /\ scheduled \in [Levels -> Nat]
           /\ status \in [Slots -> Int] /\ \A x \in Slots : status[x] >= -1
           /\ active \in [Levels -> Int]
           /\ my \in [Threads -> [slot : Slots, s : Nat]]
           /\ rels = [x \in Slots |-> rels[x]] /\ passed = [j \in Levels |-> passed[j]])'
      <3>1. Slots' = Slots
        BY DEF Slots
      <3> QED BY <1>2, <1>3, <2>3, <3>1, Parts DEF PipeTypes
    <2>5. (/\ DOMAIN main = {"avail_seen", "avail_offset", "nl", "nrels", "k"}
           /\ main.nrels \in Nat /\ main.k \in Levels)'
      BY <1>2, <1>3, Parts DEF PipeTypes
    <2> QED BY <2>2, <2>4, <2>5 DEF PipeTypes
  <1> QED BY <1>11, <1>12, <1>13, <1>14 DEF IInv

(* Main drains a level, or waits for the threads at it.                      *)
LEMMA DrainKeeps == ASSUME IInv, FewLines, DrainLevel PROVE IInv'
  <1> DEFINE K == main.k
  <1>1. /\ pc \in [Threads -> Labels] /\ Main \in Threads /\ setup.posix \in BOOLEAN
        /\ active \in [Levels -> Int] /\ main.nrels \in Nat /\ K \in Levels
        /\ my \in [Threads -> [slot : Slots, s : Nat]] /\ LevelOf(Main) = 0
        /\ completed \in [Levels -> Nat] /\ scheduled \in [Levels -> Nat]
        /\ Levels = 0 .. LastLevel /\ LastLevel \in Nat \ {0} /\ K \in Nat
        /\ DOMAIN main = MainFields /\ 0 \in Levels /\ LastLevel \in Levels
    BY Types
  <1>2. pc[Main] = "drain" /\ ~Drained(K) /\ completed[K] # SIZE_MAX
    <2>1. pc[Main] = "drain"
      BY DEF DrainLevel, At
    <2>2. ~Drained(K)
      BY <1>1, <2>1 DEF Drained
    <2> QED BY <1>1, <2>1, <2>2, NoOverflow
  <1>3. UNCHANGED <<setup, scheduled, status, active, my, rels, passed>>
    BY DEF DrainLevel, Drain
  <1>4. /\ Threads' = Threads /\ Levels' = Levels /\ LastLevel' = LastLevel
        /\ \A u : LevelOf(u)' = LevelOf(u)
    BY <1>3, Frame
  <1>5. CASE completed' = completed
    <2>1. UNCHANGED Pipes
      BY <1>3, <1>5 DEF Pipes
    <2>2. pc' = [pc EXCEPT ![Main] = "drain"] /\ main' = [main EXCEPT !.k = @]
      BY <1>2, <1>5 DEF DrainLevel, Goto
    <2>3. pc'[Main] = "drain" /\ main'.k = main.k /\ main'.nrels = main.nrels /\ TypedMain'
      BY <1>1, <1>2, <1>4, <2>2 DEF MainFields, TypedMain
    <2>4. "drain" \in Labels /\ "drain" \in MainLabels
      BY DEF Labels, MainLabels
    <2>5. Found <= Found'
      BY <1>1, <1>2, <2>3 DEF Found
    <2>6. scheduled[0] + (IF pc'[Main] \in {"schedule", "decide"} THEN 1 ELSE 0) <= main'.nrels
      BY <1>2, <2>3, Parts DEF OrderInv
    <2>7. \A u \in Threads : pc[u] # "enter"
      BY <1>2, Parts DEF ActiveInv
    <2> QED BY <1>1, <1>2, <2>1, <2>2, <2>3, <2>4, <2>5, <2>6, <2>7, QuietGoto DEF Goto, Outside
  <1>6. CASE completed' # completed
    <2>1. active[K] = 0 /\ completed' = [completed EXCEPT ![K] = SIZE_MAX]
      BY <1>6 DEF DrainLevel, Drain
    <2>2. completed'[K] = SIZE_MAX /\ \A j \in Levels : j # K => completed'[j] = completed[j]
      BY <1>1, <2>1
    <2>3. /\ pc' = [pc EXCEPT ![Main] = IF K = LastLevel THEN "join" ELSE "drain"]
          /\ main' = [main EXCEPT !.k = IF K < LastLevel THEN K + 1 ELSE K]
      BY <2>2 DEF DrainLevel, Goto
    <2>4. /\ main'.k = (IF K < LastLevel THEN K + 1 ELSE K) /\ main'.nrels = main.nrels
          /\ DOMAIN main' = MainFields
      BY <1>1, <2>3 DEF MainFields
    <2>5. /\ pc'[Main] = (IF K = LastLevel THEN "join" ELSE "drain")
          /\ \A u \in Threads \ {Main} : pc'[u] = pc[u]
      BY <1>1, <2>3
    <2>6. \A j \in Levels : Drained(j)' <=> Drained(j) \/ j = K
      <3> SUFFICES ASSUME NEW j \in Levels PROVE Drained(j)' <=> Drained(j) \/ j = K
        OBVIOUS
      <3>1. j \in Nat /\ j <= LastLevel /\ (Drained(j) <=> j < K)
        BY <1>1, <1>2 DEF Drained
      <3>2. CASE K = LastLevel
        BY <1>1, <2>4, <2>5, <3>1, <3>2 DEF Drained
      <3>3. CASE K < LastLevel
        <4>1. main'.k = K + 1 /\ pc'[Main] = "drain"
          BY <1>1, <2>4, <2>5, <3>3
        <4>2. Drained(j)' <=> j < K + 1
          BY <4>1 DEF Drained
        <4>3. \A a, b \in Nat : a < b + 1 <=> (a < b \/ a = b)
          OBVIOUS
        <4>4. j \in Nat /\ K \in Nat
          BY <1>1, <3>1
        <4> QED BY <3>1, <4>2, <4>3, <4>4, Zenon
      <3> QED BY <1>1, <3>2, <3>3
    <2> HIDE DEF K
    <2>7. Inside(K) = {}
      <3>1. IsFiniteSet(Inside(K)) /\ Cardinality(Inside(K)) = 0
        BY <1>1, <2>1, InsideFinite
      <3> QED BY <3>1, FS_EmptySet
    <2>8. \A j \in Levels : Inside(j)' = Inside(j)
      BY <1>2, <1>4, <2>5 DEF Inside, Outside
    <2>9. \A u \in Threads : /\ Working(u)' <=> Working(u)
                             /\ pc'[u] = "leave" => pc[u] = "leave"
                             /\ pc'[u] = "decide" => pc[u] = "decide" /\ u # Main
      BY <1>2, <2>5 DEF Working
    <2>10. ActiveInv'
      <3>1. \A u \in Threads : pc'[u] # "enter"
        BY <1>2, <2>5, Parts DEF ActiveInv
      <3>2. main'.k > 0 => pc'[Main] \in {"drain", "join", "ended"}
        BY <2>5
      <3>3. \A j \in Levels : active'[j] = Cardinality(Inside(j)')
        BY <1>3, <2>8, Parts DEF ActiveInv
      <3>4. ASSUME NEW j \in Levels, Drained(j)' PROVE completed'[j] = SIZE_MAX /\ Inside(j)' = {}
        <4>1. CASE j = K
          <5>1. Inside(j)' = Inside(j) /\ Inside(j) = {}
            BY <2>7, <2>8, <4>1
          <5> QED BY <2>2, <4>1, <5>1
        <4>2. CASE j # K
          <5>1. Drained(j)
            BY <2>6, <3>4, <4>2
          <5>2. completed[j] = SIZE_MAX /\ Inside(j) = {}
            BY <5>1, Parts DEF ActiveInv
          <5> QED BY <2>2, <2>8, <4>2, <5>2
        <4> QED BY <4>1, <4>2
      <3> QED BY <1>4, <3>1, <3>2, <3>3, <3>4 DEF ActiveInv
    <2>11. OrderInv'
      <3>1. \A i \in Levels, j \in Levels : j < i =>
              /\ scheduled[i] <= scheduled[j]
              /\ ~Drained(j)' => scheduled[i] <= completed'[j]
        BY <2>2, <2>6, Parts DEF OrderInv
      <3>2. \A j \in Levels : ~Drained(j)' => completed'[j] <= scheduled[j]
        BY <2>2, <2>6, Parts DEF OrderInv
      <3>3. ~Drained(LastLevel)' => scheduled[0] <= completed'[LastLevel] + SizeBuf
        <4>1. Drained(LastLevel)' <=> Drained(LastLevel) \/ LastLevel = K
          BY <1>1, <1>4, <2>6 DEF Drained
        <4> QED BY <1>1, <2>2, <4>1, Parts DEF OrderInv
      <3>4. scheduled[0] + (IF pc'[Main] \in {"schedule", "decide"} THEN 1 ELSE 0) <= main'.nrels
        BY <1>2, <2>4, <2>5, Parts DEF OrderInv
      <3>5. (/\ \A i \in Levels, j \in Levels : j < i =>
                  /\ scheduled[i] <= scheduled[j]
                  /\ ~Drained(j) => scheduled[i] <= completed[j]
             /\ \A i \in Levels : ~Drained(i) => completed[i] <= scheduled[i])'
        BY <1>3, <1>4, <3>1, <3>2
      <3>6. (/\ ~Drained(LastLevel) => scheduled[0] <= completed[LastLevel] + SizeBuf
             /\ scheduled[0] + (IF pc[Main] \in {"schedule", "decide"} THEN 1 ELSE 0) <= main.nrels)'
        BY <1>3, <1>4, <3>3, <3>4
      <3> QED BY <3>5, <3>6 DEF OrderInv
    <2>12. PlaceInv'
      <3> SUFFICES ASSUME NEW t \in Threads, NEW j \in Levels, LevelOf(t) = j
                   PROVE  /\ pc'[t] = "leave" =>
                               /\ j > 0 /\ Drained(j - 1)'
                               /\ my'[t].s = scheduled'[j] /\ scheduled'[j] = scheduled'[j - 1]
                          /\ pc'[t] = "decide" => ~setup'.posix /\ MayTake(j)'
        BY <1>4 DEF PlaceInv
      <3>1. /\ pc[t] = "leave" => /\ j > 0 /\ Drained(j - 1)
                                  /\ my[t].s = scheduled[j] /\ scheduled[j] = scheduled[j - 1]
            /\ pc[t] = "decide" => ~setup.posix /\ MayTake(j)
        BY Parts DEF PlaceInv
      <3>2. j > 0 => j - 1 \in Levels /\ (Drained(j - 1) => Drained(j - 1)')
        BY <1>1, <2>6
      <3>3. pc'[t] = "decide" => j > 0
        BY <2>9, Types
      <3>4. ASSUME j > 0, MayTake(j) PROVE MayTake(j)'
        <4>1. j # 0 /\ j - 1 \in Levels /\ (~Drained(j - 1)' => ~Drained(j - 1) /\ j - 1 # K)
          BY <2>2, <2>6, <3>2, <3>4
        <4>2. ~Drained(j - 1)' => completed'[j - 1] = completed[j - 1]
          BY <2>2, <4>1
        <4>3. ~Drained(j - 1) => scheduled[j] < completed[j - 1]
          BY <3>4, <4>1 DEF MayTake
        <4> QED BY <1>3, <4>1, <4>2, <4>3 DEF MayTake
      <3> QED BY <1>3, <2>9, <3>1, <3>2, <3>3, <3>4
    <2>13. WorkInv' /\ StatusInv' /\ LineInv' /\ PassedInv'
      <3>1. Found \in Int /\ Found' \in Int /\ Found <= Found'
        BY <1>1, <1>2, <2>4, <2>5 DEF Found
      <3>2. \A u \in Threads, j \in Levels : LevelOf(u) = j /\ Working(u) => completed'[j] <= my[u].s
        <4> SUFFICES ASSUME NEW u \in Threads, NEW j \in Levels, LevelOf(u) = j, Working(u)
                     PROVE  completed'[j] <= my[u].s
          OBVIOUS
        <4>1. u \in Inside(j)
          BY DEF Inside, Working, Outside
        <4>2. j # K
          BY <2>7, <4>1
        <4> QED BY <2>2, <4>2, WorkingRecent
      <3>3. pc'[Main] # "parse" /\ pc[Main] # "parse"
        BY <1>2, <2>5
      <3>4. \A j \in Levels : ~Drained(j)' => ~Drained(j) /\ completed'[j] = completed[j]
        BY <2>2, <2>6
      <3>5. \A u \in Threads : Working(u) => my'[u] = my[u]
        BY <1>3
      <3> QED BY <1>3, <2>9, <3>1, <3>2, <3>3, <3>4, <3>5, SameWork
    <2>14. PipeTypes'
      <3>1. {"drain", "join"} \subseteq Labels /\ {"drain", "join"} \subseteq MainLabels
        BY DEF Labels, MainLabels
      <3>2. (/\ pc \in [Threads -> Labels] /\ pc[Main] \in MainLabels
             /\ \A u \in Threads \ {Main} : pc[u] \in ConsumerLabels)'
        BY <1>1, <1>4, <2>3, <2>5, <3>1, Types
      <3>3. completed' \in [Levels -> Nat] /\ main'.k \in Levels
        <4>1. completed' \in [Levels -> Nat]
          BY <1>1, <2>1, Sizes
        <4>2. K + 1 \in Levels \/ ~(K < LastLevel)
          BY <1>1
        <4> QED BY <1>1, <2>4, <4>1, <4>2
      <3>4. (/\ setup \in Setups
             /\ completed \in [Levels -> Nat] /\ scheduled \in [Levels -> Nat]
             /\ status \in [Slots -> Int] /\ \A x \in Slots : status[x] >= -1
             /\ active \in [Levels -> Int]
             /\ my \in [Threads -> [slot : Slots, s : Nat]]
             /\ rels = [x \in Slots |-> rels[x]] /\ passed = [j \in Levels |-> passed[j]])'
        <4>1. Slots' = Slots
          BY DEF Slots
        <4> QED BY <1>3, <1>4, <3>3, <4>1, Parts DEF PipeTypes
      <3>5. (/\ DOMAIN main = {"avail_seen", "avail_offset", "nl", "nrels", "k"}
             /\ main.nrels \in Nat /\ main.k \in Levels)'
        BY <1>1, <1>4, <2>4, <3>3 DEF MainFields
      <3> QED BY <3>2, <3>4, <3>5 DEF PipeTypes
    <2> QED BY <2>10, <2>11, <2>12, <2>13, <2>14 DEF IInv
  <1> QED BY <1>5, <1>6

-------------------------------------------------------------------------------
(* The steps by which a relation moves.                                      *)

(* What the slot of a recent relation holds is not touched by a change of    *)
(* another recent one.                                                       *)
LEMMA OtherSlot ==
  ASSUME IInv, NEW m \in Nat, Recent(m), NEW n \in Nat, Recent(n), m # n
  PROVE  SlotOf(m) # SlotOf(n) /\ SlotOf(m) \in Slots /\ SlotOf(n) \in Slots
  BY RecentUnique, SlotType, Parts

(* Main copies a line into the slot it was given.                            *)
LEMMA ParseKeeps ==
  ASSUME IInv, Parse, NEW s \in Nat, s = my[Main].s
  PROVE  IInv'
  <1>1. /\ pc \in [Threads -> Labels] /\ Main \in Threads /\ main.nrels \in Nat
        /\ 0 \in Levels /\ LevelOf(Main) = 0 /\ rels = [x \in Slots |-> rels[x]]
        /\ completed \in [Levels -> Nat] /\ scheduled \in [Levels -> Nat] /\ Levels \subseteq Nat
    BY Types
  <1>2. /\ pc[Main] = "parse" /\ pc' = [pc EXCEPT ![Main] = "holds"]
        /\ UNCHANGED <<setup, completed, scheduled, status, active, my, main, passed>>
        /\ rels' = [rels EXCEPT ![my[Main].slot] =
             [num |-> main.nrels - 1, bytes |-> [i \in 1 .. main.nl + 1 |-> Cell(i - 1)]]]
    BY DEF Parse, At, Goto, inflightVars
  <1>3. /\ Threads' = Threads /\ Levels' = Levels /\ LastLevel' = LastLevel
        /\ \A u : LevelOf(u)' = LevelOf(u)
    BY <1>2, Frame
  <1>4. pc'[Main] = "holds" /\ \A u \in Threads \ {Main} : pc'[u] = pc[u]
    BY <1>1, <1>2
  <1>5. Working(Main) /\ scheduled[0] = s + 1
    BY <1>2, Parts DEF Working, WorkInv
  <1>6. /\ s \in Nat /\ my[Main].slot = SlotOf(s) /\ Recent(s) /\ completed[0] <= s
        /\ ~Done(0, s) /\ ~Drained(0)
    BY <1>1, <1>5, WorkingRecent
  <1>7. \A u \in Threads : /\ Working(u)' <=> Working(u)
                           /\ pc'[u] = "leave" => pc[u] = "leave" /\ my'[u] = my[u]
                           /\ pc'[u] = "decide" => pc[u] = "decide"
                           /\ pc'[u] \in Outside <=> pc[u] \in Outside
                           /\ pc'[u] = "enter" <=> pc[u] = "enter"
    BY <1>2, <1>4 DEF Working, Outside
  <1>8. \A j \in Levels : Drained(j)' <=> Drained(j)
    BY <1>2, <1>4 DEF Drained
  <1>9. ActiveInv'
    <2>1. \A j \in Levels : Inside(j)' = Inside(j)
      BY <1>3, <1>7 DEF Inside
    <2>2. \A j \in Levels : active'[j] = Cardinality(Inside(j)')
      BY <1>2, <2>1, Parts DEF ActiveInv
    <2>3. \A j \in Levels : Drained(j)' => completed'[j] = SIZE_MAX /\ Inside(j)' = {}
      BY <1>2, <1>8, <2>1, Parts DEF ActiveInv
    <2>4. \A u \in Threads : pc'[u] # "enter"
      BY <1>2, <1>7, Parts DEF ActiveInv
    <2>5. main'.k > 0 => pc'[Main] \in {"drain", "join", "ended"}
      BY <1>2, Parts DEF ActiveInv
    <2> QED BY <1>3, <2>2, <2>3, <2>4, <2>5 DEF ActiveInv
  <1>10. OrderInv' /\ PlaceInv'
    <2>1. completed[0] \in Nat /\ completed[0] <= scheduled[0]
      BY <1>1, <1>6, Parts DEF OrderInv
    <2>2. completed' = [completed EXCEPT ![0] = completed[0]]
      BY <1>1, <1>2
    <2>3. completed[0] <= completed[0]
      BY <2>1
    <2> QED BY <1>1, <1>2, <1>4, <1>6, <1>7, <2>1, <2>2, <2>3, RaisedCounter
  <1>11. /\ WorkInv' /\ StatusInv'
         /\ \A k \in Levels, n \in Nat : Done(k, n)' <=> Done(k, n)
         /\ \A n \in Nat : Recent(n)' <=> Recent(n)
    <2>1. \A t \in Threads, k \in Levels : LevelOf(t) = k /\ Working(t) => completed'[k] <= my[t].s
      BY <1>2, WorkingRecent
    <2> QED BY <1>2, <1>7, <1>8, <2>1, SameSlots
  <1>12. \A n \in Nat : Filled(n)' <=> Recent(n)
    BY <1>4, <1>11 DEF Filled
  <1>13. \A n \in Nat : Filled(n) <=> Recent(n) /\ n # s
    BY <1>2 DEF Filled
  <1>14. Num(s)' = main.nrels - 1
    <2>1. SlotOf(s) \in Slots /\ SlotOf(s)' = SlotOf(s)
      BY <1>6, SlotType DEF SlotOf
    <2>2. Num(s)' = rels'[SlotOf(s)].num
      BY DEF Num, SlotOf
    <2> DEFINE rel == [num |-> main.nrels - 1, bytes |-> [i \in 1 .. main.nl + 1 |-> Cell(i - 1)]]
    <2>3. rel.num = main.nrels - 1
      OBVIOUS
    <2>4. rels' = [rels EXCEPT ![SlotOf(s)] = rel]
      BY <1>2, <1>6
    <2> HIDE DEF rel
    <2>5. rels'[SlotOf(s)] = rel
      BY <1>1, <2>1, <2>4
    <2> QED BY <2>2, <2>3, <2>5
  <1>15. ASSUME NEW n \in Nat, Recent(n), n # s PROVE Num(n)' = Num(n)
    <2>1. SlotOf(n) # SlotOf(s) /\ SlotOf(n) \in Slots
      BY <1>6, <1>15, OtherSlot
    <2>2. rels'[SlotOf(n)] = rels[SlotOf(n)]
      BY <1>1, <1>2, <1>6, <2>1
    <2> QED BY <2>2 DEF Num, SlotOf
  <1>16. Found = main.nrels - 1 /\ Found' = main.nrels
    BY <1>2, <1>4 DEF Found
  <1>17. LineInv'
    <2>1. ASSUME NEW n \in Nat, Filled(n)' PROVE Num(n)' \in Nat /\ Num(n)' < Found'
      <3>1. CASE n = s
        <4>1. main.nrels - 1 \in Nat
          <5>1. scheduled[0] <= main.nrels
            BY <1>2, <1>1, Parts DEF OrderInv
          <5> QED BY <1>1, <1>5, <1>6, <5>1
        <4>2. Num(n)' = Num(s)'
          BY <3>1
        <4> QED BY <1>1, <1>14, <1>16, <4>1, <4>2
      <3>2. CASE n # s
        <4>1. Filled(n) /\ Num(n)' = Num(n)
          BY <1>12, <1>13, <1>15, <2>1, <3>2
        <4>2. Num(n) \in Nat /\ Num(n) < Found
          BY <4>1, Parts DEF LineInv
        <4> QED BY <1>1, <1>16, <4>1, <4>2
      <3> QED BY <3>1, <3>2
    <2>2. ASSUME NEW n \in Nat, NEW m \in Nat, Filled(m)', Filled(n)', m < n
          PROVE  Num(m)' < Num(n)'
      <3>1. m # s
        <4>1. n < scheduled[0]
          BY <1>12, <2>2 DEF Recent
        <4> QED BY <1>5, <1>6, <2>2, <4>1
      <3>2. Filled(m) /\ Num(m)' = Num(m)
        BY <1>12, <1>13, <1>15, <2>2, <3>1
      <3>3. CASE n = s
        <4>1. Num(m) < Found
          BY <3>2, Parts DEF LineInv
        <4> QED BY <1>14, <1>16, <3>2, <3>3, <4>1
      <3>4. CASE n # s
        <4>1. Filled(n) /\ Num(n)' = Num(n)
          BY <1>12, <1>13, <1>15, <2>2, <3>4
        <4> QED BY <2>2, <3>2, <4>1, Parts DEF LineInv
      <3> QED BY <3>3, <3>4
    <2> QED BY <2>1, <2>2 DEF LineInv
  <1>18. PassedInv'
    <2>1. \A k \in Levels : \A x \in passed[k] : x \in Nat /\ x < Found
      BY Parts DEF PassedInv, LineInv
    <2>2. \A k \in Levels : ~Done(k, s)
      <3> SUFFICES ASSUME NEW k \in Levels PROVE ~Done(k, s)
        OBVIOUS
      <3>1. CASE k = 0
        BY <1>6, <3>1
      <3>2. CASE k > 0
        <4>1. scheduled[k] <= completed[0]
          BY <1>1, <1>6, <3>2, Parts DEF OrderInv
        <4>2. ~(s < scheduled[k])
          BY <1>1, <1>6, <4>1
        <4> QED BY <4>2 DEF Done
      <3> QED BY <1>1, <3>1, <3>2
    <2>3. ASSUME NEW n \in Nat, NEW k \in Levels, Filled(n)'
          PROVE  Num(n)' \in passed'[k] <=> Done(k, n)'
      <3>1. CASE n = s
        <4>1. Num(n)' = main.nrels - 1
          BY <1>14, <3>1
        <4>2. main.nrels - 1 \notin passed[k]
          BY <1>1, <1>16, <2>1
        <4> QED BY <1>2, <1>11, <2>2, <3>1, <4>1, <4>2
      <3>2. CASE n # s
        <4>1. Filled(n) /\ Num(n)' = Num(n)
          BY <1>12, <1>13, <1>15, <2>3, <3>2
        <4> QED BY <1>2, <1>11, <4>1, Parts DEF PassedInv
      <3> QED BY <3>1, <3>2
    <2>4. ASSUME NEW k \in Levels, NEW x \in passed'[k]
          PROVE  \/ \E n \in Nat : Filled(n)' /\ x = Num(n)'
                 \/ /\ x \in Nat /\ x < Found'
                    /\ \A j \in Levels : x \in passed'[j]
                    /\ \A n \in Nat : Filled(n)' => x < Num(n)'
      <3>1. CASE \E n \in Nat : Filled(n) /\ x = Num(n)
        BY <1>12, <1>13, <1>15, <3>1
      <3>2. CASE /\ x \in Nat /\ x < Found
                 /\ \A j \in Levels : x \in passed[j]
                 /\ \A n \in Nat : Filled(n) => x < Num(n)
        <4>1. x < Found'
          BY <1>1, <1>16, <3>2
        <4>2. ASSUME NEW n \in Nat, Filled(n)' PROVE x < Num(n)'
          <5>1. CASE n = s
            BY <1>14, <1>16, <3>2, <5>1
          <5>2. CASE n # s
            BY <1>12, <1>13, <1>15, <3>2, <4>2, <5>2
          <5> QED BY <5>1, <5>2
        <4> QED BY <1>2, <3>2, <4>1, <4>2
      <3>3. x \in passed[k]
        BY <1>2
      <3> QED BY <3>1, <3>2, <3>3, Parts DEF PassedInv
    <2> QED BY <1>3, <2>3, <2>4 DEF PassedInv
  <1>19. PipeTypes'
    <2>1. "holds" \in Labels /\ "holds" \in MainLabels
      BY DEF Labels, MainLabels
    <2>2. (/\ pc \in [Threads -> Labels] /\ pc[Main] \in MainLabels
           /\ \A u \in Threads \ {Main} : pc[u] \in ConsumerLabels)'
      BY <1>1, <1>2, <1>3, <1>4, <2>1, Types
    <2>3. (rels = [x \in Slots |-> rels[x]])'
      BY <1>1, <1>2 DEF Slots
    <2>4. (/\ setup \in Setups
           /\ completed \in [Levels -> Nat] /\ scheduled \in [Levels -> Nat]
           /\ status \in [Slots -> Int] /\ \A x \in Slots : status[x] >= -1
           /\ active \in [Levels -> Int]
           /\ my \in [Threads -> [slot : Slots, s : Nat]]
           /\ passed = [j \in Levels |-> passed[j]])'
      <3>1. Slots' = Slots
        BY DEF Slots
      <3> QED BY <1>2, <1>3, <3>1, Parts DEF PipeTypes
    <2>5. (/\ DOMAIN main = {"avail_seen", "avail_offset", "nl", "nrels", "k"}
           /\ main.nrels \in Nat /\ main.k \in Levels)'
      BY <1>2, <1>3, Parts DEF PipeTypes
    <2> QED BY <2>2, <2>3, <2>4, <2>5 DEF PipeTypes
  <1> QED BY <1>9, <1>10, <1>11, <1>17, <1>18, <1>19 DEF IInv

(* The types after a step of thread t.                                       *)
LEMMA MovedTypes ==
  ASSUME IInv, NEW t \in Threads, NEW label \in Labels, pc' = [pc EXCEPT ![t] = label],
         IF t = Main THEN label \in MainLabels ELSE label \in ConsumerLabels,
         UNCHANGED <<setup, active, main>>,
         completed' \in [Levels -> Nat], scheduled' \in [Levels -> Nat],
         status' \in [Slots -> Int], \A x \in Slots : status'[x] >= -1,
         my' \in [Threads -> [slot : Slots, s : Nat]],
         rels' = [x \in Slots |-> rels'[x]], passed' = [k \in Levels |-> passed'[k]]
  PROVE  PipeTypes'
  <1>1. /\ Threads' = Threads /\ Levels' = Levels /\ Slots' = Slots
    BY Frame DEF Slots
  <1>2. (/\ pc \in [Threads -> Labels] /\ pc[Main] \in MainLabels
         /\ \A u \in Threads \ {Main} : pc[u] \in ConsumerLabels)'
    <2>1. /\ pc \in [Threads -> Labels] /\ pc[Main] \in MainLabels
          /\ \A u \in Threads \ {Main} : pc[u] \in ConsumerLabels
      BY Types
    <2>2. pc'[t] = label /\ \A u \in Threads \ {t} : pc'[u] = pc[u]
      BY <2>1
    <2>3. pc' \in [Threads -> Labels]
      BY <2>1
    <2>4. pc'[Main] \in MainLabels
      BY <2>1, <2>2, Types
    <2>5. \A u \in Threads \ {Main} : pc'[u] \in ConsumerLabels
      BY <2>1, <2>2
    <2> QED BY <1>1, <2>3, <2>4, <2>5
  <1>3. (/\ setup \in Setups
         /\ completed \in [Levels -> Nat] /\ scheduled \in [Levels -> Nat]
         /\ active \in [Levels -> Int])'
    BY <1>1, Parts DEF PipeTypes
  <1>4. (/\ status \in [Slots -> Int] /\ \A x \in Slots : status[x] >= -1
         /\ my \in [Threads -> [slot : Slots, s : Nat]])'
    BY <1>1
  <1>5. (rels = [x \in Slots |-> rels[x]] /\ passed = [k \in Levels |-> passed[k]])'
    BY <1>1
  <1>6. (/\ DOMAIN main = {"avail_seen", "avail_offset", "nl", "nrels", "k"}
         /\ main.nrels \in Nat /\ main.k \in Levels)'
    BY <1>1, Parts DEF PipeTypes
  <1> QED BY <1>2, <1>3, <1>4, <1>5, <1>6 DEF PipeTypes

(* A step by which no thread enters or leaves a level.                       *)
LEMMA SameActive ==
  ASSUME IInv, UNCHANGED <<setup, active, main>>,
         \A t \in Threads : /\ pc'[t] \in Outside <=> pc[t] \in Outside
                            /\ pc'[t] = "enter" => pc[t] = "enter",
         \A k \in Levels : Drained(k)' => Drained(k) /\ completed'[k] = completed[k],
         \/ pc'[Main] = pc[Main]
         \/ /\ pc[Main] \notin {"enter", "entered", "drain", "join", "ended"}
            /\ pc'[Main] \notin {"enter", "entered", "drain", "join", "ended"}
  PROVE  ActiveInv'
  <1>1. Threads' = Threads /\ Levels' = Levels /\ \A u : LevelOf(u)' = LevelOf(u)
    BY Frame
  <1>2. \A j \in Levels : Inside(j)' = Inside(j)
    BY <1>1 DEF Inside
  <1>3. \A j \in Levels : active'[j] = Cardinality(Inside(j)')
    BY <1>2, Parts DEF ActiveInv
  <1>4. \A j \in Levels : Drained(j)' => completed'[j] = SIZE_MAX /\ Inside(j)' = {}
    BY <1>2, Parts DEF ActiveInv
  <1>5. pc'[Main] \notin {"enter", "entered"} => \A u \in Threads : pc'[u] # "enter"
    BY Parts DEF ActiveInv
  <1>6. main'.k > 0 => pc'[Main] \in {"drain", "join", "ended"}
    BY Parts DEF ActiveInv
  <1> QED BY <1>1, <1>3, <1>4, <1>5, <1>6 DEF ActiveInv

(* While a level is in use the counters of the last one are below its own.   *)
LEMMA LowestCounter ==
  ASSUME IInv, NEW j \in Levels, ~Drained(j)
  PROVE  /\ ~Drained(LastLevel) /\ completed[LastLevel] <= completed[j]
         /\ completed[LastLevel] <= scheduled[j] /\ completed[j] <= scheduled[j]
         /\ scheduled[0] <= completed[LastLevel] + SizeBuf
         /\ scheduled[0] <= completed[j] + SizeBuf
  <1>1. /\ completed \in [Levels -> Nat] /\ scheduled \in [Levels -> Nat]
        /\ Levels = 0 .. LastLevel /\ LastLevel \in Levels /\ LastLevel \in Nat /\ 0 \in Levels
    BY Types
  <1>2. ~Drained(LastLevel)
    BY <1>1, DrainedLevels
  <1>3. /\ completed[j] <= scheduled[j] /\ completed[LastLevel] <= scheduled[LastLevel]
        /\ scheduled[0] <= completed[LastLevel] + SizeBuf
    BY <1>1, <1>2, Parts DEF OrderInv
  <1>4. completed[LastLevel] <= completed[j]
    <2>1. CASE j = LastLevel
      BY <1>1, <2>1
    <2>2. CASE j < LastLevel
      <3>1. scheduled[LastLevel] <= completed[j]
        BY <1>1, <2>2, Parts DEF OrderInv
      <3>2. \A a, b, c \in Nat : a <= b /\ b <= c => a <= c
        OBVIOUS
      <3> QED BY <1>1, <1>3, <3>1, <3>2
    <2> QED BY <1>1, <2>1, <2>2
  <1>5. \A a, b, c, d \in Nat : a <= b /\ b <= c => a <= c /\ (d <= a + SizeBuf => d <= b + SizeBuf)
    BY Sizes
  <1>6. completed[LastLevel] \in Nat /\ completed[j] \in Nat /\ scheduled[j] \in Nat /\ scheduled[0] \in Nat
    BY <1>1
  <1> QED BY <1>2, <1>3, <1>4, <1>5, <1>6

(* A thread of a later level takes a relation.                               *)
LEMMA TakeNextKeeps ==
  ASSUME IInv, FewLines, NEW t \in Threads, NEW k \in Levels, LevelOf(t) = k, k > 0,
         NEW s \in Nat, s = scheduled[k], pc[t] \in {"schedule", "decide"},
         MayTake(k), ~NoneLeft(k), Take(k), Goto(t, "holds"),
         my' = [my EXCEPT ![t] = [slot |-> SlotOf(s), s |-> s]], UNCHANGED <<main, rels, passed>>
  PROVE  IInv'
  <1>1. /\ pc \in [Threads -> Labels] /\ Main \in Threads /\ main.nrels \in Nat
        /\ LevelOf(Main) = 0 /\ my \in [Threads -> [slot : Slots, s : Nat]]
        /\ completed \in [Levels -> Nat] /\ scheduled \in [Levels -> Nat] /\ Levels \subseteq Nat
        /\ Levels = 0 .. LastLevel /\ LastLevel \in Levels /\ 0 \in Levels
        /\ k \in Nat /\ k - 1 \in Levels /\ LastLevel \in Nat \ {0} /\ t # Main
    <2>1. /\ Levels = 0 .. LastLevel /\ LastLevel \in Nat \ {0} /\ LevelOf(Main) = 0
          /\ Levels \subseteq Nat
      BY Types
    <2>2. k \in Nat /\ k - 1 \in Levels /\ t # Main
      BY <2>1
    <2> QED BY <2>1, <2>2, Types
  <1>2. t \in Inside(k) /\ ~Drained(k)
    <2>1. t \in Inside(k)
      BY DEF Inside, Outside
    <2> QED BY <2>1, Parts DEF ActiveInv
  <1>3. s < scheduled[k - 1] /\ (~Drained(k - 1) => s < completed[k - 1])
    <2>1. ~Drained(k - 1) => s < completed[k - 1]
      BY DEF MayTake
    <2>2. CASE Drained(k - 1)
      BY <1>1, <2>2, SchedulePromise
    <2>3. CASE ~Drained(k - 1)
      <3>1. completed[k - 1] <= scheduled[k - 1]
        BY <1>1, <2>3, Parts DEF OrderInv
      <3>2. s < completed[k - 1] /\ completed[k - 1] \in Nat /\ scheduled[k - 1] \in Nat
        BY <1>1, <2>1, <2>3
      <3> QED BY <2>1, <3>1, <3>2
    <2> QED BY <2>1, <2>2, <2>3
  <1>4. scheduled' = [scheduled EXCEPT ![k] = s + 1] /\ UNCHANGED <<setup, status, completed, active>>
    <2>1. s + 1 \in Nat /\ s + 1 < SizeTMod
      BY NoOverflow, Sizes
    <2>2. (s + 1) % SizeTMod = s + 1
      BY <2>1, Sizes
    <2>3. /\ scheduled' = [scheduled EXCEPT ![k] = (scheduled[k] + 1) % SizeTMod]
          /\ k # 0 /\ status' = status /\ UNCHANGED <<setup, completed, active>>
      BY DEF Take
    <2> QED BY <2>2, <2>3
  <1>5. scheduled'[k] = s + 1 /\ \A j \in Levels : j # k => scheduled'[j] = scheduled[j]
    BY <1>1, <1>4
  <1>6. /\ pc' = [pc EXCEPT ![t] = "holds"] /\ pc'[t] = "holds"
        /\ \A u \in Threads \ {t} : pc'[u] = pc[u]
    BY <1>1 DEF Goto
  <1>7. my'[t] = [slot |-> SlotOf(s), s |-> s] /\ \A u \in Threads \ {t} : my'[u] = my[u]
    BY <1>1
  <1>8. /\ Threads' = Threads /\ Levels' = Levels /\ LastLevel' = LastLevel
        /\ \A u : LevelOf(u)' = LevelOf(u) /\ SlotOf(u)' = SlotOf(u)
    BY <1>4, Frame DEF SlotOf
  <1>9. \A j \in Levels : Drained(j)' <=> Drained(j)
    BY <1>1, <1>6 DEF Drained
  <1>10. Working(t)' /\ ~Working(t) /\ \A u \in Threads \ {t} : Working(u)' <=> Working(u)
    BY <1>6 DEF Working
  <1>11. completed[k] <= s /\ scheduled[0] <= s + SizeBuf
    <2>1. completed[k] <= scheduled[k] /\ scheduled[0] <= completed[k] + SizeBuf
      BY <1>2, LowestCounter
    <2>2. completed[k] \in Nat /\ scheduled[0] \in Nat
      BY <1>1
    <2> QED BY <2>1, <2>2, Sizes
  <1>12. ActiveInv'
    <2>1. \A u \in Threads : /\ pc'[u] \in Outside <=> pc[u] \in Outside
                             /\ pc'[u] = "enter" => pc[u] = "enter"
      BY <1>6 DEF Outside
    <2> QED BY <1>1, <1>4, <1>6, <1>9, <2>1, SameActive
  <1>13. OrderInv'
    <2>1. \A i \in Levels, j \in Levels : j < i =>
            /\ scheduled'[i] <= scheduled'[j]
            /\ ~Drained(j) => scheduled'[i] <= completed[j]
      <3> SUFFICES ASSUME NEW i \in Levels, NEW j \in Levels, j < i
                   PROVE  /\ scheduled'[i] <= scheduled'[j]
                          /\ ~Drained(j) => scheduled'[i] <= completed[j]
        OBVIOUS
      <3>1. /\ scheduled[i] <= scheduled[j] /\ (~Drained(j) => scheduled[i] <= completed[j])
            /\ scheduled[i] \in Nat /\ scheduled[j] \in Nat /\ completed[j] \in Nat
        BY <1>1, Parts DEF OrderInv
      <3>2. CASE i = k
        <4>1. scheduled'[i] = s + 1 /\ scheduled'[j] = scheduled[j]
          BY <1>1, <1>5, <3>2
        <4>2. CASE j = k - 1
          <5>1. s + 1 <= scheduled[j] /\ (~Drained(j) => s + 1 <= completed[j])
            <6>1. \A a, b \in Nat : a < b => a + 1 <= b
              OBVIOUS
            <6>2. s < scheduled[j] /\ (~Drained(j) => s < completed[j])
              BY <1>3, <4>2
            <6> QED BY <3>1, <6>1, <6>2
          <5> QED BY <4>1, <5>1, Zenon
        <4>3. CASE j < k - 1
          <5>1. /\ scheduled[k - 1] <= scheduled[j]
                /\ ~Drained(j) => scheduled[k - 1] <= completed[j]
            BY <1>1, <4>3, Parts DEF OrderInv
          <5>2. scheduled[k - 1] \in Nat
            BY <1>1
          <5> QED BY <1>3, <3>1, <4>1, <5>1, <5>2
        <4> QED BY <1>1, <3>2, <4>2, <4>3
      <3>3. CASE i # k
        <4>1. scheduled'[i] = scheduled[i] /\ (scheduled'[j] = scheduled[j] \/ scheduled'[j] = scheduled[j] + 1)
          BY <1>5, <3>3
        <4> QED BY <3>1, <4>1
      <3> QED BY <3>2, <3>3
    <2>2. \A j \in Levels : ~Drained(j) => completed[j] <= scheduled'[j]
      <3>1. \A j \in Levels : ~Drained(j) => completed[j] <= scheduled[j]
        BY Parts DEF OrderInv
      <3>2. completed[k] <= s + 1
        BY <1>1, <1>11
      <3> QED BY <1>5, <3>1, <3>2
    <2>3. scheduled'[0] = scheduled[0] /\ pc'[Main] = pc[Main]
      BY <1>1, <1>5, <1>6
    <2>4. (/\ \A i \in Levels, j \in Levels : j < i =>
                /\ scheduled[i] <= scheduled[j]
                /\ ~Drained(j) => scheduled[i] <= completed[j]
           /\ \A i \in Levels : ~Drained(i) => completed[i] <= scheduled[i])'
      BY <1>4, <1>8, <1>9, <2>1, <2>2
    <2>5. Drained(LastLevel)' <=> Drained(LastLevel)
      BY <1>1, <1>6, <1>8 DEF Drained
    <2>6. (/\ ~Drained(LastLevel) => scheduled[0] <= completed[LastLevel] + SizeBuf
           /\ scheduled[0] + (IF pc[Main] \in {"schedule", "decide"} THEN 1 ELSE 0) <= main.nrels)'
      BY <1>4, <1>8, <2>3, <2>5, Parts DEF OrderInv
    <2> QED BY <2>4, <2>6 DEF OrderInv
  <1>14. PlaceInv'
    <2> SUFFICES ASSUME NEW u \in Threads, NEW j \in Levels, LevelOf(u) = j, u # t
                 PROVE  /\ pc'[u] = "leave" =>
                             /\ j > 0 /\ Drained(j - 1)'
                             /\ my'[u].s = scheduled'[j] /\ scheduled'[j] = scheduled'[j - 1]
                        /\ pc'[u] = "decide" => ~setup'.posix /\ MayTake(j)'
      BY <1>6, <1>8 DEF PlaceInv
    <2>1. /\ pc[u] = "leave" => /\ j > 0 /\ Drained(j - 1)
                                /\ my[u].s = scheduled[j] /\ scheduled[j] = scheduled[j - 1]
          /\ pc[u] = "decide" => ~setup.posix /\ MayTake(j)
      BY Parts DEF PlaceInv
    <2>2. pc'[u] = pc[u] /\ my'[u] = my[u] /\ (j > 0 => j - 1 \in Levels)
      BY <1>6, <1>7, LevelTypes
    <2>3. ASSUME pc[u] = "leave" PROVE j # k /\ j - 1 # k
      <3>1. j # k
        <4>1. s \in Nat /\ scheduled[k - 1] \in Nat /\ s # scheduled[k - 1]
          BY <1>1, <1>3
        <4> QED BY <2>1, <2>3, <4>1
      <3>2. j - 1 # k
        BY <1>2, <2>1, <2>3
      <3> QED BY <3>1, <3>2
    <2>4. pc'[u] = "leave" => /\ j > 0 /\ Drained(j - 1)'
                              /\ my'[u].s = scheduled'[j] /\ scheduled'[j] = scheduled'[j - 1]
      BY <1>5, <1>9, <2>1, <2>2, <2>3
    <2>5. ASSUME pc[u] = "decide" PROVE MayTake(j)'
      <3>1. j # k
        BY <2>1, <2>5, OneEach, Parts
      <3>2. scheduled'[j] = scheduled[j] /\ completed' = completed
        BY <1>4, <1>5, <3>1
      <3>3. j # 0 => (Drained(j - 1)' <=> Drained(j - 1))
        <4>1. j \in Nat
          BY <1>1
        <4> QED BY <1>9, <2>2, <4>1
      <3>4. MayTake(j)
        BY <2>1, <2>5
      <3>5. CASE j = 0
        BY <1>8, <3>2, <3>4, <3>5 DEF MayTake
      <3>6. CASE j # 0
        BY <3>2, <3>3, <3>4, <3>6 DEF MayTake
      <3> QED BY <3>5, <3>6
    <2>6. setup' = setup
      BY <1>4
    <2> QED BY <2>1, <2>2, <2>4, <2>5, <2>6
  <1>15. WorkInv'
    <2>1. \A u \in Threads, j \in Levels : LevelOf(u) = j /\ Working(u)' =>
             /\ completed[j] <= my'[u].s /\ my'[u].s < scheduled'[j]
             /\ scheduled'[0] <= my'[u].s + SizeBuf
             /\ my'[u].slot = SlotOf(my'[u].s)
      <3> SUFFICES ASSUME NEW u \in Threads, NEW j \in Levels, LevelOf(u) = j, Working(u)'
                   PROVE  /\ completed[j] <= my'[u].s /\ my'[u].s < scheduled'[j]
                          /\ scheduled'[0] <= my'[u].s + SizeBuf
                          /\ my'[u].slot = SlotOf(my'[u].s)
        OBVIOUS
      <3>1. CASE u = t
        <4>1. my'[u].s = s /\ my'[u].slot = SlotOf(s) /\ j = k /\ scheduled'[0] = scheduled[0]
          BY <1>1, <1>5, <1>7, <3>1
        <4> QED BY <1>5, <1>11, <4>1
      <3>2. CASE u # t
        <4>1. my'[u] = my[u] /\ Working(u) /\ scheduled'[0] = scheduled[0]
          BY <1>1, <1>5, <1>7, <1>10, <3>2
        <4>2. /\ completed[j] <= my[u].s /\ my[u].s < scheduled[j]
              /\ scheduled[0] <= my[u].s + SizeBuf
              /\ my[u].slot = SlotOf(my[u].s)
          BY <4>1, Parts DEF WorkInv
        <4>3. my[u].s \in Nat /\ scheduled[j] \in Nat
          BY <1>1
        <4>4. my[u].s < scheduled'[j]
          BY <1>5, <4>2, <4>3
        <4> QED BY <4>1, <4>2, <4>4
      <3> QED BY <3>1, <3>2
    <2>2. Working(Main)' => scheduled'[0] = my'[Main].s + 1
      BY <1>1, <1>5, <1>7, <1>10, Parts DEF WorkInv
    <2>3. ASSUME NEW u \in Threads, u # t, LevelOf(u) = k, Working(u) PROVE my[u].s # s
      BY <1>1, <2>3, WorkingRecent
    <2>4. \A u, v \in Threads : Working(u)' /\ Working(v)' /\ LevelOf(u) = LevelOf(v)
                                  /\ my'[u].s = my'[v].s => u = v
      <3> SUFFICES ASSUME NEW u \in Threads, NEW v \in Threads, Working(u)', Working(v)',
                          LevelOf(u) = LevelOf(v), my'[u].s = my'[v].s, u # v
                   PROVE  FALSE
        OBVIOUS
      <3>1. CASE u = t
        BY <1>7, <1>10, <2>3, <3>1
      <3>2. CASE v = t
        BY <1>7, <1>10, <2>3, <3>2
      <3>3. CASE u # t /\ v # t
        BY <1>7, <1>10, <3>3, Parts DEF WorkInv
      <3> QED BY <3>1, <3>2, <3>3
    <2> QED BY <1>4, <1>8, <2>1, <2>2, <2>4 DEF WorkInv
  <1>16. \A n \in Nat, j \in Levels : Done(j, n)' <=> Done(j, n)
    <2> SUFFICES ASSUME NEW n \in Nat, NEW j \in Levels PROVE Done(j, n)' <=> Done(j, n)
      OBVIOUS
    <2>1. Done(j, n)' <=> /\ n < scheduled'[j]
                          /\ \A u \in Threads : LevelOf(u) = j /\ Working(u)' => my'[u].s # n
      BY <1>8 DEF Done
    <2>2. CASE j # k
      <3>1. scheduled'[j] = scheduled[j]
        BY <1>5, <2>2
      <3>2. \A u \in Threads : LevelOf(u) = j => (Working(u)' <=> Working(u)) /\ my'[u] = my[u]
        BY <1>7, <1>10, <2>2
      <3> QED BY <2>1, <3>1, <3>2 DEF Done
    <2>3. CASE j = k /\ n = s
      <3>1. ~Done(j, n)'
        BY <1>7, <1>10, <2>1, <2>3
      <3>2. ~Done(j, n)
        BY <2>3 DEF Done
      <3> QED BY <3>1, <3>2
    <2>4. CASE j = k /\ n # s
      <3>1. n < scheduled'[j] <=> n < scheduled[j]
        BY <1>5, <2>4
      <3>2. \A u \in Threads : LevelOf(u) = j =>
               ((Working(u)' => my'[u].s # n) <=> (Working(u) => my[u].s # n))
        BY <1>7, <1>10, <2>4
      <3> QED BY <2>1, <3>1, <3>2 DEF Done
    <2> QED BY <2>2, <2>3, <2>4
  <1>17. /\ \A n \in Nat : Recent(n)' <=> Recent(n)
         /\ \A n \in Nat : Filled(n)' <=> Filled(n)
    <2>1. scheduled'[0] = scheduled[0] /\ pc'[Main] = pc[Main] /\ my'[Main] = my[Main]
      BY <1>1, <1>5, <1>6, <1>7
    <2> QED BY <2>1 DEF Recent, Filled
  <1>18. StatusInv'
    <2>1. setup.posix => \A n \in Nat, j \in Levels :
            Recent(n)' => (status'[SlotOf(n)] >= j <=> Done(j, n)')
      BY <1>4, <1>16, <1>17, Parts DEF StatusInv
    <2>2. ASSUME ~setup.posix, NEW j \in Levels, ~Drained(j)
          PROVE  /\ \A u \in Threads : LevelOf(u) = j /\ Working(u)' =>
                      completed[j] = my'[u].s /\ scheduled'[j] = my'[u].s + 1
                 /\ (\A u \in Threads : LevelOf(u) = j => ~Working(u)') => completed[j] = scheduled'[j]
      <3>1. /\ \A u \in Threads : LevelOf(u) = j /\ Working(u) =>
                 completed[j] = my[u].s /\ scheduled[j] = my[u].s + 1
            /\ (\A u \in Threads : LevelOf(u) = j => ~Working(u)) => completed[j] = scheduled[j]
        BY <2>2, Parts DEF StatusInv
      <3>2. CASE j = k
        <4>1. \A u \in Threads : LevelOf(u) = k => u = t
          BY <2>2, OneEach, Parts
        <4>2. completed[k] = s
          BY <1>10, <3>1, <3>2, <4>1
        <4> QED BY <1>5, <1>7, <1>10, <3>2, <4>1, <4>2
      <3>3. CASE j # k
        <4>1. \A u \in Threads : LevelOf(u) = j => (Working(u)' <=> Working(u)) /\ my'[u] = my[u]
          BY <1>7, <1>10, <3>3
        <4>2. scheduled'[j] = scheduled[j]
          BY <1>5, <3>3
        <4> QED BY <3>1, <4>1, <4>2
      <3> QED BY <3>2, <3>3
    <2>3. ~setup.posix => \A j \in Levels : ~Drained(j)' =>
            /\ \A u \in Threads : LevelOf(u) = j /\ Working(u)' =>
                 completed'[j] = my'[u].s /\ scheduled'[j] = my'[u].s + 1
            /\ (\A u \in Threads : LevelOf(u) = j => ~Working(u)') => completed'[j] = scheduled'[j]
      BY <1>4, <1>9, <2>2
    <2>4. setup' = setup
      BY <1>4
    <2> QED BY <1>8, <2>1, <2>3, <2>4 DEF StatusInv
  <1>19. LineInv' /\ PassedInv'
    <2>1. Found \in Int /\ Found' \in Int /\ Found <= Found'
      BY <1>1, <1>6 DEF Found
    <2> QED BY <1>4, <1>16, <1>17, <2>1, SameLines
  <1>20. PipeTypes'
    <2>1. "holds" \in Labels /\ "holds" \in ConsumerLabels
      BY DEF Labels, ConsumerLabels
    <2>2. scheduled' \in [Levels -> Nat]
      <3>1. s + 1 \in Nat /\ scheduled \in [Levels -> Nat]
        BY Parts DEF PipeTypes
      <3> QED BY <1>4, <3>1
    <2>3. my' \in [Threads -> [slot : Slots, s : Nat]]
      <3>1. [slot |-> SlotOf(s), s |-> s] \in [slot : Slots, s : Nat]
        BY SlotType
      <3> QED BY <1>1, <3>1
    <2>4. /\ completed' \in [Levels -> Nat] /\ status' \in [Slots -> Int]
          /\ \A x \in Slots : status'[x] >= -1
          /\ rels' = [x \in Slots |-> rels'[x]] /\ passed' = [j \in Levels |-> passed'[j]]
      BY <1>4, Parts DEF PipeTypes
    <2> QED BY <1>1, <1>4, <1>6, <2>1, <2>2, <2>3, <2>4, MovedTypes
  <1> QED BY <1>12, <1>13, <1>14, <1>15, <1>18, <1>19, <1>20 DEF IInv

(* Main takes a slot for a new relation.  If the slot is used again, all     *)
(* levels have finished the relation it was last given to.                   *)
LEMMA TakeFirstKeeps ==
  ASSUME IInv, FewLines, NEW s \in Nat, s = scheduled[0], pc[Main] \in {"schedule", "decide"},
         MayTake(0), Take(0), Goto(Main, "parse"),
         my' = [my EXCEPT ![Main] = [slot |-> SlotOf(s), s |-> s]], UNCHANGED <<main, rels, passed>>
  PROVE  IInv'
  <1>1. /\ pc \in [Threads -> Labels] /\ Main \in Threads /\ main.nrels \in Nat
        /\ LevelOf(Main) = 0 /\ my \in [Threads -> [slot : Slots, s : Nat]]
        /\ completed \in [Levels -> Nat] /\ scheduled \in [Levels -> Nat] /\ Levels \subseteq Nat
        /\ Levels = 0 .. LastLevel /\ LastLevel \in Levels /\ 0 \in Levels
        /\ status \in [Slots -> Int] /\ main.k \in Nat /\ LastLevel \in Nat \ {0}
    BY Types
  <1>2. \A j \in Levels : ~Drained(j)
    <2>1. ~(main.k > 0)
      BY Parts DEF ActiveInv
    <2> QED BY <1>1, <2>1 DEF Drained
  <1>3. s < completed[LastLevel] + SizeBuf
    BY DEF MayTake
  <1>l. \A j \in Levels : /\ completed[LastLevel] <= completed[j] /\ completed[LastLevel] <= scheduled[j]
                          /\ completed[j] <= scheduled[j]
    BY <1>2, LowestCounter
  <1>4. /\ scheduled' = [scheduled EXCEPT ![0] = s + 1] /\ UNCHANGED <<setup, completed, active>>
        /\ setup.posix => status' = [status EXCEPT ![SlotOf(s)] = -1]
        /\ ~setup.posix => status' = status
    <2>0. 0 \in Levels /\ scheduled[0] + SizeBuf < UIntMod
      BY <1>1, NoOverflow
    <2>1. s + 1 \in Nat /\ s + 1 < SizeTMod
      BY <2>0, Sizes
    <2>2. (s + 1) % SizeTMod = s + 1
      BY <2>1, Sizes
    <2>3. /\ scheduled' = [scheduled EXCEPT ![0] = (scheduled[0] + 1) % SizeTMod]
          /\ UNCHANGED <<setup, completed, active>>
          /\ status' = IF setup.posix THEN [status EXCEPT ![SlotOf(scheduled[0])] = -1] ELSE status
      BY DEF Take
    <2> QED BY <2>2, <2>3
  <1>5. scheduled'[0] = s + 1 /\ \A j \in Levels : j # 0 => scheduled'[j] = scheduled[j]
    BY <1>1, <1>4
  <1>6. /\ pc' = [pc EXCEPT ![Main] = "parse"] /\ pc'[Main] = "parse"
        /\ \A u \in Threads \ {Main} : pc'[u] = pc[u]
    BY <1>1 DEF Goto
  <1>7. my'[Main] = [slot |-> SlotOf(s), s |-> s] /\ \A u \in Threads \ {Main} : my'[u] = my[u]
    BY <1>1
  <1>8. /\ Threads' = Threads /\ Levels' = Levels /\ LastLevel' = LastLevel
        /\ \A u : LevelOf(u)' = LevelOf(u) /\ SlotOf(u)' = SlotOf(u)
    BY <1>4, Frame DEF SlotOf
  <1>9. (\A j \in Levels : ~Drained(j)') /\ ~Drained(LastLevel)'
    BY <1>1, <1>2, <1>6, <1>8 DEF Drained
  <1>10. Working(Main)' /\ ~Working(Main) /\ \A u \in Threads \ {Main} : Working(u)' <=> Working(u)
    BY <1>6 DEF Working
  <1>11. \A u \in Threads : LevelOf(u) = 0 => u = Main
    BY <1>1, Types
  <1>12. ActiveInv'
    <2>1. \A u \in Threads : /\ pc'[u] \in Outside <=> pc[u] \in Outside
                             /\ pc'[u] = "enter" => pc[u] = "enter"
      BY <1>6 DEF Outside
    <2> QED BY <1>4, <1>6, <1>9, <2>1, SameActive
  <1>13. OrderInv'
    <2>1. \A i \in Levels, j \in Levels : j < i =>
            /\ scheduled'[i] <= scheduled'[j]
            /\ scheduled'[i] <= completed[j]
      <3> SUFFICES ASSUME NEW i \in Levels, NEW j \in Levels, j < i
                   PROVE  scheduled'[i] <= scheduled'[j] /\ scheduled'[i] <= completed[j]
        OBVIOUS
      <3>1. /\ scheduled[i] <= scheduled[j] /\ scheduled[i] <= completed[j]
            /\ scheduled[i] \in Nat /\ scheduled[j] \in Nat /\ completed[j] \in Nat /\ i # 0
        BY <1>1, <1>2, Parts DEF OrderInv
      <3>2. scheduled'[i] = scheduled[i] /\ (scheduled'[j] = scheduled[j] \/ scheduled'[j] = scheduled[j] + 1)
        BY <1>5, <3>1
      <3> QED BY <3>1, <3>2
    <2>2. \A j \in Levels : completed[j] <= scheduled'[j]
      <3>1. \A j \in Levels : completed[j] <= scheduled[j] /\ completed[j] \in Nat
        BY <1>1, <1>2, Parts DEF OrderInv
      <3>2. scheduled[0] = s /\ \A a \in Nat : a <= s => a <= s + 1
        OBVIOUS
      <3> QED BY <1>5, <3>1, <3>2
    <2>3. s + 1 <= completed[LastLevel] + SizeBuf
      BY <1>1, <1>3, Sizes
    <2>4. scheduled'[0] + (IF pc'[Main] \in {"schedule", "decide"} THEN 1 ELSE 0) <= main.nrels
      <3>1. s + 1 <= main.nrels
        BY <1>1, Parts DEF OrderInv
      <3> QED BY <1>5, <1>6, <3>1
    <2>5. (/\ \A i \in Levels, j \in Levels : j < i =>
                /\ scheduled[i] <= scheduled[j]
                /\ ~Drained(j) => scheduled[i] <= completed[j]
           /\ \A i \in Levels : ~Drained(i) => completed[i] <= scheduled[i])'
      BY <1>4, <1>8, <2>1, <2>2
    <2>6. (/\ ~Drained(LastLevel) => scheduled[0] <= completed[LastLevel] + SizeBuf
           /\ scheduled[0] + (IF pc[Main] \in {"schedule", "decide"} THEN 1 ELSE 0) <= main.nrels)'
      BY <1>4, <1>5, <1>8, <2>3, <2>4
    <2> QED BY <2>5, <2>6 DEF OrderInv
  <1>14. PlaceInv'
    <2> SUFFICES ASSUME NEW u \in Threads, NEW j \in Levels, LevelOf(u) = j, u # Main
                 PROVE  /\ pc'[u] # "leave"
                        /\ pc'[u] = "decide" => ~setup'.posix /\ MayTake(j)'
      BY <1>6, <1>8 DEF PlaceInv
    <2>1. /\ pc[u] = "leave" => j > 0 /\ Drained(j - 1)
          /\ pc[u] = "decide" => ~setup.posix /\ MayTake(j)
      BY Parts DEF PlaceInv
    <2>2. j > 0 /\ j \in Nat /\ j - 1 \in Levels /\ j # 0
      <3>1. j > 0
        BY Types
      <3> QED BY <1>1, <3>1
    <2>3. pc[u] # "leave" /\ pc'[u] = pc[u]
      BY <1>2, <1>6, <2>1, <2>2
    <2>4. MayTake(j) => MayTake(j)'
      <3>1. scheduled'[j] = scheduled[j] /\ completed' = completed
        BY <1>4, <1>5, <2>2
      <3> QED BY <1>2, <2>2, <3>1 DEF MayTake
    <2>5. setup' = setup
      BY <1>4
    <2> QED BY <2>1, <2>3, <2>4, <2>5
  <1>15. WorkInv'
    <2>1. \A u \in Threads, j \in Levels : LevelOf(u) = j /\ Working(u)' =>
             /\ completed[j] <= my'[u].s /\ my'[u].s < scheduled'[j]
             /\ scheduled'[0] <= my'[u].s + SizeBuf
             /\ my'[u].slot = SlotOf(my'[u].s)
      <3> SUFFICES ASSUME NEW u \in Threads, NEW j \in Levels, LevelOf(u) = j, Working(u)'
                   PROVE  /\ completed[j] <= my'[u].s /\ my'[u].s < scheduled'[j]
                          /\ scheduled'[0] <= my'[u].s + SizeBuf
                          /\ my'[u].slot = SlotOf(my'[u].s)
        OBVIOUS
      <3>1. CASE u = Main
        <4>1. my'[u].s = s /\ my'[u].slot = SlotOf(s) /\ j = 0
          BY <1>1, <1>7, <3>1
        <4>2. completed[0] <= s
          BY <1>1, <1>l
        <4>3. s < s + 1 /\ s + 1 <= s + SizeBuf
          BY Sizes
        <4> QED BY <1>5, <4>1, <4>2, <4>3
      <3>2. CASE u # Main
        <4>1. my'[u] = my[u] /\ Working(u) /\ j # 0
          BY <1>7, <1>10, <1>11, <3>2
        <4>2. /\ completed[j] <= my[u].s /\ my[u].s < scheduled[j]
              /\ my[u].slot = SlotOf(my[u].s)
          BY <4>1, Parts DEF WorkInv
        <4>3. my[u].s \in Nat /\ completed[j] \in Nat /\ completed[LastLevel] \in Nat
          BY <1>1
        <4>4. s + 1 <= my[u].s + SizeBuf
          BY <1>3, <1>l, <4>2, <4>3, Sizes
        <4> QED BY <1>5, <4>1, <4>2, <4>4
      <3> QED BY <3>1, <3>2
    <2>2. scheduled'[0] = my'[Main].s + 1
      BY <1>5, <1>7
    <2>4. \A u, v \in Threads : Working(u)' /\ Working(v)' /\ LevelOf(u) = LevelOf(v)
                                  /\ my'[u].s = my'[v].s => u = v
      <3> SUFFICES ASSUME NEW u \in Threads, NEW v \in Threads, Working(u)', Working(v)',
                          LevelOf(u) = LevelOf(v), my'[u].s = my'[v].s, u # v
                   PROVE  FALSE
        OBVIOUS
      <3>1. u # Main /\ v # Main
        BY <1>1, <1>11
      <3> QED BY <1>7, <1>10, <3>1, Parts DEF WorkInv
    <2> QED BY <1>4, <1>8, <2>1, <2>2, <2>4 DEF WorkInv
  <1>16. \A j \in Levels : ~Done(j, s) /\ ~Done(j, s)'
    <2> SUFFICES ASSUME NEW j \in Levels PROVE ~Done(j, s) /\ ~Done(j, s)'
      OBVIOUS
    <2>1. scheduled[j] <= s /\ scheduled[j] \in Nat
      <3>1. CASE j = 0
        BY <1>1, <3>1
      <3>2. CASE 0 < j
        BY <1>1, <3>2, Parts DEF OrderInv
      <3> QED BY <1>1, <3>1, <3>2
    <2>2. ~Done(j, s)
      BY <2>1 DEF Done
    <2>3. CASE j = 0
      <3>1. Main \in Threads' /\ LevelOf(Main)' = j /\ Working(Main)' /\ my'[Main].s = s
        BY <1>1, <1>7, <1>8, <1>10, <2>3
      <3>2. ~Done(j, s)'
        BY <3>1 DEF Done
      <3> QED BY <2>2, <3>2
    <2>4. CASE j # 0
      <3>1. ~(s < scheduled'[j])
        BY <1>5, <2>1, <2>4
      <3>2. ~Done(j, s)'
        BY <3>1 DEF Done
      <3> QED BY <2>2, <3>2
    <2> QED BY <2>3, <2>4
  <1>17. ASSUME NEW n \in Nat, NEW j \in Levels PROVE Done(j, n)' <=> Done(j, n)
    <2>1. Done(j, n)' <=> /\ n < scheduled'[j]
                          /\ \A u \in Threads : LevelOf(u) = j /\ Working(u)' => my'[u].s # n
      BY <1>8 DEF Done
    <2>2. CASE j # 0
      <3>1. scheduled'[j] = scheduled[j]
        BY <1>5, <2>2
      <3>2. \A u \in Threads : LevelOf(u) = j => (Working(u)' <=> Working(u)) /\ my'[u] = my[u]
        BY <1>1, <1>7, <1>10, <2>2
      <3> QED BY <2>1, <3>1, <3>2 DEF Done
    <2>3. CASE n = s
      BY <1>16, <2>3
    <2>4. CASE j = 0 /\ n # s
      <3>1. n < scheduled'[j] <=> n < scheduled[j]
        BY <1>5, <2>4
      <3>2. \A u \in Threads : LevelOf(u) = j =>
               ((Working(u)' => my'[u].s # n) <=> (Working(u) => my[u].s # n))
        BY <1>7, <1>10, <2>4
      <3> QED BY <2>1, <3>1, <3>2 DEF Done
    <2> QED BY <2>2, <2>3, <2>4
  <1>18. ASSUME NEW n \in Nat, Recent(n)', n # s
         PROVE  Recent(n) /\ n < s /\ s < n + SizeBuf /\ SlotOf(n) # SlotOf(s)
    <2>1. n < s + 1 /\ s + 1 <= n + SizeBuf
      BY <1>5, <1>18 DEF Recent
    <2>2. n < s /\ s < n + SizeBuf /\ n <= s /\ s <= n + SizeBuf
      BY <1>18, <2>1, Sizes
    <2>3. SlotOf(n) # SlotOf(s)
      BY <1>18, <2>2, SlotUnique
    <2> QED BY <2>2, <2>3 DEF Recent
  <1>19. StatusInv'
    <2>1. ASSUME setup.posix, NEW n \in Nat, NEW j \in Levels, Recent(n)'
          PROVE  status'[SlotOf(n)] >= j <=> Done(j, n)'
      <3>1. SlotOf(n) \in Slots /\ SlotOf(s) \in Slots /\ j \in Nat
        BY <1>1, SlotType
      <3>2. CASE n = s
        <4>1. status'[SlotOf(n)] = -1
          BY <1>1, <1>4, <2>1, <3>1, <3>2
        <4>2. ~(-1 >= j)
          BY <3>1
        <4> QED BY <1>16, <3>2, <4>1, <4>2
      <3>3. CASE n # s
        <4>1. Recent(n) /\ status'[SlotOf(n)] = status[SlotOf(n)]
          BY <1>1, <1>4, <1>18, <2>1, <3>1, <3>3
        <4> QED BY <1>17, <2>1, <4>1, Parts DEF StatusInv
      <3> QED BY <3>2, <3>3
    <2>2. ASSUME ~setup.posix, NEW j \in Levels
          PROVE  /\ \A u \in Threads : LevelOf(u) = j /\ Working(u)' =>
                      completed[j] = my'[u].s /\ scheduled'[j] = my'[u].s + 1
                 /\ (\A u \in Threads : LevelOf(u) = j => ~Working(u)') => completed[j] = scheduled'[j]
      <3>1. /\ \A u \in Threads : LevelOf(u) = j /\ Working(u) =>
                 completed[j] = my[u].s /\ scheduled[j] = my[u].s + 1
            /\ (\A u \in Threads : LevelOf(u) = j => ~Working(u)) => completed[j] = scheduled[j]
        BY <1>2, <2>2, Parts DEF StatusInv
      <3>2. CASE j = 0
        <4>1. completed[0] = s
          BY <1>10, <1>11, <3>1, <3>2
        <4> QED BY <1>1, <1>5, <1>7, <1>10, <1>11, <3>2, <4>1
      <3>3. CASE j # 0
        <4>1. \A u \in Threads : LevelOf(u) = j => (Working(u)' <=> Working(u)) /\ my'[u] = my[u]
          BY <1>1, <1>7, <1>10, <3>3
        <4>2. scheduled'[j] = scheduled[j]
          BY <1>5, <3>3
        <4> QED BY <3>1, <4>1, <4>2
      <3> QED BY <3>2, <3>3
    <2>3. setup' = setup /\ completed' = completed
      BY <1>4
    <2> QED BY <1>8, <2>1, <2>2, <2>3 DEF StatusInv
  <1>20. ASSUME NEW n \in Nat, Filled(n)' PROVE Filled(n) /\ n # s
    BY <1>6, <1>7, <1>18, <1>20 DEF Filled
  <1>21. \A n \in Nat : Num(n)' = Num(n)
    BY DEF Num, SlotOf
  <1>22. Found' = Found
    BY <1>6 DEF Found
  <1>23. LineInv'
    <2>1. \A n \in Nat : Filled(n)' => Num(n)' \in Nat /\ Num(n)' < Found'
      BY <1>20, <1>21, <1>22, Parts DEF LineInv
    <2>2. \A n, m \in Nat : Filled(m)' /\ Filled(n)' /\ m < n => Num(m)' < Num(n)'
      BY <1>20, <1>21, Parts DEF LineInv
    <2> QED BY <2>1, <2>2 DEF LineInv
  <1>24. PassedInv'
    <2>1. \A n \in Nat, j \in Levels : Filled(n)' => (Num(n)' \in passed'[j] <=> Done(j, n)')
      BY <1>17, <1>20, <1>21, Parts DEF PassedInv
    <2>2. ASSUME NEW n \in Nat, Filled(n), ~Filled(n)', NEW j \in Levels
          PROVE  n + SizeBuf = s /\ Done(j, n)
      <3>1. n < s /\ s <= n + SizeBuf
        BY <1>1, <2>2 DEF Filled, Recent
      <3>2. ~(n < s + 1 /\ s + 1 <= n + SizeBuf)
        <4>1. pc'[Main] = "parse" /\ my'[Main].s # n
          BY <1>6, <1>7, <3>1
        <4> QED BY <1>5, <2>2, <4>1 DEF Filled, Recent
      <3>3. n + SizeBuf = s
        BY <3>1, <3>2, Sizes
      <3>4. n < completed[LastLevel] /\ completed[LastLevel] \in Nat
        BY <1>1, <1>3, <3>3, Sizes
      <3>5. n < scheduled[j]
        BY <1>1, <1>l, <3>4
      <3>6. ASSUME NEW u \in Threads, LevelOf(u) = j, Working(u) PROVE my[u].s # n
        <4>1. completed[j] <= my[u].s /\ completed[LastLevel] <= completed[j]
          BY <1>l, <3>6, WorkingRecent
        <4> QED BY <1>1, <3>4, <4>1
      <3> QED BY <3>3, <3>5, <3>6 DEF Done
    <2>3. ASSUME NEW j \in Levels, NEW x \in passed[j]
          PROVE  \/ \E n \in Nat : Filled(n)' /\ x = Num(n)'
                 \/ /\ x \in Nat /\ x < Found'
                    /\ \A i \in Levels : x \in passed[i]
                    /\ \A n \in Nat : Filled(n)' => x < Num(n)'
      <3>1. CASE \E n \in Nat : Filled(n)' /\ x = Num(n)
        BY <1>21, <3>1
      <3>2. CASE \E n \in Nat : Filled(n) /\ ~Filled(n)' /\ x = Num(n)
        <4>1. PICK n \in Nat : Filled(n) /\ ~Filled(n)' /\ x = Num(n)
          BY <3>2
        <4>2. x \in Nat /\ x < Found'
          BY <1>22, <4>1, Parts DEF LineInv
        <4>3. \A i \in Levels : x \in passed[i]
          BY <2>2, <4>1, Parts DEF PassedInv
        <4>4. ASSUME NEW m \in Nat, Filled(m)' PROVE x < Num(m)'
          <5>1. Filled(m) /\ Recent(m)' /\ n + SizeBuf = s
            BY <1>1, <1>20, <2>2, <4>1, <4>4 DEF Filled
          <5>2. s + 1 <= m + SizeBuf
            BY <1>5, <5>1 DEF Recent
          <5>3. n < m
            BY <5>1, <5>2, Sizes
          <5>4. Num(n) < Num(m)
            BY <4>1, <5>1, <5>3, Parts DEF LineInv
          <5> QED BY <1>21, <4>1, <5>4
        <4> QED BY <4>2, <4>3, <4>4
      <3>3. CASE /\ x \in Nat /\ x < Found
                 /\ \A i \in Levels : x \in passed[i]
                 /\ \A n \in Nat : Filled(n) => x < Num(n)
        BY <1>20, <1>21, <1>22, <3>3
      <3> QED BY <3>1, <3>2, <3>3, Parts DEF PassedInv
    <2> QED BY <1>8, <2>1, <2>3 DEF PassedInv
  <1>25. PipeTypes'
    <2>1. "parse" \in Labels /\ "parse" \in MainLabels
      BY DEF Labels, MainLabels
    <2>2. scheduled' \in [Levels -> Nat]
      BY <1>1, <1>4
    <2>3. my' \in [Threads -> [slot : Slots, s : Nat]]
      <3>1. [slot |-> SlotOf(s), s |-> s] \in [slot : Slots, s : Nat]
        BY SlotType
      <3> QED BY <1>1, <3>1
    <2>4. /\ completed' \in [Levels -> Nat]
          /\ rels' = [x \in Slots |-> rels'[x]] /\ passed' = [j \in Levels |-> passed'[j]]
      BY <1>4, Parts DEF PipeTypes
    <2>5. status' \in [Slots -> Int] /\ \A x \in Slots : status'[x] >= -1
      <3>1. \A x \in Slots : status[x] >= -1
        BY Parts DEF PipeTypes
      <3>2. setup.posix \in BOOLEAN
        BY Types
      <3>3. CASE setup.posix
        <4>1. status' = [status EXCEPT ![SlotOf(s)] = -1]
          BY <1>4, <3>3
        <4>2. -1 >= -1 /\ -1 \in Int
          OBVIOUS
        <4> QED BY <1>1, <3>1, <4>1, <4>2
      <3>4. CASE ~setup.posix
        BY <1>1, <1>4, <3>1, <3>4
      <3> QED BY <3>2, <3>3, <3>4
    <2> QED BY <1>1, <1>4, <1>6, <2>1, <2>2, <2>3, <2>4, <2>5, MovedTypes
  <1> QED BY <1>12, <1>13, <1>14, <1>15, <1>19, <1>23, <1>24, <1>25 DEF IInv

(* complete() recovers the number of the relation from its slot.             *)
LEMMA IndexRecovered ==
  ASSUME IInv, FewLines, NEW t \in Threads, NEW k \in Levels, LevelOf(t) = k, Holds(t)
  PROVE  AbsoluteIndex(k, my[t].slot) = my[t].s
  <1>1. Working(t)
    BY DEF Holds, Working
  <1>2. /\ my[t].s \in Nat /\ my[t].slot = SlotOf(my[t].s) /\ Recent(my[t].s)
        /\ completed[k] <= my[t].s /\ ~Drained(k)
    BY <1>1, WorkingRecent
  <1>3. completed \in [Levels -> Nat] /\ scheduled \in [Levels -> Nat] /\ 0 \in Levels
    BY Types
  <1>4. CASE ~setup.posix
    <2>1. completed[k] = my[t].s
      BY <1>1, <1>2, <1>4, Parts DEF StatusInv
    <2> QED BY <1>4, <2>1 DEF AbsoluteIndex
  <1>5. CASE setup.posix
    <2>1. my[t].s < completed[k] + SizeBuf
      <3>1. scheduled[0] <= completed[k] + SizeBuf /\ my[t].s < scheduled[0]
        BY <1>2, LowestCounter DEF Recent
      <3> QED BY <1>2, <1>3, <3>1, Sizes
    <2>2. completed[k] + SizeBuf < UIntMod
      BY <1>2, NoOverflow
    <2>3. AbsoluteIndex(k, my[t].slot)
            = SlotOf(my[t].s) + Masked((completed[k] - SlotOf(my[t].s) + SizeBuf - 1) % SizeTMod)
      BY <1>2, <1>5 DEF AbsoluteIndex
    <2>4. completed[k] \in Nat
      BY <1>3
    <2> QED BY <1>2, <2>1, <2>2, <2>3, <2>4, Recovered
  <1> QED BY <1>4, <1>5

(* What a thread holds is a line that the level before has finished.         *)
LEMMA HeldRelation ==
  ASSUME IInv, NEW t \in Threads, NEW k \in Levels, LevelOf(t) = k, Holds(t),
         NEW s \in Nat, s = my[t].s
  PROVE  Filled(s) /\ (k > 0 => k - 1 \in Levels /\ Done(k - 1, s))
  <1>1. /\ completed \in [Levels -> Nat] /\ scheduled \in [Levels -> Nat] /\ 0 \in Levels
        /\ Levels = 0 .. LastLevel /\ LastLevel \in Nat \ {0} /\ Main \in Threads
        /\ LevelOf(Main) = 0 /\ my \in [Threads -> [slot : Slots, s : Nat]]
    BY Types
  <1>2. Working(t)
    BY DEF Holds, Working
  <1>3. Recent(s) /\ s < scheduled[k] /\ scheduled[k] \in Nat
    BY <1>1, <1>2, WorkingRecent
  <1>4. Filled(s)
    <2>1. ASSUME pc[Main] = "parse" PROVE my[Main].s # s
      <3>1. Working(Main) /\ t # Main /\ k > 0
        BY <2>1, Types DEF Holds, Working
      <3>2. ~Drained(0) /\ completed[0] <= my[Main].s /\ my[Main].s \in Nat
        BY <1>1, <3>1, WorkingRecent
      <3>3. scheduled[k] <= completed[0] /\ completed[0] \in Nat
        BY <1>1, <3>1, <3>2, Parts DEF OrderInv
      <3> QED BY <1>3, <3>2, <3>3
    <2> QED BY <1>3, <2>1 DEF Filled
  <1>5. ASSUME k > 0 PROVE k - 1 \in Levels /\ Done(k - 1, s)
    <2>1. k - 1 \in Levels /\ k - 1 < k
      BY <1>1, <1>5
    <2>2. scheduled[k] <= scheduled[k - 1] /\ (~Drained(k - 1) => scheduled[k] <= completed[k - 1])
      BY <2>1, Parts DEF OrderInv
    <2>3. s < scheduled[k - 1]
      BY <1>1, <1>3, <2>1, <2>2
    <2>4. ASSUME NEW u \in Threads, LevelOf(u) = k - 1, Working(u) PROVE my[u].s # s
      <3>1. ~Drained(k - 1) /\ completed[k - 1] <= my[u].s /\ my[u].s \in Nat
        BY <2>1, <2>4, WorkingRecent
      <3>2. completed[k - 1] \in Nat
        BY <1>1, <2>1
      <3> QED BY <1>3, <2>2, <3>1, <3>2
    <2> QED BY <2>1, <2>3, <2>4 DEF Done
  <1> QED BY <1>4, <1>5

(* What completed[k] becomes.                                                *)
LEMMA CounterAfter ==
  ASSUME IInv, FewLines, NEW t \in Threads, NEW k \in Levels, LevelOf(t) = k, Holds(t),
         NEW s \in Nat, s = my[t].s, NEW c, c = CompletedAfter(k, AbsoluteIndex(k, my[t].slot))
  PROVE  /\ c \in Nat /\ completed[k] <= c /\ c <= scheduled[k]
         /\ ~setup.posix => c = s + 1 /\ scheduled[k] = s + 1
         /\ \A u \in Threads : LevelOf(u) = k /\ Working(u) /\ u # t => c <= my[u].s
  <1>1. AbsoluteIndex(k, my[t].slot) = s
    BY IndexRecovered
  <1>2. Working(t)
    BY DEF Holds, Working
  <1>3. /\ completed[k] \in Nat /\ scheduled[k] \in Nat /\ completed[k] <= s /\ s < scheduled[k]
        /\ ~Drained(k) /\ setup.posix \in BOOLEAN
    BY <1>2, WorkingRecent, Types
  <1>4. CASE ~setup.posix
    <2>1. completed[k] = s /\ scheduled[k] = s + 1
      BY <1>2, <1>3, <1>4, Parts DEF StatusInv
    <2>2. c = s + 1
      BY <1>4, <2>1 DEF CompletedAfter
    <2>3. \A u \in Threads : LevelOf(u) = k => u = t
      BY <1>4, OneEach, Parts
    <2> QED BY <1>3, <1>4, <2>1, <2>2, <2>3
  <1>5. CASE setup.posix
    <2> DEFINE d == CaughtUp(k, completed[k], s)
    <2>1. ~(completed[k] > s)
      BY <1>3
    <2>2. c = IF d = s THEN d + 1 ELSE d
      BY <1>1, <1>5, <2>1 DEF CompletedAfter
    <2>3. d \in Nat /\ completed[k] <= d /\ d <= s
      BY <1>3, CaughtUpRange, Parts
    <2>4. \A u \in Threads : LevelOf(u) = k /\ Working(u) => d <= my[u].s
      BY <1>3, CaughtUpBefore
    <2>5. \A u \in Threads : LevelOf(u) = k /\ Working(u) /\ u # t => my[u].s # s /\ my[u].s \in Nat
      BY <1>2, WorkingRecent, Parts DEF WorkInv
    <2> HIDE DEF d
    <2>6. \A u \in Threads : LevelOf(u) = k /\ Working(u) /\ u # t => c <= my[u].s
      <3> SUFFICES ASSUME NEW u \in Threads, LevelOf(u) = k, Working(u), u # t PROVE c <= my[u].s
        OBVIOUS
      <3>1. d <= my[u].s /\ my[u].s # s /\ my[u].s \in Nat
        BY <2>4, <2>5
      <3> QED BY <2>2, <2>3, <3>1
    <2>7. c \in Nat /\ completed[k] <= c /\ c <= scheduled[k]
      BY <1>3, <2>2, <2>3
    <2> QED BY <1>5, <2>6, <2>7
  <1> QED BY <1>3, <1>4, <1>5

(* A level finishes a relation.                                              *)
LEMMA CompleteKeeps ==
  ASSUME IInv, FewLines, NEW t \in Threads, NEW k \in Levels, LevelOf(t) = k, complete(t),
         NEW s \in Nat, s = my[t].s
  PROVE  IInv'
  <1>1. /\ pc \in [Threads -> Labels] /\ Main \in Threads /\ main.nrels \in Nat
        /\ LevelOf(Main) = 0 /\ my \in [Threads -> [slot : Slots, s : Nat]]
        /\ completed \in [Levels -> Nat] /\ scheduled \in [Levels -> Nat] /\ Levels \subseteq Nat
        /\ status \in [Slots -> Int] /\ passed = [j \in Levels |-> passed[j]]
        /\ setup.posix \in BOOLEAN
    BY Types
  <1> DEFINE c == CompletedAfter(k, AbsoluteIndex(k, my[t].slot))
             label == IF t = Main THEN "skip" ELSE "schedule"
             x == rels[my[t].slot].num
  <1>2. /\ pc[t] = "holds" /\ Holds(t) /\ Working(t) /\ pc' = [pc EXCEPT ![t] = label]
        /\ completed' = [completed EXCEPT ![k] = c]
        /\ status' = IF setup.posix THEN [status EXCEPT ![my[t].slot] = @ + 1] ELSE status
        /\ passed' = [passed EXCEPT ![k] = @ \union {x}]
        /\ UNCHANGED <<setup, scheduled, active, my, main, rels>>
    BY DEF complete, Complete, At, Holds, Working, Goto
  <1>3. /\ c \in Nat /\ completed[k] <= c /\ c <= scheduled[k]
        /\ ~setup.posix => c = s + 1 /\ scheduled[k] = s + 1
        /\ \A u \in Threads : LevelOf(u) = k /\ Working(u) /\ u # t => c <= my[u].s
    BY <1>2, CounterAfter
  <1>4. Filled(s) /\ (k > 0 => k - 1 \in Levels /\ Done(k - 1, s))
    BY <1>2, HeldRelation
  <1>5. /\ Recent(s) /\ my[t].slot = SlotOf(s) /\ ~Done(k, s) /\ ~Drained(k) /\ s < scheduled[k]
        /\ SlotOf(s) \in Slots
    BY <1>2, WorkingRecent, SlotType
  <1>6. x = Num(s)
    BY <1>5 DEF Num
  <1>7. /\ pc'[t] = label /\ label \notin {"parse", "holds", "leave", "decide", "enter"}
        /\ label \notin Outside /\ \A u \in Threads \ {t} : pc'[u] = pc[u]
    BY <1>1, <1>2 DEF Outside
  <1>8. t = Main => label \notin {"enter", "entered", "drain", "join", "ended", "schedule"}
    OBVIOUS
  <1> HIDE DEF c, label, x
  <1>9. /\ Threads' = Threads /\ Levels' = Levels /\ LastLevel' = LastLevel
        /\ \A u : LevelOf(u)' = LevelOf(u) /\ SlotOf(u)' = SlotOf(u)
    BY <1>2, Frame DEF SlotOf
  <1>10. ~Working(t)' /\ \A u \in Threads \ {t} : Working(u)' <=> Working(u)
    BY <1>7 DEF Working
  <1>11. /\ pc'[Main] \in {"join", "ended"} <=> pc[Main] \in {"join", "ended"}
         /\ pc'[Main] \in {"schedule", "decide"} => pc[Main] \in {"schedule", "decide"}
         /\ pc'[Main] = "parse" <=> pc[Main] = "parse"
    <2>1. CASE t = Main
      BY <1>2, <1>7, <1>8, <2>1
    <2>2. CASE t # Main
      BY <1>1, <1>7, <2>2
    <2> QED BY <2>1, <2>2
  <1>12. \A j \in Levels : Drained(j)' <=> Drained(j)
    BY <1>2, <1>11 DEF Drained
  <1>13. completed'[k] = c /\ \A j \in Levels : j # k => completed'[j] = completed[j]
    BY <1>1, <1>2
  <1>14. OrderInv' /\ PlaceInv'
    <2>1. \A u \in Threads : /\ pc'[u] = "leave" => pc[u] = "leave" /\ my'[u] = my[u]
                             /\ pc'[u] = "decide" => pc[u] = "decide"
      BY <1>2, <1>7
    <2> QED BY <1>2, <1>3, <1>5, <1>11, <2>1, RaisedCounter
  <1>15. ActiveInv'
    <2>1. \A u \in Threads : /\ pc'[u] \in Outside <=> pc[u] \in Outside
                             /\ pc'[u] = "enter" => pc[u] = "enter"
      BY <1>2, <1>7 DEF Outside
    <2>2. \A j \in Levels : Drained(j)' => Drained(j) /\ completed'[j] = completed[j]
      BY <1>5, <1>12, <1>13
    <2>3. \/ pc'[Main] = pc[Main]
          \/ /\ pc[Main] \notin {"enter", "entered", "drain", "join", "ended"}
             /\ pc'[Main] \notin {"enter", "entered", "drain", "join", "ended"}
      BY <1>1, <1>2, <1>7, <1>8
    <2> QED BY <1>2, <2>1, <2>2, <2>3, SameActive
  <1>16. WorkInv'
    <2>1. \A u \in Threads, j \in Levels : LevelOf(u) = j /\ Working(u)' =>
             /\ completed'[j] <= my[u].s /\ my[u].s < scheduled[j]
             /\ scheduled[0] <= my[u].s + SizeBuf
             /\ my[u].slot = SlotOf(my[u].s)
      <3> SUFFICES ASSUME NEW u \in Threads, NEW j \in Levels, LevelOf(u) = j, Working(u)'
                   PROVE  /\ completed'[j] <= my[u].s /\ my[u].s < scheduled[j]
                          /\ scheduled[0] <= my[u].s + SizeBuf
                          /\ my[u].slot = SlotOf(my[u].s)
        OBVIOUS
      <3>1. Working(u) /\ u # t
        BY <1>10
      <3>2. /\ completed[j] <= my[u].s /\ my[u].s < scheduled[j]
            /\ scheduled[0] <= my[u].s + SizeBuf
            /\ my[u].slot = SlotOf(my[u].s)
        BY <3>1, Parts DEF WorkInv
      <3>3. completed'[j] <= my[u].s
        BY <1>3, <1>13, <3>1, <3>2
      <3> QED BY <3>2, <3>3
    <2>2. Working(Main)' => scheduled[0] = my[Main].s + 1
      BY <1>1, <1>10, Parts DEF WorkInv
    <2>3. \A u, v \in Threads : Working(u)' /\ Working(v)' /\ LevelOf(u) = LevelOf(v)
                                  /\ my[u].s = my[v].s => u = v
      BY <1>10, Parts DEF WorkInv
    <2> QED BY <1>2, <1>9, <2>1, <2>2, <2>3 DEF WorkInv
  <1>17. ASSUME NEW n \in Nat, NEW j \in Levels
         PROVE  Done(j, n)' <=> Done(j, n) \/ (j = k /\ n = s)
    <2>1. Done(j, n)' <=> /\ n < scheduled[j]
                          /\ \A u \in Threads : LevelOf(u) = j /\ Working(u)' => my[u].s # n
      BY <1>2, <1>9 DEF Done
    <2>2. CASE j = k /\ n = s
      <3>1. \A u \in Threads : LevelOf(u) = k /\ Working(u)' => my[u].s # s
        BY <1>2, <1>10, Parts DEF WorkInv
      <3> QED BY <1>5, <2>1, <2>2, <3>1
    <2>3. CASE ~(j = k /\ n = s)
      <3>1. \A u \in Threads : (LevelOf(u) = j /\ Working(u)' => my[u].s # n)
                                 <=> (LevelOf(u) = j /\ Working(u) => my[u].s # n)
        BY <1>10, <2>3
      <3> QED BY <2>1, <2>3, <3>1 DEF Done
    <2> QED BY <2>2, <2>3
  <1>18. \A n \in Nat : (Recent(n)' <=> Recent(n)) /\ (Filled(n)' <=> Filled(n)) /\ Num(n)' = Num(n)
    BY <1>2, <1>11 DEF Recent, Filled, Num, SlotOf
  <1>19. StatusInv'
    <2>1. ASSUME setup.posix, NEW n \in Nat, NEW j \in Levels, Recent(n)'
          PROVE  status'[SlotOf(n)] >= j <=> Done(j, n)'
      <3>1. status' = [status EXCEPT ![SlotOf(s)] = @ + 1] /\ SlotOf(n) \in Slots
        BY <1>2, <1>5, <2>1, SlotType
      <3>2. Recent(n) /\ \A i \in Levels : status[SlotOf(n)] >= i <=> Done(i, n)
        BY <1>18, <2>1, Parts DEF StatusInv
      <3>3. CASE n = s
        <4> DEFINE d == status[SlotOf(s)]
        <4>1. d \in Int /\ d >= -1 /\ status'[SlotOf(n)] = d + 1
          BY <1>1, <1>5, <3>1, <3>3, Parts DEF PipeTypes
        <4>2. ~(d >= k) /\ (k > 0 => d >= k - 1) /\ k \in Nat /\ j \in Nat
          BY <1>1, <1>4, <1>5, <3>2, <3>3
        <4>3. d >= j <=> Done(j, s)
          BY <3>2, <3>3
        <4> HIDE DEF d
        <4>4. d + 1 = k
          BY <4>1, <4>2
        <4>5. d + 1 >= j <=> (d >= j \/ j = k)
          BY <4>1, <4>2, <4>4
        <4>6. Done(j, n)' <=> Done(j, s) \/ j = k
          BY <1>17, <3>3
        <4> QED BY <4>1, <4>3, <4>5, <4>6
      <3>4. CASE n # s
        <4>1. SlotOf(n) # SlotOf(s)
          BY <1>5, <3>2, <3>4, OtherSlot
        <4>2. status'[SlotOf(n)] = status[SlotOf(n)]
          BY <1>1, <3>1, <4>1
        <4> QED BY <1>17, <3>2, <3>4, <4>2
      <3> QED BY <3>3, <3>4
    <2>2. ASSUME ~setup.posix, NEW j \in Levels, ~Drained(j)
          PROVE  /\ \A u \in Threads : LevelOf(u) = j /\ Working(u)' =>
                      completed'[j] = my[u].s /\ scheduled[j] = my[u].s + 1
                 /\ (\A u \in Threads : LevelOf(u) = j => ~Working(u)') => completed'[j] = scheduled[j]
      <3>1. /\ \A u \in Threads : LevelOf(u) = j /\ Working(u) =>
                 completed[j] = my[u].s /\ scheduled[j] = my[u].s + 1
            /\ (\A u \in Threads : LevelOf(u) = j => ~Working(u)) => completed[j] = scheduled[j]
        BY <2>2, Parts DEF StatusInv
      <3>2. CASE j = k
        <4>1. \A u \in Threads : LevelOf(u) = k => u = t
          BY <2>2, OneEach, Parts
        <4>2. completed'[j] = scheduled[j]
          BY <1>3, <1>13, <2>2, <3>2
        <4> QED BY <1>10, <3>2, <4>1, <4>2
      <3>3. CASE j # k
        <4>1. \A u \in Threads : LevelOf(u) = j => (Working(u)' <=> Working(u))
          BY <1>10, <3>3
        <4>2. completed'[j] = completed[j]
          BY <1>13, <3>3
        <4> QED BY <3>1, <4>1, <4>2
      <3> QED BY <3>2, <3>3
    <2>3. setup' = setup /\ scheduled' = scheduled /\ my' = my
      BY <1>2
    <2>4. setup.posix => \A n \in Nat, j \in Levels :
            Recent(n)' => (status'[SlotOf(n)] >= j <=> Done(j, n)')
      BY <2>1
    <2>5. ~setup.posix => \A j \in Levels : ~Drained(j)' =>
            /\ \A u \in Threads : LevelOf(u) = j /\ Working(u)' =>
                 completed'[j] = my'[u].s /\ scheduled'[j] = my'[u].s + 1
            /\ (\A u \in Threads : LevelOf(u) = j => ~Working(u)') => completed'[j] = scheduled'[j]
      BY <1>12, <2>2, <2>3
    <2> QED BY <1>9, <2>3, <2>4, <2>5 DEF StatusInv
  <1>20. Found' = Found
    <2>1. pc'[Main] \in {"schedule", "decide", "parse"} <=> pc[Main] \in {"schedule", "decide", "parse"}
      <3>1. CASE t = Main
        BY <1>2, <1>7, <1>8, <3>1
      <3>2. CASE t # Main
        BY <1>1, <1>7, <3>2
      <3> QED BY <3>1, <3>2
    <2> QED BY <1>2, <2>1 DEF Found
  <1>21. LineInv'
    <2>1. \A n \in Nat : Filled(n)' => Num(n)' \in Nat /\ Num(n)' < Found'
      BY <1>18, <1>20, Parts DEF LineInv
    <2>2. \A n, m \in Nat : Filled(m)' /\ Filled(n)' /\ m < n => Num(m)' < Num(n)'
      BY <1>18, Parts DEF LineInv
    <2> QED BY <2>1, <2>2 DEF LineInv
  <1>22. PassedInv'
    <2>1. passed'[k] = passed[k] \union {x} /\ \A j \in Levels : j # k => passed'[j] = passed[j]
      BY <1>1, <1>2
    <2>2. ASSUME NEW n \in Nat, Filled(n), n # s PROVE Num(n) # x
      <3>1. Num(n) \in Nat /\ Num(s) \in Nat
        BY <1>4, <2>2, Parts DEF LineInv
      <3>2. CASE n < s
        BY <1>4, <1>6, <2>2, <3>1, <3>2, Parts DEF LineInv
      <3>3. CASE s < n
        BY <1>4, <1>6, <2>2, <3>1, <3>3, Parts DEF LineInv
      <3> QED BY <2>2, <3>2, <3>3
    <2>3. ASSUME NEW n \in Nat, NEW j \in Levels, Filled(n)
          PROVE  Num(n) \in passed'[j] <=> Done(j, n)'
      <3>1. Num(n) \in passed[j] <=> Done(j, n)
        BY <2>3, Parts DEF PassedInv
      <3>2. CASE j = k /\ n = s
        BY <1>6, <1>17, <2>1, <3>2
      <3>3. CASE ~(j = k /\ n = s)
        <4>1. Done(j, n)' <=> Done(j, n)
          BY <1>17, <3>3
        <4>2. Num(n) \in passed'[j] <=> Num(n) \in passed[j]
          BY <2>1, <2>2, <2>3, <3>3
        <4> QED BY <3>1, <4>1, <4>2
      <3> QED BY <3>2, <3>3
    <2>4. ASSUME NEW j \in Levels, NEW y \in passed'[j]
          PROVE  \/ \E n \in Nat : Filled(n) /\ y = Num(n)
                 \/ /\ y \in Nat /\ y < Found
                    /\ \A i \in Levels : y \in passed'[i]
                    /\ \A n \in Nat : Filled(n) => y < Num(n)
      <3>1. CASE y = x
        BY <1>4, <1>6, <3>1
      <3>2. CASE y # x
        <4>1. y \in passed[j]
          BY <2>1, <3>2
        <4>2. \A i \in Levels : passed[i] \subseteq passed'[i]
          BY <2>1
        <4> QED BY <4>1, <4>2, Parts DEF PassedInv
      <3> QED BY <3>1, <3>2
    <2>5. \A n \in Nat, j \in Levels : Filled(n)' => (Num(n)' \in passed'[j] <=> Done(j, n)')
      BY <1>18, <2>3
    <2>6. \A j \in Levels : \A y \in passed'[j] :
            \/ \E n \in Nat : Filled(n)' /\ y = Num(n)'
            \/ /\ y \in Nat /\ y < Found'
               /\ \A i \in Levels : y \in passed'[i]
               /\ \A n \in Nat : Filled(n)' => y < Num(n)'
      BY <1>18, <1>20, <2>4
    <2> QED BY <1>9, <2>5, <2>6 DEF PassedInv
  <1>23. PipeTypes'
    <2>1. label \in Labels /\ IF t = Main THEN label \in MainLabels ELSE label \in ConsumerLabels
      BY DEF label, Labels, MainLabels, ConsumerLabels
    <2>2. completed' \in [Levels -> Nat]
      BY <1>1, <1>2, <1>3
    <2>3. status' \in [Slots -> Int] /\ \A y \in Slots : status'[y] >= -1
      <3>1. \A y \in Slots : status[y] >= -1
        BY Parts DEF PipeTypes
      <3>2. CASE setup.posix
        BY <1>1, <1>2, <1>5, <3>1, <3>2
      <3>3. CASE ~setup.posix
        BY <1>1, <1>2, <3>1, <3>3
      <3> QED BY <1>1, <3>2, <3>3
    <2>4. passed' = [j \in Levels |-> passed'[j]]
      BY <1>1, <1>2
    <2>5. /\ scheduled' \in [Levels -> Nat] /\ my' \in [Threads -> [slot : Slots, s : Nat]]
          /\ rels' = [y \in Slots |-> rels'[y]]
      BY <1>1, <1>2, Types
    <2> QED BY <1>2, <2>1, <2>2, <2>3, <2>4, <2>5, MovedTypes
  <1> QED BY <1>14, <1>15, <1>16, <1>19, <1>21, <1>22, <1>23 DEF IInv

-------------------------------------------------------------------------------
(* The invariant.                                                            *)

LEMMA InitKeeps == Init => IInv
  <1> SUFFICES ASSUME Init PROVE IInv
    OBVIOUS
  <1>1. /\ setup \in Setups
        /\ completed = [k \in Levels |-> 0] /\ scheduled = [k \in Levels |-> 0]
        /\ status = [x \in Slots |-> 0] /\ active = [k \in Levels |-> 0]
        /\ pc = [t \in Threads |-> "enter"] /\ my = [t \in Threads |-> [slot |-> 0, s |-> 0]]
        /\ main = [avail_seen |-> 0, avail_offset |-> 0, nl |-> 0, nrels |-> 0, k |-> 0]
        /\ rels = [x \in Slots |-> [num |-> -1, bytes |-> <<>>]] /\ passed = [k \in Levels |-> {}]
    BY DEF Init, InflightInit
  <1>2. Main \in Threads /\ 0 \in Slots
    BY Sizes DEF Threads, Slots
  <1>3. setup.last \in Nat \ {0}
    BY <1>1, SetupsAssumption DEF SetupsAssumption
  <1>4. 0 \in Levels /\ main.k = 0 /\ main.nrels = 0
    BY <1>1, <1>3 DEF Levels, LastLevel
  <1>5. PipeTypes
    <2>1. "enter" \in Labels /\ "enter" \in MainLabels /\ "enter" \in ConsumerLabels
      BY DEF Labels, MainLabels, ConsumerLabels
    <2>2. /\ pc \in [Threads -> Labels] /\ pc[Main] \in MainLabels
          /\ \A t \in Threads \ {Main} : pc[t] \in ConsumerLabels
      BY <1>1, <1>2, <2>1
    <2>3. /\ completed \in [Levels -> Nat] /\ scheduled \in [Levels -> Nat]
          /\ status \in [Slots -> Int] /\ (\A x \in Slots : status[x] >= -1)
          /\ active \in [Levels -> Int]
      BY <1>1
    <2>4. my \in [Threads -> [slot : Slots, s : Nat]]
      BY <1>1, <1>2
    <2>5. /\ DOMAIN main = {"avail_seen", "avail_offset", "nl", "nrels", "k"}
          /\ main.nrels \in Nat /\ main.k \in Levels
      BY <1>1, <1>4
    <2>6. rels = [x \in Slots |-> rels[x]] /\ passed = [k \in Levels |-> passed[k]]
      BY <1>1
    <2> QED BY <1>1, <2>2, <2>3, <2>4, <2>5, <2>6 DEF PipeTypes
  <1>6. /\ Levels = 0 .. LastLevel /\ LastLevel \in Levels
        /\ \A t \in Threads : LevelOf(t) \in Levels
    BY <1>5, Team
  <1>7. \A t \in Threads : pc[t] = "enter" /\ ~Working(t)
    BY <1>1 DEF Working
  <1>8. \A k \in Levels : completed[k] = 0 /\ scheduled[k] = 0 /\ passed[k] = {} /\ ~Drained(k)
    BY <1>1, <1>2, <1>4, <1>6, <1>7 DEF Drained
  <1>9. ActiveInv
    <2>1. \A k \in Levels : Inside(k) = {}
      BY <1>7 DEF Inside, Outside
    <2>2. Cardinality({}) = 0
      BY FS_EmptySet
    <2>3. \A k \in Levels : active[k] = Cardinality(Inside(k))
      BY <1>1, <2>1, <2>2
    <2> QED BY <1>2, <1>4, <1>7, <1>8, <2>3 DEF ActiveInv
  <1>10. OrderInv
    BY <1>2, <1>4, <1>6, <1>7, <1>8, Sizes DEF OrderInv
  <1>11. PlaceInv
    BY <1>7 DEF PlaceInv
  <1>12. WorkInv
    BY <1>2, <1>7 DEF WorkInv
  <1>13. \A n \in Nat : ~Recent(n) /\ ~Filled(n)
    BY <1>4, <1>8 DEF Recent, Filled
  <1>14. StatusInv
    BY <1>7, <1>8, <1>13 DEF StatusInv
  <1>15. LineInv /\ PassedInv
    BY <1>8, <1>13 DEF LineInv, PassedInv
  <1> QED BY <1>5, <1>9, <1>10, <1>11, <1>12, <1>14, <1>15 DEF IInv

(* schedule() gives a slot or not.                                           *)
LEMMA ScheduleKeeps ==
  ASSUME IInv, FewLines, NEW t \in Threads, schedule(t) \/ ScheduleUnlocked(t)
  PROVE  IInv'
  <1> SUFFICES ASSUME NEW k \in Levels, LevelOf(t) = k PROVE IInv'
    BY Types
  <1>1. /\ pc[t] \in {"schedule", "decide"} /\ UNCHANGED <<main, rels, passed>>
    BY DEF schedule, ScheduleUnlocked, At
  <1>2. (k = 0 <=> t = Main) /\ k \in Nat /\ scheduled \in [Levels -> Nat] /\ 0 \in Levels
    <2>1. (k = 0 <=> t = Main) /\ k \in Nat
      BY LevelTypes
    <2>2. scheduled \in [Levels -> Nat] /\ 0 \in Levels
      BY Types
    <2> QED BY <2>1, <2>2
  <1>3. k = 0 => ~Drained(LastLevel)
    BY <1>1, <1>2, DrainedLevels
  <1>4. ASSUME NoneLeft(k), Goto(t, "leave"), my' = [my EXCEPT ![t].s = scheduled[k]],
               UNCHANGED inflightVars
        PROVE  IInv'
    BY <1>1, <1>4, NothingGiven
  <1>5. ASSUME MayTake(k), ~NoneLeft(k), Take(k), Goto(t, Granted(t)),
               my' = [my EXCEPT ![t] = [slot |-> SlotOf(scheduled[k]), s |-> scheduled[k]]]
        PROVE  IInv'
    <2>1. scheduled[k] \in Nat
      BY <1>2
    <2>2. CASE k = 0
      <3>1. t = Main /\ Granted(t) = "parse"
        BY <1>2, <2>2 DEF Granted
      <3> QED BY <1>1, <1>5, <2>1, <2>2, <3>1, TakeFirstKeeps
    <2>3. CASE k # 0
      <3>1. t # Main /\ Granted(t) = "holds" /\ k > 0
        BY <1>2, <2>3 DEF Granted
      <3> QED BY <1>1, <1>5, <2>1, <3>1, TakeNextKeeps
    <2> QED BY <2>2, <2>3
  <1>6. CASE schedule(t)
    <2>1. CASE WaitForWork(t, k) /\ UNCHANGED <<pc, my>>
      BY <1>1, <2>1, NothingGiven
    <2>2. CASE /\ ~NothingToSchedule(k) /\ ~setup.posix
               /\ Goto(t, "decide") /\ UNCHANGED <<inflightVars, my>>
      BY <1>1, <2>2, NothingGiven
    <2>3. CASE ~NothingToSchedule(k) /\ setup.posix /\ Decide(t)
      <3>1. MayTake(k)
        BY <1>3, <2>3, SchedulePromise
      <3> QED BY <1>4, <1>5, <2>3, <3>1 DEF Decide
    <2> QED BY <1>6, <2>1, <2>2, <2>3 DEF schedule
  <1>7. CASE ScheduleUnlocked(t)
    <2>1. MayTake(k) /\ Decide(t)
      BY <1>7, Parts DEF ScheduleUnlocked, At, PlaceInv
    <2> QED BY <1>4, <1>5, <2>1 DEF Decide
  <1> QED BY <1>6, <1>7

LEMMA StepKeeps == ASSUME IInv, FewLines, [Next]_vars PROVE IInv'
  <1>1. ASSUME NEW t \in Threads, ThreadStep(t) PROVE IInv'
    <2>1. LevelOf(t) \in Levels /\ my[t].s \in Nat
      BY Types
    <2>2. CASE EnterPipe(t)
      BY <2>1, <2>2, EnterKeeps
    <2>3. CASE AllEntered(t)
      BY <2>3, QuietActions
    <2>4. CASE schedule(t) \/ ScheduleUnlocked(t)
      BY <2>4, ScheduleKeeps
    <2>5. CASE LeaveLevel(t)
      BY <2>1, <2>5, LeaveKeeps
    <2>6. CASE complete(t)
      BY <2>1, <2>6, CompleteKeeps
    <2> QED BY <1>1, <2>2, <2>3, <2>4, <2>5, <2>6 DEF ThreadStep
  <1>2. ASSUME MainStep PROVE IInv'
    <2>1. my[Main].s \in Nat
      BY Types
    <2>2. CASE WaitForData \/ FindLine \/ SkipLine \/ JoinAll
      BY <2>2, QuietActions
    <2>3. CASE Parse
      BY <2>1, <2>3, ParseKeeps
    <2>4. CASE StartDrain
      BY <2>4, StartDrainKeeps
    <2>5. CASE DrainLevel
      BY <2>5, DrainKeeps
    <2> QED BY <1>2, <2>2, <2>3, <2>4, <2>5 DEF MainStep
  <1>3. ASSUME Read \/ UNCHANGED vars PROVE IInv'
    BY <1>3, QuietActions
  <1> QED BY <1>1, <1>2, <1>3 DEF Next, Ended

(* Every reachable state satisfies the invariant, as long as fewer lines     *)
(* than an unsigned int can count have been found.                           *)
THEOREM PipeInvariant == Spec /\ []FewLines => []IInv
  <1>1. Init => IInv
    BY InitKeeps
  <1>2. IInv /\ FewLines /\ [Next]_vars => IInv'
    BY StepKeeps
  <1> QED BY <1>1, <1>2, PTL DEF Spec

-------------------------------------------------------------------------------
(* What it says of the relations in the pipe.                                *)

(* complete() recovers the number of the relation it is given the slot of,   *)
(* whatever the other threads of the level have finished (filter_io.cpp:415).*)
THEOREM IndexOfSlot == Spec /\ []FewLines => []AbsoluteIndexRecovered
  <1>1. ASSUME IInv, FewLines PROVE AbsoluteIndexRecovered
    <2> SUFFICES ASSUME NEW t \in Threads, Holds(t)
                 PROVE  AbsoluteIndex(LevelOf(t), my[t].slot) = my[t].s
      BY DEF AbsoluteIndexRecovered
    <2>1. LevelOf(t) \in Levels
      BY <1>1, Types
    <2> QED BY <1>1, <2>1, IndexRecovered
  <1>2. IInv /\ FewLines => AbsoluteIndexRecovered
    BY <1>1
  <1> QED BY <1>2, PipeInvariant, PTL

(* The invariant of filter_io.cpp:222 holds for every two levels that follow *)
(* each other, and no counter is ahead of a relation somebody works on.      *)
THEOREM CountersKept == Spec /\ []FewLines => []CountersOrdered
  <1>1. ASSUME IInv, FewLines PROVE CountersOrdered
    <2>1. /\ completed \in [Levels -> Nat] /\ scheduled \in [Levels -> Nat]
          /\ Levels = 0 .. LastLevel /\ LastLevel \in Nat \ {0} /\ 0 \in Levels
      BY <1>1, Types
    <2> SUFFICES ASSUME NEW k \in Levels, completed[k] # SIZE_MAX
                 PROVE  /\ completed[k] <= scheduled[k]
                        /\ k = LastLevel => completed[k] + SizeBuf >= scheduled[0]
                        /\ \A t \in Threads : LevelOf(t) = k /\ Holds(t) => completed[k] <= my[t].s
                        /\ k < LastLevel => scheduled[k + 1] <= completed[k]
      BY DEF CountersOrdered
    <2>2. ~Drained(k)
      BY <1>1, NoOverflow
    <2>3. completed[k] <= scheduled[k] /\ scheduled[0] <= completed[k] + SizeBuf
      BY <1>1, <2>2, LowestCounter
    <2>4. completed[k] + SizeBuf >= scheduled[0]
      BY <2>1, <2>3, Sizes
    <2>5. ASSUME NEW t \in Threads, LevelOf(t) = k, Holds(t) PROVE completed[k] <= my[t].s
      <3>1. Working(t)
        BY <2>5 DEF Holds, Working
      <3> QED BY <1>1, <2>5, <3>1, WorkingRecent
    <2>6. ASSUME k < LastLevel PROVE scheduled[k + 1] <= completed[k]
      <3>1. k + 1 \in Levels /\ k < k + 1
        BY <2>1, <2>6
      <3> QED BY <1>1, <2>2, <3>1, Parts DEF OrderInv
    <2> QED BY <2>3, <2>4, <2>5, <2>6
  <1>2. IInv /\ FewLines => CountersOrdered
    BY <1>1
  <1> QED BY <1>2, PipeInvariant, PTL

(* A thread that has a slot has it to itself, and its level has not seen the *)
(* relation in it: what SlotIsItsOwn says but of the bytes of the line.      *)
SlotUsedOnce ==
  /\ \A t \in Threads : Holds(t) => rels[my[t].slot].num \notin passed[LevelOf(t)]
  /\ \A t, u \in Threads :
       pc[t] \in {"holds", "parse"} /\ pc[u] \in {"holds", "parse"}
         /\ my[t].slot = my[u].slot => t = u

(* Two threads that work on one relation are of one level.                   *)
LEMMA OneLevel ==
  ASSUME IInv, NEW t \in Threads, NEW u \in Threads, Working(t), Working(u),
         NEW j \in Levels, NEW k \in Levels, LevelOf(t) = j, LevelOf(u) = k, j < k
  PROVE  my[t].s # my[u].s
  <1>1. completed \in [Levels -> Nat] /\ scheduled \in [Levels -> Nat]
    BY Types
  <1>2. ~Drained(j) /\ completed[j] <= my[t].s /\ my[t].s \in Nat
    BY WorkingRecent
  <1>3. my[u].s < scheduled[k] /\ my[u].s \in Nat
    BY WorkingRecent
  <1>4. scheduled[k] <= completed[j]
    BY <1>2, Parts DEF OrderInv
  <1>5. completed[j] \in Nat /\ scheduled[k] \in Nat
    BY <1>1
  <1> QED BY <1>2, <1>3, <1>4, <1>5

(* Two threads of any levels never hold one slot, and a relation is never    *)
(* given twice to a level.                                                   *)
THEOREM SlotsKept == Spec /\ []FewLines => []SlotUsedOnce
  <1>1. ASSUME IInv, NEW t \in Threads, Holds(t)
        PROVE  rels[my[t].slot].num \notin passed[LevelOf(t)]
    <2>1. LevelOf(t) \in Levels /\ Working(t) /\ my[t].s \in Nat
      BY <1>1, Types DEF Holds, Working
    <2>2. /\ my[t].slot = SlotOf(my[t].s) /\ ~Done(LevelOf(t), my[t].s)
      BY <1>1, <2>1, WorkingRecent
    <2>3. Filled(my[t].s)
      BY <1>1, <2>1, HeldRelation
    <2>4. Num(my[t].s) \notin passed[LevelOf(t)]
      BY <1>1, <2>1, <2>2, <2>3, Parts DEF PassedInv
    <2> QED BY <2>2, <2>4 DEF Num
  <1>2. ASSUME IInv, NEW t \in Threads, NEW u \in Threads, Working(t), Working(u),
               my[t].slot = my[u].slot
        PROVE  t = u
    <2>1. LevelOf(t) \in Levels /\ LevelOf(u) \in Levels /\ Levels \subseteq Nat
      BY <1>2, Types
    <2>2. /\ my[t].s \in Nat /\ Recent(my[t].s) /\ my[t].slot = SlotOf(my[t].s)
          /\ my[u].s \in Nat /\ Recent(my[u].s) /\ my[u].slot = SlotOf(my[u].s)
      BY <1>2, <2>1, WorkingRecent
    <2>3. my[t].s = my[u].s
      BY <1>2, <2>2, RecentUnique, Parts
    <2>4. ~(LevelOf(t) < LevelOf(u)) /\ ~(LevelOf(u) < LevelOf(t))
      BY <1>2, <2>1, <2>3, OneLevel
    <2>5. LevelOf(t) = LevelOf(u)
      <3>1. \A a, b \in Nat : ~(a < b) /\ ~(b < a) => a = b
        OBVIOUS
      <3>2. LevelOf(t) \in Nat /\ LevelOf(u) \in Nat
        BY <2>1
      <3> QED BY <2>4, <3>1, <3>2, Zenon
    <2>6. \A v, w \in Threads :
            Working(v) /\ Working(w) /\ LevelOf(v) = LevelOf(w) /\ my[v].s = my[w].s => v = w
      BY <1>2, Parts DEF WorkInv
    <2> QED BY <1>2, <2>3, <2>5, <2>6, Zenon
  <1>3. IInv => SlotUsedOnce
    <2> SUFFICES ASSUME IInv PROVE SlotUsedOnce
      OBVIOUS
    <2>1. \A t \in Threads : pc[t] \in {"holds", "parse"} <=> Working(t)
      BY DEF Working
    <2> QED BY <1>1, <1>2, <2>1 DEF SlotUsedOnce
  <1> QED BY <1>3, PipeInvariant, PTL

-------------------------------------------------------------------------------
(* The refinement of RelationPipe.                                           *)

(* What Main has in hand follows all that level 0 has finished.              *)
LEMMA PutLast ==
  ASSUME IInv, Holds(Main), NEW s \in Nat, s = my[Main].s, NEW other \in passed[0]
  PROVE  other < Num(s)
  <1>1. /\ Main \in Threads /\ LevelOf(Main) = 0 /\ 0 \in Levels
        /\ scheduled \in [Levels -> Nat] /\ Working(Main)
    BY Types DEF Holds, Working
  <1>2. Filled(s) /\ ~Done(0, s) /\ scheduled[0] = s + 1
    BY <1>1, HeldRelation, WorkingRecent, Parts DEF WorkInv
  <1>3. ASSUME NEW n \in Nat, Filled(n), other = Num(n) PROVE other < Num(s)
    <2>1. Done(0, n)
      BY <1>1, <1>3, Parts DEF PassedInv
    <2>2. n # s /\ n < s + 1
      BY <1>2, <2>1 DEF Done
    <2>3. n < s
      BY <2>2
    <2> QED BY <1>2, <1>3, <2>3, Parts DEF LineInv
  <1>4. ASSUME \A n \in Nat : Filled(n) => other < Num(n) PROVE other < Num(s)
    BY <1>2, <1>4
  <1> QED BY <1>1, <1>3, <1>4, Parts DEF PassedInv

(* The relations on their way are in slots, and none is in that of Main.     *)
LEMMA FewOnTheirWay ==
  ASSUME IInv, Holds(Main)
  PROVE  Cardinality(passed[0] \ passed[LastLevel]) < SizeBuf
  <1>1. /\ Main \in Threads /\ LevelOf(Main) = 0 /\ 0 \in Levels /\ LastLevel \in Levels
        /\ Working(Main) /\ my[Main].s \in Nat
    BY Types DEF Holds, Working
  <1>2. PICK s \in Nat : s = my[Main].s
    BY <1>1
  <1>3. Filled(s) /\ ~Done(0, s)
    BY <1>1, <1>2, HeldRelation, WorkingRecent
  <1> DEFINE W == passed[0] \ passed[LastLevel]
             Others == Slots \ {SlotOf(s)}
             f == [x \in W |-> CHOOSE y \in Others : rels[y].num = x]
  <1>4. ASSUME NEW x \in W PROVE \E y \in Others : rels[y].num = x
    <2>1. PICK n \in Nat : Filled(n) /\ x = Num(n)
      BY <1>1, Parts DEF PassedInv
    <2>2. Done(0, n)
      BY <1>1, <2>1, Parts DEF PassedInv
    <2>3. n # s /\ Recent(n) /\ Recent(s)
      BY <1>3, <2>1, <2>2 DEF Filled
    <2>4. SlotOf(n) \in Others
      BY <2>3, OtherSlot
    <2> QED BY <2>1, <2>4 DEF Num
  <1>5. \A x \in W : f[x] \in Others /\ rels[f[x]].num = x
    BY <1>4
  <1>6. f \in [W -> Others] /\ \A a, b \in W : f[a] = f[b] => a = b
    BY <1>5
  <1>7. IsFiniteSet(Others) /\ Cardinality(Others) = SizeBuf - 1
    <2>1. IsFiniteSet(Slots) /\ Cardinality(Slots) = SizeBuf
      <3>1. 0 \in Int /\ SizeBuf - 1 \in Int /\ ~(0 > SizeBuf - 1)
        BY Sizes
      <3>2. Cardinality(0 .. SizeBuf - 1) = SizeBuf - 1 - 0 + 1
        BY <3>1, FS_Interval
      <3>3. SizeBuf - 1 - 0 + 1 = SizeBuf
        BY Sizes
      <3> QED BY <3>1, <3>2, <3>3, FS_Interval DEF Slots
    <2>2. SlotOf(s) \in Slots
      BY SlotType
    <2> QED BY <2>1, <2>2, FS_RemoveElement
  <1> HIDE DEF W, Others, f
  <1>8. f \in Injection(W, Others)
    BY <1>6, Fun_IsInj
  <1>9. IsFiniteSet(W) /\ Cardinality(W) <= Cardinality(Others)
    BY <1>7, <1>8, FS_Injection
  <1>10. Cardinality(W) \in Nat
    BY <1>9, FS_CardinalityType
  <1>11. Cardinality(W) < SizeBuf
    BY <1>7, <1>9, <1>10, Sizes
  <1> QED BY <1>11 DEF W

(* complete() of level 0 puts the next relation into the pipe, complete() of *)
(* a later level passes one on.                                              *)
LEMMA CompleteSimulates ==
  ASSUME IInv, NEW t \in Threads, NEW k \in Levels, LevelOf(t) = k, complete(t),
         NEW s \in Nat, s = my[t].s
  PROVE  Pipe!Next
  <1>1. /\ setup' = setup /\ Holds(t)
        /\ passed' = [passed EXCEPT ![k] = @ \union {rels[my[t].slot].num}]
    BY DEF complete, Complete, At, Holds
  <1>2. LastLevel' = LastLevel
    BY <1>1, Frame
  <1>3. /\ 0 \in Levels /\ Levels = 0 .. LastLevel /\ passed = [j \in Levels |-> passed[j]]
        /\ (t = Main <=> k = 0)
    <2>1. t = Main <=> k = 0
      BY LevelTypes
    <2>2. 0 \in Levels /\ Levels = 0 .. LastLevel /\ passed = [j \in Levels |-> passed[j]]
      BY Types
    <2> QED BY <2>1, <2>2
  <1>4. Working(t)
    BY <1>1 DEF Holds, Working
  <1>5. rels[my[t].slot].num = Num(s)
    BY <1>4, WorkingRecent DEF Num
  <1>6. /\ passed' = [passed EXCEPT ![k] = @ \union {Num(s)}]
        /\ passed'[k] = passed[k] \union {Num(s)}
    BY <1>1, <1>3, <1>5
  <1>7. CASE k = 0
    <2>1. \A other \in passed[0] : other < Num(s)
      BY <1>1, <1>3, <1>7, PutLast
    <2>2. Cardinality(passed[0] \ passed[LastLevel]) < SizeBuf
      BY <1>1, <1>3, <1>7, FewOnTheirWay
    <2>3. Pipe!Cardinality(passed[0] \ passed[LastLevel]) = Cardinality(passed[0] \ passed[LastLevel])
      BY DEF Pipe!Cardinality, Cardinality
    <2>4. Pipe!Put(Num(s))
      BY <1>6, <1>7, <2>1, <2>2, <2>3 DEF Pipe!Put
    <2> QED BY <1>2, <1>6, <1>7, <2>4 DEF Pipe!Next
  <1>8. CASE k # 0
    <2>1. k \in 1 .. LastLevel /\ k > 0
      BY <1>3, <1>8
    <2>2. Filled(s) /\ k - 1 \in Levels /\ Done(k - 1, s)
      BY <1>1, <2>1, HeldRelation
    <2>3. ~Done(k, s)
      BY <1>4, WorkingRecent
    <2>4. Num(s) \in passed[k - 1] /\ Num(s) \notin passed[k]
      BY <2>2, <2>3, Parts DEF PassedInv
    <2>5. Pipe!Pass(k, Num(s))
      BY <1>6, <2>4 DEF Pipe!Pass
    <2> QED BY <1>2, <2>1, <2>4, <2>5 DEF Pipe!Next
  <1> QED BY <1>7, <1>8

(* Every other step leaves the history alone.                                *)
LEMMA QuietSimulates ==
  ASSUME [Next]_vars, \A t \in Threads : ~complete(t)
  PROVE  UNCHANGED <<setup, passed>>
  <1>1. ASSUME NEW t \in Threads, ThreadStep(t) PROVE UNCHANGED <<setup, passed>>
    <2>1. CASE EnterPipe(t)
      BY <2>1 DEF EnterPipe, Enter
    <2>2. CASE AllEntered(t)
      BY <2>2 DEF AllEntered, inflightVars
    <2>3. CASE schedule(t) \/ ScheduleUnlocked(t)
      BY <2>3 DEF schedule, ScheduleUnlocked, Decide, Take, WaitForWork, inflightVars
    <2>4. CASE LeaveLevel(t)
      BY <2>4 DEF LeaveLevel, Leave
    <2> QED BY <1>1, <2>1, <2>2, <2>3, <2>4 DEF ThreadStep
  <1>2. ASSUME MainStep PROVE UNCHANGED <<setup, passed>>
    <2>1. CASE WaitForData \/ FindLine \/ Parse \/ SkipLine \/ JoinAll
      BY <2>1 DEF WaitForData, FindLine, Parse, SkipLine, JoinAll, inflightVars
    <2>2. CASE StartDrain
      BY <2>2 DEF StartDrain, LeaveMain
    <2>3. CASE DrainLevel
      BY <2>3 DEF DrainLevel, Drain
    <2> QED BY <1>2, <2>1, <2>2, <2>3 DEF MainStep
  <1>3. ASSUME Read \/ UNCHANGED vars PROVE UNCHANGED <<setup, passed>>
    BY <1>3 DEF Read, vars, inflightVars
  <1> QED BY <1>1, <1>2, <1>3 DEF Next, Ended

LEMMA StepSimulates == IInv /\ [Next]_vars => [Pipe!Next]_<<LastLevel, passed>>
  <1> SUFFICES ASSUME IInv, [Next]_vars PROVE [Pipe!Next]_<<LastLevel, passed>>
    OBVIOUS
  <1>1. CASE \E t \in Threads : complete(t)
    <2>1. PICK t \in Threads : complete(t)
      BY <1>1
    <2>2. LevelOf(t) \in Levels /\ my[t].s \in Nat
      BY Types
    <2> QED BY <2>1, <2>2, CompleteSimulates
  <1>2. CASE \A t \in Threads : ~complete(t)
    <2>1. UNCHANGED <<setup, passed>>
      BY <1>2, QuietSimulates
    <2> QED BY <2>1, Frame
  <1> QED BY <1>1, <1>2

(* Whatever the locking model and however the threads of all levels run,     *)
(* the relations enter in the order of the lines, pass each level once and   *)
(* after the one before, and no more of them than slots are on their way.    *)
THEOREM PipeKept == Spec /\ []FewLines => PipeSpec
  <1>1. Init => Pipe!Init
    BY DEF Init, Pipe!Init, Levels
  <1> QED BY <1>1, StepSimulates, PipeInvariant, PTL DEF Spec, PipeSpec, Pipe!Spec

-------------------------------------------------------------------------------
(* The bytes in the ring buffer.                                             *)

(* Bytes written and not accounted for, and bytes taken from the buffer.     *)
Unaccounted == IF reader.pc = "fed" THEN reader.s ELSE 0
Consumed == reader.pos - Unaccounted - rb.avail_to_read

RingTypes ==
  /\ input \in Inputs
  /\ DOMAIN rb = {"rhead", "whead", "avail_to_read", "avail_to_write", "done"}
  /\ rb.avail_to_read \in 0 .. Alloc /\ rb.avail_to_write = Alloc - rb.avail_to_read
  /\ rb.rhead \in 0 .. Alloc - 1
  /\ rb.whead = (rb.rhead + rb.avail_to_read) % Alloc
  /\ cells = [i \in 0 .. Alloc - 1 |-> cells[i]]
  /\ DOMAIN reader = {"pc", "file", "pos", "local", "s"}
  /\ reader.file \in 1 .. Len(input.ends)
  /\ reader.pos \in Nat /\ reader.pos <= input.ends[reader.file]
  /\ reader.local \in 0 .. rb.avail_to_write
  /\ Unaccounted \in 0 .. rb.avail_to_write
  /\ Consumed \in Nat

(* From the read head on there are the bytes that follow those taken.        *)
Content ==
  \A i \in 0 .. rb.avail_to_read + Unaccounted - 1 : Cell(i) = Consumed + i + 1

RingInv == RingTypes /\ Content

LEMMA Buffer ==
  /\ Alloc \in Nat /\ Alloc > 0 /\ OneRead \in Nat /\ OneRead > 0
  /\ SizeMod \in Nat /\ SizeMod > Alloc
  BY RingAssumption DEF RingAssumption

(* Places in the buffer.                                                     *)
LEMMA Wrapped ==
  ASSUME NEW x \in Int, -Alloc <= x, x < 2 * Alloc
  PROVE  x % Alloc = IF x < 0 THEN x + Alloc ELSE IF x < Alloc THEN x ELSE x - Alloc
  <1> DEFINE q == x \div Alloc
             r == x % Alloc
  <1>1. r \in Int /\ 0 <= r /\ r < Alloc
    BY Buffer
  <1>2. q \in Int
    BY Buffer
  <1>3. r = x - Alloc * q
    BY Buffer, SMTT(20)
  <1>4. q = -1 \/ q = 0 \/ q = 1
    <2> HIDE DEF q, r
    <2>1. CASE q >= 2
      <3>1. Alloc * q >= Alloc * 2
        BY <1>2, <2>1, Buffer
      <3> QED BY <1>1, <1>3, <3>1, Buffer, <1>2
    <2>2. CASE q <= -2
      <3>1. Alloc * q <= Alloc * (-2)
        BY <1>2, <2>2, Buffer
      <3> QED BY <1>1, <1>3, <3>1, Buffer, <1>2
    <2> QED BY <1>2, <2>1, <2>2
  <1> HIDE DEF q, r
  <1>5. CASE q = -1
    <2>1. r = x + Alloc
      BY <1>3, <1>5, Buffer
    <2> QED BY <1>1, <2>1, Buffer DEF r
  <1>6. CASE q = 0
    <2>1. r = x
      BY <1>3, <1>6, Buffer
    <2> QED BY <1>1, <2>1, Buffer DEF r
  <1>7. CASE q = 1
    <2>1. r = x - Alloc
      BY <1>3, <1>7, Buffer
    <2> QED BY <1>1, <2>1, Buffer DEF r
  <1> QED BY <1>4, <1>5, <1>6, <1>7

LEMMA FewBytes ==
  ASSUME NEW x \in 0 .. Alloc
  PROVE  x % SizeMod = x
  BY Buffer

LEMMA Farther ==
  ASSUME NEW h \in 0 .. Alloc - 1, NEW n \in 0 .. Alloc, NEW i \in 0 .. Alloc - 1
  PROVE  (((h + i) % Alloc) - ((h + n) % Alloc)) % Alloc = IF i >= n THEN i - n ELSE i - n + Alloc
  <1> DEFINE a == (h + i) % Alloc
             b == (h + n) % Alloc
  <1>1. a = IF h + i < Alloc THEN h + i ELSE h + i - Alloc
    BY Wrapped, Buffer
  <1>2. b = IF h + n < Alloc THEN h + n ELSE h + n - Alloc
    BY Wrapped, Buffer
  <1> HIDE DEF a, b
  <1>3. a \in 0 .. Alloc - 1 /\ b \in 0 .. Alloc - 1
    BY <1>1, <1>2, Buffer
  <1>4. (a - b) % Alloc = IF a - b < 0 THEN a - b + Alloc ELSE a - b
    BY <1>3, Wrapped, Buffer
  <1>5. (a - b) % Alloc = IF i >= n THEN i - n ELSE i - n + Alloc
    BY <1>1, <1>2, <1>3, <1>4, Buffer
  <1> QED BY <1>5 DEF a, b

LEMMA HeadMoves ==
  ASSUME NEW h \in 0 .. Alloc - 1, NEW n \in 0 .. Alloc, NEW s \in 0 .. Alloc, n + s <= Alloc
  PROVE  /\ (((h + n) % Alloc) + s) % Alloc = (h + (n + s)) % Alloc
         /\ (h + n) % Alloc \in 0 .. Alloc - 1
  <1> DEFINE b == (h + n) % Alloc
  <1>1. b = IF h + n < Alloc THEN h + n ELSE h + n - Alloc
    BY Wrapped, Buffer
  <1> HIDE DEF b
  <1>2. b \in 0 .. Alloc - 1
    BY <1>1, Buffer
  <1>3. (b + s) % Alloc = IF b + s < Alloc THEN b + s ELSE b + s - Alloc
    BY <1>2, Wrapped, Buffer
  <1>4. (h + (n + s)) % Alloc = IF h + (n + s) < Alloc THEN h + (n + s) ELSE h + (n + s) - Alloc
    BY Wrapped, Buffer
  <1>5. (b + s) % Alloc = (h + (n + s)) % Alloc
    BY <1>1, <1>2, <1>3, <1>4, Buffer
  <1> QED BY <1>2, <1>5 DEF b

(* The shortest of a read's limits.                                          *)
LEMMA LeastOf ==
  ASSUME NEW S \in SUBSET Nat, S # {}
  PROVE  Min(S) \in S /\ \A x \in S : Min(S) <= x
  BY LeastElement DEF Min

(* The reading thread writes no byte that is still to be read.               *)
LEMMA FreadKeeps ==
  ASSUME RingInv, Fread
  PROVE  RingInv' /\ Consumed' = Consumed
  <1>1. /\ RingTypes /\ Content /\ reader.pc = "read" /\ Unaccounted = 0 /\ UNCHANGED <<input, rb>>
    BY DEF RingInv, Fread, Unaccounted
  <1> DEFINE left == input.ends[reader.file] - reader.pos
  <1>f. /\ input \in Inputs /\ Len(input.ends) \in Nat
        /\ \A n \in 1 .. Len(input.ends) : input.ends[n] \in Nat
        /\ \A n \in 1 .. Len(input.ends) - 1 : input.ends[n] <= input.ends[n + 1]
    BY <1>1, InputsAssumption DEF RingTypes, InputsAssumption
  <1>2. /\ left \in Nat /\ reader.pos \in Nat /\ reader.file \in 1 .. Len(input.ends)
        /\ rb.rhead \in 0 .. Alloc - 1 /\ rb.avail_to_read \in 0 .. Alloc
        /\ rb.avail_to_write = Alloc - rb.avail_to_read
        /\ reader.local \in 0 .. rb.avail_to_write
        /\ rb.whead = (rb.rhead + rb.avail_to_read) % Alloc
        /\ DOMAIN reader = {"pc", "file", "pos", "local", "s"}
        /\ cells = [i \in 0 .. Alloc - 1 |-> cells[i]]
    BY <1>1, <1>f DEF RingTypes
  <1>3. rb.whead \in 0 .. Alloc - 1
    BY <1>2, HeadMoves, Buffer
  <1>4. Consumed = reader.pos - rb.avail_to_read /\ Consumed \in Nat
    BY <1>1 DEF Consumed, RingTypes
  <1>5. ASSUME NEW s, s = Min({ReadSize, left}),
               cells' = [i \in DOMAIN cells |->
                          IF (i - rb.whead) % Alloc < s
                          THEN reader.pos + 1 + ((i - rb.whead) % Alloc) ELSE cells[i]],
               reader' = [reader EXCEPT !.pc = "fed", !.pos = @ + s, !.s = s]
        PROVE  RingInv' /\ Consumed' = Consumed
    <2> DEFINE room == {Alloc - rb.whead, reader.local, OneRead}
    <2>1. room \in SUBSET Nat /\ room # {} /\ reader.local \in room
      BY <1>2, <1>3, Buffer
    <2>2. ReadSize \in Nat /\ ReadSize <= reader.local
      <3>1. Min(room) \in room /\ Min(room) <= reader.local
        BY <2>1, LeastOf
      <3>2. ReadSize = Min(room)
        BY DEF ReadSize
      <3> HIDE DEF room
      <3> QED BY <2>1, <3>1, <3>2
    <2>3. s \in Nat /\ s <= reader.local /\ s <= left
      <3> DEFINE two == {ReadSize, left}
      <3>1. two \in SUBSET Nat /\ two # {}
        BY <1>2, <2>2
      <3>2. Min(two) \in two /\ Min(two) <= ReadSize /\ Min(two) <= left
        BY <3>1, LeastOf
      <3>3. s = Min(two)
        BY <1>5
      <3> HIDE DEF two, left
      <3>4. s \in Nat /\ s <= ReadSize /\ s <= left
        BY <3>1, <3>2, <3>3
      <3> QED BY <1>2, <2>2, <3>4
    <2>a. s \in 0 .. rb.avail_to_write /\ s + rb.avail_to_read <= Alloc
      BY <1>2, <2>3, Buffer
    <2>4. /\ reader'.pc = "fed" /\ reader'.pos = reader.pos + s /\ reader'.s = s
          /\ reader'.file = reader.file /\ reader'.local = reader.local
          /\ DOMAIN reader' = DOMAIN reader
      BY <1>2, <1>5
    <2>5. Unaccounted' = s /\ Consumed' = Consumed
      BY <1>1, <1>2, <1>4, <2>3, <2>4 DEF Consumed, Unaccounted
    <2>6. RingTypes'
      <3>1. reader'.pos \in Nat /\ reader'.pos <= input.ends[reader.file]
        BY <1>2, <1>f, <2>3, <2>4
      <3>2. cells' = [i \in 0 .. Alloc - 1 |-> cells'[i]]
        BY <1>2, <1>5
      <3>3. Unaccounted' \in 0 .. rb.avail_to_write
        BY <1>1, <2>a, <2>5
      <3> QED BY <1>1, <1>2, <1>4, <2>4, <2>5, <3>1, <3>2, <3>3 DEF RingTypes
    <2>7. Content'
      <3> SUFFICES ASSUME NEW i \in 0 .. rb.avail_to_read + s - 1 PROVE Cell(i)' = Consumed + i + 1
        BY <1>1, <2>5 DEF Content
      <3> DEFINE p == (rb.rhead + i) % Alloc
      <3>1. i \in 0 .. Alloc - 1
        BY <1>2, <2>3, <2>a, Buffer
      <3>2. p \in 0 .. Alloc - 1
        <4>1. 0 \in 0 .. Alloc /\ i + 0 <= Alloc /\ i \in 0 .. Alloc
          BY <3>1, Buffer
        <4> QED BY <1>2, <4>1, HeadMoves
      <3>3. (p - rb.whead) % Alloc = IF i >= rb.avail_to_read THEN i - rb.avail_to_read
                                     ELSE i - rb.avail_to_read + Alloc
        BY <1>2, <3>1, Farther
      <3>4. Cell(i)' = cells'[p]
        BY <1>1 DEF Cell
      <3> DEFINE d == (p - rb.whead) % Alloc
      <3>5. cells'[p] = IF d < s THEN reader.pos + 1 + d ELSE cells[p]
        BY <1>2, <1>5, <3>2
      <3>6. Cell(i) = cells[p]
        BY DEF Cell
      <3> HIDE DEF p, d
      <3>7. CASE i >= rb.avail_to_read
        <4>1. d = i - rb.avail_to_read /\ d < s
          BY <1>2, <2>3, <3>1, <3>3, <3>7 DEF d
        <4> QED BY <1>2, <1>4, <3>1, <3>4, <3>5, <4>1
      <3>8. CASE i < rb.avail_to_read
        <4>1. d = i - rb.avail_to_read + Alloc /\ ~(d < s)
          BY <1>2, <2>3, <2>a, <3>1, <3>3, <3>8, Buffer DEF d
        <4>2. i \in 0 .. rb.avail_to_read + Unaccounted - 1
          BY <1>1, <1>2, <3>1, <3>8
        <4>3. Cell(i) = Consumed + i + 1
          BY <1>1, <4>2 DEF Content
        <4> QED BY <3>4, <3>5, <3>6, <4>1, <4>3
      <3> QED BY <1>2, <3>1, <3>7, <3>8
    <2> QED BY <2>5, <2>6, <2>7 DEF RingInv
  <1>6. ASSUME UNCHANGED cells, reader' = [reader EXCEPT !.pc = "open", !.file = @ + 1],
               reader.file < Len(input.ends)
        PROVE  RingInv' /\ Consumed' = Consumed
    <2>1. /\ reader'.pc = "open" /\ reader'.file = reader.file + 1 /\ reader'.pos = reader.pos
          /\ reader'.local = reader.local /\ DOMAIN reader' = DOMAIN reader
      BY <1>2, <1>6
    <2>2. Unaccounted' = 0 /\ Consumed' = Consumed
      BY <1>1, <1>4, <2>1 DEF Unaccounted, Consumed
    <2>3. reader'.file \in 1 .. Len(input.ends) /\ reader'.pos <= input.ends[reader'.file]
      <3>1. reader.file \in 1 .. Len(input.ends) - 1
        BY <1>2, <1>6, <1>f
      <3>2. input.ends[reader.file] <= input.ends[reader.file + 1]
        BY <1>f, <3>1
      <3>3. /\ input.ends[reader.file] \in Nat /\ input.ends[reader.file + 1] \in Nat
            /\ reader.file + 1 \in 1 .. Len(input.ends)
        BY <1>f, <3>1
      <3>4. reader.pos <= input.ends[reader.file]
        BY <1>1 DEF RingTypes
      <3> QED BY <1>2, <2>1, <3>2, <3>3, <3>4
    <2>4. RingTypes'
      BY <1>1, <1>2, <1>4, <1>6, <2>1, <2>2, <2>3 DEF RingTypes
    <2>5. Content'
      BY <1>1, <1>6, <2>2 DEF Content, Cell
    <2> QED BY <2>2, <2>4, <2>5 DEF RingInv
  <1>7. ASSUME UNCHANGED cells, reader' = [reader EXCEPT !.pc = "mark_done"]
        PROVE  RingInv' /\ Consumed' = Consumed
    <2>1. /\ reader'.pc = "mark_done" /\ reader'.file = reader.file /\ reader'.pos = reader.pos
          /\ reader'.local = reader.local /\ DOMAIN reader' = DOMAIN reader
      BY <1>2, <1>7
    <2>2. Unaccounted' = 0 /\ Consumed' = Consumed
      BY <1>1, <1>4, <2>1 DEF Unaccounted, Consumed
    <2>3. RingTypes'
      BY <1>1, <1>2, <1>4, <1>7, <2>1, <2>2 DEF RingTypes
    <2>4. Content'
      BY <1>1, <1>7, <2>2 DEF Content, Cell
    <2> QED BY <2>2, <2>3, <2>4 DEF RingInv
  <1> QED BY <1>5, <1>6, <1>7 DEF Fread

(* What is accounted for follows what can already be read.                   *)
LEMMA AccountKeeps ==
  ASSUME RingInv, Account
  PROVE  /\ RingInv' /\ Consumed' = Consumed /\ rb.avail_to_read <= rb'.avail_to_read
  <1> DEFINE s == reader.s
             n == rb.avail_to_read
  <1>1. /\ RingTypes /\ Content /\ reader.pc = "fed" /\ Unaccounted = s /\ UNCHANGED <<input, cells>>
    BY DEF RingInv, Account, Unaccounted
  <1>2. /\ rb.rhead \in 0 .. Alloc - 1 /\ n \in 0 .. Alloc /\ rb.avail_to_write = Alloc - n
        /\ rb.whead = (rb.rhead + n) % Alloc /\ s \in 0 .. Alloc - n
        /\ DOMAIN reader = {"pc", "file", "pos", "local", "s"}
        /\ DOMAIN rb = {"rhead", "whead", "avail_to_read", "avail_to_write", "done"}
        /\ Consumed = reader.pos - s - n /\ Consumed \in Nat /\ reader.pos \in Nat
    BY <1>1 DEF RingTypes, Consumed
  <1> HIDE DEF s, n
  <1>3. /\ n + s \in 0 .. Alloc /\ Alloc - n - s \in 0 .. Alloc /\ Alloc - n - s = Alloc - (n + s)
        /\ s \in 0 .. Alloc /\ n + s <= Alloc /\ n <= n + s
    BY <1>2, Buffer
  <1>4. rb' = [rb EXCEPT !.whead = (rb.whead + s) % Alloc,
                         !.avail_to_read = (n + s) % SizeMod,
                         !.avail_to_write = (rb.avail_to_write - s) % SizeMod]
    BY DEF Account, s, n
  <1>5. /\ DOMAIN rb' = DOMAIN rb /\ rb'.rhead = rb.rhead
        /\ rb'.whead = (rb.whead + s) % Alloc
        /\ rb'.avail_to_read = (n + s) % SizeMod
        /\ rb'.avail_to_write = (rb.avail_to_write - s) % SizeMod
    BY <1>2, <1>4
  <1>6. rb'.avail_to_read = n + s /\ rb'.avail_to_write = Alloc - (n + s)
    <2>1. (n + s) % SizeMod = n + s
      BY <1>3, FewBytes
    <2>2. (Alloc - n - s) % SizeMod = Alloc - n - s
      BY <1>3, FewBytes
    <2> QED BY <1>2, <1>3, <1>5, <2>1, <2>2
  <1>7. rb'.whead = (rb.rhead + (n + s)) % Alloc
    BY <1>2, <1>3, <1>5, HeadMoves
  <1>8. /\ reader'.pc = "check" /\ reader'.file = reader.file /\ reader'.pos = reader.pos
        /\ reader'.local = rb'.avail_to_write /\ DOMAIN reader' = DOMAIN reader
    BY <1>2 DEF Account
  <1>9. Unaccounted' = 0 /\ Consumed' = Consumed
    BY <1>2, <1>3, <1>6, <1>8 DEF Unaccounted, Consumed
  <1>10. rb'.avail_to_write \in 0 .. Alloc
    BY <1>3, <1>6
  <1>11. RingTypes'
    <2>1. rb'.avail_to_read \in 0 .. Alloc /\ rb'.avail_to_write = Alloc - rb'.avail_to_read
      BY <1>3, <1>6
    <2>2. rb'.rhead \in 0 .. Alloc - 1 /\ rb'.whead = (rb'.rhead + rb'.avail_to_read) % Alloc
      BY <1>2, <1>5, <1>6, <1>7
    <2>3. reader'.local \in 0 .. rb'.avail_to_write /\ Unaccounted' \in 0 .. rb'.avail_to_write
      BY <1>8, <1>9, <1>10
    <2> QED BY <1>1, <1>2, <1>5, <1>8, <1>9, <2>1, <2>2, <2>3 DEF RingTypes
  <1>12. Content'
    <2>1. rb'.avail_to_read + Unaccounted' - 1 = n + s - 1
      <3>1. rb'.avail_to_read = n + s /\ Unaccounted' = 0 /\ n \in Int /\ s \in Int
        BY <1>2, <1>3, <1>6, <1>9
      <3> QED BY <3>1
    <2>2. \A i : Cell(i)' = Cell(i)
      BY <1>1, <1>5 DEF Cell
    <2>3. \A i \in 0 .. n + s - 1 : Cell(i) = Consumed + i + 1
      BY <1>1 DEF Content, n
    <2> QED BY <1>9, <2>1, <2>2, <2>3 DEF Content
  <1>13. n <= rb'.avail_to_read
    BY <1>3, <1>6
  <1> QED BY <1>9, <1>11, <1>12, <1>13 DEF RingInv, n

LEMMA ReaderKeeps ==
  ASSUME RingInv, ReaderStep
  PROVE  /\ RingInv' /\ Consumed' = Consumed /\ rb.avail_to_read <= rb'.avail_to_read
         /\ input' = input
  <1>1. /\ RingTypes /\ Content /\ rb.avail_to_read \in 0 .. Alloc
        /\ rb.avail_to_write = Alloc - rb.avail_to_read
        /\ DOMAIN reader = {"pc", "file", "pos", "local", "s"}
    BY DEF RingInv, RingTypes
  <1>2. rb.avail_to_write \in Nat /\ rb.avail_to_read <= rb.avail_to_read
    BY <1>1, Buffer
  <1>3. ASSUME UNCHANGED <<input, rb, cells>>, reader.pc # "fed", reader'.pc # "fed",
               reader'.file = reader.file, reader'.pos = reader.pos, DOMAIN reader' = DOMAIN reader,
               reader'.local \in {reader.local, rb.avail_to_write}
        PROVE  RingInv' /\ Consumed' = Consumed
    <2>1. Unaccounted' = Unaccounted /\ Consumed' = Consumed
      BY <1>3 DEF Unaccounted, Consumed
    <2>2. reader'.local \in 0 .. rb.avail_to_write
      BY <1>1, <1>2, <1>3 DEF RingTypes
    <2>3. RingTypes'
      BY <1>1, <1>3, <2>1, <2>2 DEF RingTypes
    <2>4. Content'
      BY <1>1, <1>3, <2>1 DEF Content, Cell
    <2> QED BY <2>1, <2>3, <2>4 DEF RingInv
  <1>4. CASE OpenFile
    BY <1>1, <1>2, <1>3, <1>4 DEF OpenFile
  <1>5. CASE CheckRoom
    <2>1. reader' = reader \/ reader' = [reader EXCEPT !.pc = "read"]
            \/ reader' = [reader EXCEPT !.pc = "read", !.local = rb.avail_to_write]
      BY <1>5 DEF CheckRoom
    <2>2. /\ reader.pc # "fed" /\ reader'.pc # "fed" /\ reader'.file = reader.file
          /\ reader'.pos = reader.pos /\ DOMAIN reader' = DOMAIN reader
          /\ reader'.local \in {reader.local, rb.avail_to_write}
      BY <1>1, <1>5, <2>1 DEF CheckRoom
    <2> QED BY <1>2, <1>3, <1>5, <2>2 DEF CheckRoom
  <1>6. CASE Fread
    BY <1>2, <1>6, FreadKeeps DEF Fread
  <1>7. CASE Account
    BY <1>7, AccountKeeps DEF Account
  <1>8. CASE ringbuf_mark_done
    <2>1. /\ reader.pc = "mark_done" /\ reader'.pc = "ended" /\ reader'.file = reader.file
          /\ reader'.pos = reader.pos /\ reader'.local = reader.local
          /\ DOMAIN reader' = DOMAIN reader /\ UNCHANGED <<input, cells>>
      BY <1>1, <1>8 DEF ringbuf_mark_done
    <2>2. /\ DOMAIN rb' = DOMAIN rb /\ rb'.rhead = rb.rhead /\ rb'.whead = rb.whead
          /\ rb'.avail_to_read = rb.avail_to_read /\ rb'.avail_to_write = rb.avail_to_write
      BY <1>1, <1>8 DEF ringbuf_mark_done, RingTypes
    <2>3. Unaccounted' = Unaccounted /\ Consumed' = Consumed
      BY <2>1, <2>2 DEF Unaccounted, Consumed
    <2>4. RingTypes'
      BY <1>1, <2>1, <2>2, <2>3 DEF RingTypes
    <2>5. Content'
      BY <1>1, <2>1, <2>2, <2>3 DEF Content, Cell
    <2> QED BY <1>2, <2>1, <2>2, <2>3, <2>4, <2>5 DEF RingInv
  <1> QED BY <1>4, <1>5, <1>6, <1>7, <1>8 DEF ReaderStep

(* Bytes that can be read are taken from the buffer.                         *)
LEMMA SkipKeeps ==
  ASSUME RingInv, NEW s \in 0 .. rb.avail_to_read, ringbuf_skip_get(s)
  PROVE  /\ RingInv' /\ Consumed' = Consumed + s /\ rb'.avail_to_read = rb.avail_to_read - s
         /\ input' = input
  <1> DEFINE n == rb.avail_to_read
             u == Unaccounted
  <1>1. RingTypes /\ Content /\ UNCHANGED <<input, cells, reader>> /\ Unaccounted' = u
    BY DEF RingInv, ringbuf_skip_get, Unaccounted
  <1>2. /\ rb.rhead \in 0 .. Alloc - 1 /\ n \in 0 .. Alloc /\ rb.avail_to_write = Alloc - n
        /\ rb.whead = (rb.rhead + n) % Alloc /\ s \in 0 .. n /\ u \in 0 .. Alloc - n
        /\ DOMAIN rb = {"rhead", "whead", "avail_to_read", "avail_to_write", "done"}
        /\ Consumed = reader.pos - u - n /\ Consumed \in Nat /\ reader.pos \in Nat
        /\ reader.local \in 0 .. Alloc - n
    BY <1>1 DEF RingTypes, Consumed
  <1>3. rb' = [rb EXCEPT !.rhead = (rb.rhead + s) % Alloc,
                         !.avail_to_read = (n - s) % SizeMod,
                         !.avail_to_write = (rb.avail_to_write + s) % SizeMod]
    BY DEF ringbuf_skip_get
  <1> HIDE DEF n, u
  <1>4. /\ DOMAIN rb' = DOMAIN rb /\ rb'.whead = rb.whead
        /\ rb'.rhead = (rb.rhead + s) % Alloc
        /\ rb'.avail_to_read = (n - s) % SizeMod
        /\ rb'.avail_to_write = (rb.avail_to_write + s) % SizeMod
    BY <1>2, <1>3
  <1>5. /\ n - s \in 0 .. Alloc /\ Alloc - n + s \in 0 .. Alloc /\ Alloc - n + s = Alloc - (n - s)
        /\ s \in 0 .. Alloc /\ s + (n - s) = n /\ s + (n - s) <= Alloc
    BY <1>2, Buffer
  <1>6. rb'.avail_to_read = n - s /\ rb'.avail_to_write = Alloc - (n - s)
    <2>1. (n - s) % SizeMod = n - s
      BY <1>5, FewBytes
    <2>2. (Alloc - n + s) % SizeMod = Alloc - n + s
      BY <1>5, FewBytes
    <2> QED BY <1>2, <1>4, <1>5, <2>1, <2>2
  <1>7. rb'.rhead \in 0 .. Alloc - 1 /\ rb'.whead = (rb'.rhead + (n - s)) % Alloc
    BY <1>2, <1>4, <1>5, HeadMoves
  <1>8. Consumed' = Consumed + s
    BY <1>1, <1>2, <1>5, <1>6 DEF Consumed
  <1>9. RingTypes'
    <2>1. rb'.avail_to_read \in 0 .. Alloc /\ rb'.avail_to_write = Alloc - rb'.avail_to_read
      BY <1>5, <1>6
    <2>2. reader'.local \in 0 .. rb'.avail_to_write /\ Unaccounted' \in 0 .. rb'.avail_to_write
      BY <1>1, <1>2, <1>5, <1>6, Buffer
    <2>3. Consumed' \in Nat
      BY <1>2, <1>8
    <2>4. rb'.whead = (rb'.rhead + rb'.avail_to_read) % Alloc
      BY <1>6, <1>7
    <2> QED BY <1>1, <1>2, <1>4, <1>7, <2>1, <2>2, <2>3, <2>4 DEF RingTypes
  <1>10. Content'
    <2> SUFFICES ASSUME NEW i \in 0 .. (n - s) + u - 1 PROVE Cell(i)' = Consumed + s + i + 1
      BY <1>1, <1>6, <1>8 DEF Content
    <2>1. i \in Nat /\ s + i \in 0 .. n + u - 1 /\ s + i <= Alloc - 1 /\ s + i \in Nat
      BY <1>2, <1>5, Buffer
    <2>2. Cell(s + i) = Consumed + (s + i) + 1
      BY <1>1, <2>1 DEF Content, n, u
    <2>3. (rb'.rhead + i) % Alloc = (rb.rhead + (s + i)) % Alloc
      <3>1. i \in 0 .. Alloc /\ s \in 0 .. Alloc /\ s + i <= Alloc /\ rb.rhead \in 0 .. Alloc - 1
        BY <1>2, <1>5, <2>1, Buffer
      <3>2. (((rb.rhead + s) % Alloc) + i) % Alloc = (rb.rhead + (s + i)) % Alloc
        BY <3>1, HeadMoves
      <3> QED BY <1>4, <3>2
    <2>4. Cell(i)' = Cell(s + i)
      BY <1>1, <2>3 DEF Cell
    <2> QED BY <1>2, <1>5, <2>1, <2>2, <2>4
  <1> QED BY <1>1, <1>6, <1>8, <1>9, <1>10 DEF RingInv, n

-------------------------------------------------------------------------------
(* The lines Main finds in the buffer.                                       *)

(* Main has found a line and not taken it from the buffer yet.               *)
Taken == pc[Main] \in {"schedule", "decide", "parse", "holds", "skip"}

(* Main has taken whole lines; the one it has found is in what it has seen,  *)
(* and is wanted unless it is about to be skipped.                           *)
LinesInv ==
  /\ main.avail_seen \in 0 .. rb.avail_to_read /\ main.avail_offset \in Nat
  /\ Begins(input, Consumed + 1)
  /\ ~Taken => main.nrels = LinesUntil(input, Consumed)
  /\ Taken =>
       /\ main.nl \in Nat /\ main.nl < main.avail_seen
       /\ Stream[Consumed + main.nl + 1] = "n"
       /\ \A q \in Consumed + 1 .. Consumed + main.nl : Stream[q] # "n"
       /\ main.nrels = LinesUntil(input, Consumed + 1)
       /\ pc[Main] # "skip" => Stream[Consumed + 1] # "#" /\ main.nrels - 1 \notin Unwanted

(* A slot that has been filled has in it a line with its number.             *)
SlotLines ==
  \A x \in Slots : rels[x].num # -1 =>
    rels[x].num \in Relations /\ rels[x].bytes = input.lines[rels[x].num + 1]

(* Who waits, and the numbers threads remember.                              *)
CallInv ==
  /\ sleeping \subseteq {"reader", Main}
  /\ DOMAIN bored = Levels /\ \A k \in Levels : bored[k] \subseteq Threads
  /\ \A t \in Threads : my[t].s \in 0 .. SIZE_MAX

LineByLine == RingInv /\ LinesInv /\ SlotLines /\ CallInv

(* What ringbuf_strchr() finds is in what Main has seen.                     *)
FindsSeen ==
  pc[Main] = "line" /\ main.avail_offset < main.avail_seen => ringbuf_strchr < main.avail_seen

(* Counting the lines.                                                       *)
LEMMA CountType ==
  ASSUME NEW f, NEW p \in Nat
  PROVE  /\ LinesUntil(f, p) \in Nat
         /\ IsFiniteSet({q \in 1 .. p : Begins(f, q) /\ f.bytes[q] # "#"})
  <1>1. IsFiniteSet(1 .. p)
    BY FS_Interval
  <1>2. IsFiniteSet({q \in 1 .. p : Begins(f, q) /\ f.bytes[q] # "#"})
    BY <1>1, FS_Subset
  <1> QED BY <1>2, FS_CardinalityType DEF LinesUntil

LEMMA OneMore ==
  ASSUME NEW f, NEW p \in Nat, Begins(f, p + 1)
  PROVE  LinesUntil(f, p + 1) = LinesUntil(f, p) + (IF f.bytes[p + 1] = "#" THEN 0 ELSE 1)
  <1> DEFINE S(n) == {q \in 1 .. n : Begins(f, q) /\ f.bytes[q] # "#"}
  <1>1. IsFiniteSet(S(p)) /\ Cardinality(S(p)) \in Nat
    BY CountType, FS_CardinalityType
  <1>2. 1 .. p + 1 = (1 .. p) \union {p + 1} /\ p + 1 \notin 1 .. p
    OBVIOUS
  <1>3. CASE f.bytes[p + 1] = "#"
    <2>1. S(p + 1) = S(p)
      BY <1>2, <1>3
    <2> QED BY <1>1, <1>3, <2>1 DEF LinesUntil
  <1>4. CASE f.bytes[p + 1] # "#"
    <2>1. S(p + 1) = S(p) \union {p + 1} /\ p + 1 \notin S(p)
      BY <1>2, <1>4
    <2> HIDE DEF S
    <2>2. Cardinality(S(p + 1)) = Cardinality(S(p)) + 1
      BY <1>1, <2>1, FS_AddElement
    <2> QED BY <1>4, <2>2 DEF LinesUntil, S
  <1> QED BY <1>3, <1>4

LEMMA NewLine ==
  ASSUME NEW f, NEW p \in Nat, f.bytes[p] = "n"
  PROVE  Begins(f, p + 1)
  <1>1. p + 1 - 1 = p
    OBVIOUS
  <1> QED BY <1>1 DEF Begins

LEMMA NoMore ==
  ASSUME NEW f, NEW p \in Nat, NEW n \in Nat, \A q \in p + 1 .. p + n : f.bytes[q] # "n"
  PROVE  LinesUntil(f, p + n + 1) = LinesUntil(f, p + 1)
  <1>1. ASSUME NEW q \in 1 .. p + n + 1, Begins(f, q) PROVE q \in 1 .. p + 1
    <2>1. CASE q = 1
      BY <2>1
    <2>2. CASE q # 1
      <3>1. f.bytes[q - 1] = "n"
        BY <1>1, <2>2 DEF Begins
      <3>2. q - 1 \notin p + 1 .. p + n
        BY <3>1
      <3> QED BY <2>2, <3>2
    <2> QED BY <2>1, <2>2
  <1>2. \A q \in 1 .. p + 1 : q \in 1 .. p + n + 1
    OBVIOUS
  <1>3. {q \in 1 .. p + n + 1 : Begins(f, q) /\ f.bytes[q] # "#"}
          = {q \in 1 .. p + 1 : Begins(f, q) /\ f.bytes[q] # "#"}
    BY <1>1, <1>2
  <1> QED BY <1>3 DEF LinesUntil

(* The line Main has found is a line of the input, and has its number.       *)
LEMMA LineNumber ==
  ASSUME RingInv, LinesInv, Taken, pc[Main] # "skip"
  PROVE  /\ main.nrels - 1 \in Relations
         /\ input.lines[main.nrels] = [i \in 1 .. main.nl + 1 |-> Consumed + i]
  <1> DEFINE p == Consumed + 1
             e == Consumed + main.nl + 1
  <1>1. /\ main.nl \in Nat /\ main.nl < main.avail_seen /\ main.avail_seen \in 0 .. rb.avail_to_read
        /\ Stream[e] = "n" /\ \A q \in p .. Consumed + main.nl : Stream[q] # "n"
        /\ main.nrels = LinesUntil(input, p) /\ Stream[p] # "#" /\ main.nrels - 1 \notin Unwanted
        /\ Begins(input, p)
    BY DEF LinesInv
  <1>2. /\ Consumed \in Nat /\ rb.avail_to_read \in 0 .. Alloc /\ reader.pos \in Nat
        /\ Consumed = reader.pos - Unaccounted - rb.avail_to_read
        /\ Unaccounted \in 0 .. rb.avail_to_write /\ reader.pos <= input.ends[reader.file]
        /\ reader.file \in 1 .. Len(input.ends) /\ input \in Inputs
    BY DEF RingInv, RingTypes, Consumed
  <1>3. /\ Len(input.bytes) \in Nat /\ input.ends[reader.file] \in 0 .. Len(input.bytes)
        /\ Len(input.lines) \in Nat
        /\ \A a, b \in 1 .. Len(input.bytes) :
             /\ a <= b /\ Begins(input, a) /\ input.bytes[a] # "#"
             /\ input.bytes[b] = "n" /\ \A q \in a .. b - 1 : input.bytes[q] # "n"
             => /\ LinesUntil(input, a) \in 1 .. Len(input.lines)
                /\ input.lines[LinesUntil(input, a)] = [i \in 1 .. b - a + 1 |-> a + i - 1]
    BY <1>2, InputsAssumption DEF InputsAssumption
  <1>4. e <= reader.pos
    BY <1>1, <1>2, Buffer
  <1>5. p \in 1 .. Len(input.bytes) /\ e \in 1 .. Len(input.bytes) /\ p <= e
    <2>1. input.ends[reader.file] \in Nat /\ input.ends[reader.file] <= Len(input.bytes)
      BY <1>3
    <2>2. p \in Nat /\ e \in Nat /\ p <= e /\ 1 <= p
      <3>1. main.nl \in Nat /\ Consumed \in Nat
        BY <1>1, <1>2
      <3> QED BY <3>1
    <2>3. reader.pos \in Nat /\ reader.pos <= input.ends[reader.file] /\ Len(input.bytes) \in Nat
      BY <1>2, <1>3
    <2> HIDE DEF p, e
    <2>4. e <= Len(input.bytes)
      BY <1>4, <2>1, <2>2, <2>3
    <2> QED BY <2>2, <2>3, <2>4
  <1>6. e - 1 = Consumed + main.nl /\ e - p + 1 = main.nl + 1
    BY <1>1, <1>2
  <1>7. /\ LinesUntil(input, p) \in 1 .. Len(input.lines)
        /\ input.lines[LinesUntil(input, p)] = [i \in 1 .. e - p + 1 |-> p + i - 1]
    <2> HIDE DEF p, e
    <2>1. \A q \in p .. e - 1 : input.bytes[q] # "n"
      BY <1>1, <1>6 DEF Stream
    <2> QED BY <1>1, <1>3, <1>5, <2>1 DEF Stream
  <1>8. [i \in 1 .. e - p + 1 |-> p + i - 1] = [i \in 1 .. main.nl + 1 |-> Consumed + i]
    BY <1>1, <1>2, <1>6
  <1>9. main.nrels - 1 \in 0 .. Len(input.lines) - 1
    BY <1>1, <1>3, <1>7
  <1> QED BY <1>1, <1>7, <1>8, <1>9 DEF Relations

(* A step by which Main neither finds a line nor takes one.                  *)
LEMMA SameLine ==
  ASSUME LinesInv, RingInv, input' = input, Consumed' = Consumed,
         UNCHANGED <<main.avail_seen, main.avail_offset, main.nl, main.nrels>>,
         rb'.avail_to_read \in Nat, rb.avail_to_read <= rb'.avail_to_read,
         Taken' <=> Taken, Taken /\ pc[Main] = "skip" => pc'[Main] = "skip"
  PROVE  LinesInv'
  <1>1. main'.avail_seen \in 0 .. rb'.avail_to_read
    BY Buffer DEF LinesInv, RingInv, RingTypes
  <1>2. Stream' = Stream /\ Begins(input, Consumed + 1)'
    BY DEF LinesInv, Stream
  <1>3. /\ LinesUntil(input, Consumed)' = LinesUntil(input, Consumed)
        /\ LinesUntil(input, Consumed + 1)' = LinesUntil(input, Consumed + 1)
    OBVIOUS
  <1> QED BY <1>1, <1>2, <1>3 DEF LinesInv

(* Main finds the next line, or waits for one.                               *)
LEMMA FindKeeps ==
  ASSUME IInv, RingInv, LinesInv, FindsSeen, FindLine
  PROVE  LinesInv'
  <1>1. /\ pc[Main] = "line" /\ UNCHANGED <<input, rb, cells, reader>> /\ ~Taken
        /\ pc \in [Threads -> Labels] /\ Main \in Threads
        /\ DOMAIN main = MainFields /\ main.nrels \in Nat
    BY Types DEF FindLine, At, ringVars, Taken
  <1>2. Consumed' = Consumed /\ Consumed \in Nat /\ rb.avail_to_read \in 0 .. Alloc /\ Stream' = Stream
    BY <1>1 DEF Consumed, Unaccounted, RingInv, RingTypes, Stream
  <1>3. CASE Goto(Main, "wait") /\ UNCHANGED main
    <2>1. pc'[Main] = "wait"
      BY <1>1, <1>3 DEF Goto
    <2>2. ~Taken'
      BY <2>1 DEF Taken
    <2>3. rb'.avail_to_read \in Nat /\ rb.avail_to_read <= rb'.avail_to_read
      BY <1>1, <1>2, Buffer
    <2> QED BY <1>1, <1>2, <1>3, <2>2, <2>3, SameLine
  <1>4. CASE /\ main.avail_offset < main.avail_seen /\ ringbuf_strchr > 0
             /\ LET comment == Stream[Cell(0)] = "#"
                IN /\ main' = [main EXCEPT !.nl = ringbuf_strchr,
                                           !.nrels = IF comment THEN @ ELSE @ + 1]
                   /\ Goto(Main, IF comment \/ main.nrels \in Unwanted
                                 THEN "skip" ELSE "schedule")
    <2> DEFINE nl == ringbuf_strchr
               tail == Alloc - rb.rhead
               rest == (rb.avail_to_read - tail) % SizeMod
               found == {s \in 0 .. Alloc - 1 :
                           /\ s < tail \/ s - tail < rest
                           /\ IsNewline(Cell(s))}
    <2>1. nl = IF found = {} THEN -1 ELSE Min(found)
      BY DEF ringbuf_strchr
    <2>2. found \in SUBSET Nat /\ found # {} /\ nl = Min(found)
      <3>1. found # {}
        <4> HIDE DEF found
        <4> QED BY <1>4, <2>1
      <3>2. found \in SUBSET Nat
        BY Buffer
      <3> QED BY <2>1, <3>1, <3>2
    <2>3. nl \in found /\ \A x \in found : nl <= x
      <3> HIDE DEF found, nl
      <3> QED BY <2>2, LeastOf
    <2>4. nl \in Nat /\ nl < main.avail_seen /\ nl < rb.avail_to_read
      <3>1. nl < main.avail_seen
        BY <1>1, <1>4 DEF FindsSeen
      <3>2. nl \in Nat
        BY <2>2, <2>3
      <3>3. main.avail_seen \in 0 .. rb.avail_to_read
        BY DEF LinesInv
      <3> HIDE DEF nl
      <3> QED BY <1>2, <3>1, <3>2, <3>3, Buffer
    <2>5. ASSUME NEW i \in 0 .. rb.avail_to_read - 1 PROVE Cell(i) = Consumed + i + 1
      <3>1. Unaccounted \in Nat
        BY <1>2, Buffer DEF RingInv, RingTypes
      <3>2. i \in 0 .. rb.avail_to_read + Unaccounted - 1
        BY <1>2, <3>1, Buffer
      <3> QED BY <3>2 DEF RingInv, Content
    <2>6. Stream[Consumed + nl + 1] = "n"
      <3>1. IsNewline(Cell(nl))
        BY <2>3
      <3>2. Cell(nl) = Consumed + nl + 1
        <4> HIDE DEF nl
        <4>1. nl \in 0 .. rb.avail_to_read - 1
          BY <1>2, <2>4, Buffer
        <4> QED BY <2>5, <4>1
      <3> QED BY <3>1, <3>2 DEF IsNewline
    <2>7. ASSUME NEW q \in Consumed + 1 .. Consumed + nl PROVE Stream[q] # "n"
      <3> SUFFICES ASSUME Stream[q] = "n" PROVE FALSE
        OBVIOUS
      <3> DEFINE i == q - Consumed - 1
      <3>1. i \in 0 .. rb.avail_to_read - 1 /\ i < nl /\ q = Consumed + i + 1 /\ q # 0 /\ i \in 0 .. Alloc - 1
        <4> HIDE DEF nl
        <4> QED BY <1>2, <2>4, Buffer
      <3> HIDE DEF i
      <3>2. Cell(i) = q
        BY <2>5, <3>1
      <3>3. IsNewline(Cell(i))
        BY <3>1, <3>2 DEF IsNewline
      <3>4. i < tail \/ i - tail < rest
        <4>1. rb.rhead \in 0 .. Alloc - 1
          BY DEF RingInv, RingTypes
        <4>2. CASE tail <= i
          <5>1. rb.avail_to_read - tail \in 0 .. Alloc
            BY <1>2, <3>1, <4>1, <4>2, Buffer
          <5>2. rest = rb.avail_to_read - tail
            BY <5>1, FewBytes
          <5> QED BY <1>2, <3>1, <4>1, <5>2, Buffer
        <4> QED BY <3>1, <4>1, <4>2, Buffer
      <3>5. i \in found
        BY <3>1, <3>3, <3>4
      <3>6. nl <= i
        BY <2>3, <3>5
      <3> HIDE DEF nl
      <3> QED BY <2>4, <3>1, <3>6
    <2>8. Cell(0) = Consumed + 1
      <3>1. 0 \in 0 .. rb.avail_to_read - 1
        <4> HIDE DEF nl
        <4> QED BY <1>2, <2>4, Buffer
      <3> QED BY <1>2, <2>5, <3>1
    <2> DEFINE comment == Stream[Consumed + 1] = "#"
    <2>9. /\ main'.nl = nl /\ main'.nrels = IF comment THEN main.nrels ELSE main.nrels + 1
          /\ main'.avail_seen = main.avail_seen /\ main'.avail_offset = main.avail_offset
          /\ pc'[Main] = IF comment \/ main.nrels \in Unwanted THEN "skip" ELSE "schedule"
      <3> HIDE DEF nl
      <3>1. main' = [main EXCEPT !.nl = nl, !.nrels = IF comment THEN main.nrels ELSE main.nrels + 1]
        BY <1>4, <2>8 DEF nl
      <3>2. pc' = [pc EXCEPT ![Main] = IF comment \/ main.nrels \in Unwanted THEN "skip" ELSE "schedule"]
        BY <1>4, <2>8 DEF Goto
      <3> HIDE DEF comment
      <3> QED BY <1>1, <3>1, <3>2 DEF MainFields
    <2>10. main'.nrels = LinesUntil(input, Consumed + 1)
      <3>1. main.nrels = LinesUntil(input, Consumed) /\ Begins(input, Consumed + 1)
        BY <1>1 DEF LinesInv
      <3>2. LinesUntil(input, Consumed + 1) = LinesUntil(input, Consumed) + (IF comment THEN 0 ELSE 1)
        BY <1>2, <3>1, OneMore DEF Stream
      <3> HIDE DEF comment
      <3> QED BY <1>1, <2>9, <3>1, <3>2
    <2>11. pc'[Main] # "skip" => ~comment /\ main'.nrels - 1 \notin Unwanted
      <3> HIDE DEF comment
      <3> QED BY <1>1, <2>9
    <2>12. Taken' /\ main'.avail_seen \in 0 .. rb.avail_to_read /\ main'.avail_offset \in Nat
           /\ Begins(input, Consumed + 1)
      <3>1. pc'[Main] \in {"skip", "schedule"}
        BY <2>9
      <3> QED BY <2>9, <3>1 DEF LinesInv, Taken
    <2>13. main'.nl \in Nat /\ main'.nl < main'.avail_seen
      <3> HIDE DEF nl
      <3> QED BY <2>4, <2>9
    <2>14. Stream[Consumed + main'.nl + 1] = "n" /\ \A q \in Consumed + 1 .. Consumed + main'.nl : Stream[q] # "n"
      BY <2>6, <2>7, <2>9
    <2> HIDE DEF nl, found
    <2> QED BY <1>1, <1>2, <2>10, <2>11, <2>12, <2>13, <2>14 DEF LinesInv
  <1> QED BY <1>3, <1>4 DEF FindLine

(* Main takes the line it has found.                                         *)
LEMMA TakeKeeps ==
  ASSUME IInv, RingInv, LinesInv, SkipLine
  PROVE  RingInv' /\ LinesInv'
  <1> DEFINE n == main.nl + 1
  <1>1. /\ pc[Main] = "skip" /\ ringbuf_skip_get(n) /\ Taken
        /\ main' = [main EXCEPT !.avail_seen = (main.avail_seen - n) % SizeMod,
                                !.avail_offset = main.avail_offset + main.nl + 1]
        /\ pc' = [pc EXCEPT ![Main] = "line"]
        /\ pc \in [Threads -> Labels] /\ Main \in Threads
        /\ DOMAIN main = MainFields /\ main.nrels \in Nat
    BY Types DEF SkipLine, At, Goto, Taken
  <1>2. /\ main.avail_seen \in 0 .. rb.avail_to_read /\ main.avail_offset \in Nat
        /\ main.nl \in Nat /\ main.nl < main.avail_seen
        /\ Stream[Consumed + main.nl + 1] = "n"
        /\ \A q \in Consumed + 1 .. Consumed + main.nl : Stream[q] # "n"
        /\ main.nrels = LinesUntil(input, Consumed + 1)
    BY <1>1 DEF LinesInv
  <1>3. Consumed \in Nat /\ rb.avail_to_read \in 0 .. Alloc
    BY DEF RingInv, RingTypes
  <1>4. n \in Nat /\ n \in 0 .. rb.avail_to_read /\ main.avail_seen - n \in 0 .. Alloc
        /\ main.avail_seen - n \in 0 .. rb.avail_to_read - n
    BY <1>2, <1>3, Buffer
  <1>5. /\ RingInv' /\ Consumed' = Consumed + n /\ rb'.avail_to_read = rb.avail_to_read - n
        /\ input' = input
    <2> HIDE DEF n
    <2> QED BY <1>1, <1>4, SkipKeeps
  <1>6. /\ main'.avail_seen = (main.avail_seen - n) % SizeMod /\ main'.nrels = main.nrels
        /\ main'.avail_offset = main.avail_offset + main.nl + 1 /\ pc'[Main] = "line"
    BY <1>1 DEF MainFields
  <1>7. main'.avail_seen \in 0 .. rb'.avail_to_read /\ main'.avail_offset \in Nat
    <2>1. (main.avail_seen - n) % SizeMod = main.avail_seen - n
      BY <1>4, FewBytes
    <2> QED BY <1>2, <1>4, <1>5, <1>6, <2>1
  <1>8. Begins(input, Consumed' + 1) /\ Consumed' = Consumed + main.nl + 1
    <2>1. Consumed' = Consumed + main.nl + 1 /\ Consumed' + 1 - 1 = Consumed + main.nl + 1
      BY <1>2, <1>3, <1>5
    <2>2. Consumed' \in Nat /\ input.bytes[Consumed'] = "n"
      BY <1>2, <1>3, <2>1 DEF Stream
    <2> QED BY <2>1, <2>2, NewLine
  <1>9. main'.nrels = LinesUntil(input, Consumed')
    <2>1. \A q \in Consumed + 1 .. Consumed + main.nl : input.bytes[q] # "n"
      BY <1>2 DEF Stream
    <2>2. LinesUntil(input, Consumed + main.nl + 1) = LinesUntil(input, Consumed + 1)
      BY <1>2, <1>3, <2>1, NoMore
    <2> QED BY <1>2, <1>6, <1>8, <2>2
  <1>10. ~Taken'
    BY <1>6 DEF Taken
  <1>11. LinesInv'
    BY <1>5, <1>7, <1>8, <1>9, <1>10 DEF LinesInv
  <1> QED BY <1>5, <1>11

(* The threads change neither the buffer nor what Main knows of its lines.   *)
LEMMA ThreadMoves ==
  ASSUME IInv, IInv', NEW t \in Threads, ThreadStep(t)
  PROVE  /\ UNCHANGED <<ringVars, main>> /\ (Taken' <=> Taken)
         /\ Taken /\ pc[Main] = "skip" => pc'[Main] = "skip"
  <1>1. UNCHANGED <<ringVars, main>>
    BY DEF ThreadStep, EnterPipe, AllEntered, schedule, ScheduleUnlocked, LeaveLevel, complete
  <1>2. /\ pc \in [Threads -> Labels] /\ Main \in Threads /\ LevelOf(Main) = 0
        /\ pc[Main] # "leave" /\ pc'[Main] # "leave"
    BY Types DEF IInv, PipeTypes, MainLabels
  <1>3. pc' = pc \/ \E l : Goto(t, l)
    BY DEF ThreadStep, EnterPipe, AllEntered, schedule, ScheduleUnlocked, LeaveLevel, complete, Decide
  <1>4. CASE t # Main
    <2>1. pc'[Main] = pc[Main]
      BY <1>2, <1>3, <1>4 DEF Goto
    <2> QED BY <1>1, <2>1 DEF Taken
  <1>5. CASE t = Main
    <2>1. \A l : Goto(t, l) => pc'[Main] = l
      BY <1>2, <1>5 DEF Goto
    <2>2. CASE EnterPipe(t)
      BY <1>1, <1>5, <2>1, <2>2 DEF EnterPipe, At, Taken
    <2>3. CASE AllEntered(t)
      BY <1>1, <1>5, <2>1, <2>3 DEF AllEntered, At, Taken
    <2>4. CASE schedule(t) \/ ScheduleUnlocked(t)
      <3>1. pc[Main] \in {"schedule", "decide"}
        BY <1>5, <2>4 DEF schedule, ScheduleUnlocked, At
      <3>2. pc'[Main] \in {"schedule", "decide", "parse", "leave"}
        BY <1>5, <2>1, <2>4, <3>1 DEF schedule, ScheduleUnlocked, Decide, Granted
      <3> QED BY <1>1, <1>2, <3>1, <3>2 DEF Taken
    <2>5. CASE LeaveLevel(t)
      BY <1>2, <1>5, <2>5 DEF LeaveLevel, At
    <2>6. CASE complete(t)
      BY <1>1, <1>5, <2>1, <2>6 DEF complete, At, Taken
    <2> QED BY <2>2, <2>3, <2>4, <2>5, <2>6 DEF ThreadStep
  <1> QED BY <1>4, <1>5

(* A step that leaves the buffer as it is.                                   *)
LEMMA SameRing ==
  ASSUME RingInv, UNCHANGED <<input, rb, cells, reader>>
  PROVE  /\ RingInv' /\ Consumed' = Consumed /\ input' = input
         /\ rb'.avail_to_read \in Nat /\ rb.avail_to_read <= rb'.avail_to_read
  <1>1. Unaccounted' = Unaccounted
    BY DEF Unaccounted
  <1>2. Consumed' = Consumed
    BY <1>1 DEF Consumed
  <1>3. RingTypes'
    BY <1>1, <1>2 DEF RingInv, RingTypes
  <1>4. Content'
    BY <1>1, <1>2 DEF RingInv, Content, Cell
  <1>5. rb.avail_to_read \in 0 .. Alloc
    BY DEF RingInv, RingTypes
  <1> QED BY <1>2, <1>3, <1>4, <1>5, Buffer DEF RingInv

(* The lines, step by step.                                                  *)
LEMMA LinesStep ==
  ASSUME IInv, IInv', FindsSeen, RingInv, LinesInv, [Next]_vars
  PROVE  RingInv' /\ LinesInv'
  <1>1. CASE Read
    <2>1. /\ RingInv' /\ Consumed' = Consumed /\ rb.avail_to_read <= rb'.avail_to_read
          /\ input' = input
      BY <1>1, ReaderKeeps DEF Read
    <2>2. rb'.avail_to_read \in Nat
      BY <2>1, Buffer DEF RingInv, RingTypes
    <2>3. UNCHANGED <<pc, main>> /\ (Taken' <=> Taken)
      BY <1>1 DEF Read, Taken
    <2> QED BY <2>1, <2>2, <2>3, SameLine
  <1>2. ASSUME NEW t \in Threads, ThreadStep(t) PROVE RingInv' /\ LinesInv'
    <2>1. /\ UNCHANGED <<input, rb, cells, reader, main>> /\ (Taken' <=> Taken)
          /\ Taken /\ pc[Main] = "skip" => pc'[Main] = "skip"
      BY <1>2, ThreadMoves DEF ringVars
    <2>2. /\ RingInv' /\ Consumed' = Consumed /\ input' = input
          /\ rb'.avail_to_read \in Nat /\ rb.avail_to_read <= rb'.avail_to_read
      BY <2>1, SameRing
    <2> QED BY <2>1, <2>2, SameLine
  <1>3. ASSUME UNCHANGED vars PROVE RingInv' /\ LinesInv'
    <2>1. /\ UNCHANGED <<input, rb, cells, reader, main, pc>> /\ (Taken' <=> Taken)
      BY <1>3 DEF vars, ringVars, Taken
    <2>2. /\ RingInv' /\ Consumed' = Consumed /\ input' = input
          /\ rb'.avail_to_read \in Nat /\ rb.avail_to_read <= rb'.avail_to_read
      BY <2>1, SameRing
    <2> QED BY <2>1, <2>2, SameLine
  <1>4. ASSUME MainStep PROVE RingInv' /\ LinesInv'
    <2>1. CASE SkipLine
      BY <2>1, TakeKeeps
    <2>2. ASSUME ~SkipLine
          PROVE  /\ RingInv' /\ Consumed' = Consumed /\ input' = input
                 /\ rb'.avail_to_read \in Nat /\ rb.avail_to_read <= rb'.avail_to_read
      <3>1. UNCHANGED <<input, rb, cells, reader>>
        BY <1>4, <2>2 DEF MainStep, WaitForData, FindLine, Parse, StartDrain, DrainLevel, JoinAll, ringVars
      <3> QED BY <3>1, SameRing
    <2>3. CASE FindLine
      <3>1. UNCHANGED <<input, rb, cells, reader>>
        BY <2>3 DEF FindLine, ringVars
      <3> QED BY <2>3, <3>1, SameRing, FindKeeps
    <2>t. /\ pc \in [Threads -> Labels] /\ Main \in Threads /\ DOMAIN main = MainFields
      BY Types
    <2>u. \A l : Goto(Main, l) => pc'[Main] = l
      BY <2>t DEF Goto
    <2>4. CASE WaitForData
      <3>1. ~SkipLine
        BY <2>4 DEF WaitForData, SkipLine, At
      <3>2. CASE UNCHANGED <<pc, main>>
        <4>1. Taken' <=> Taken
          BY <3>2 DEF Taken
        <4> QED BY <2>2, <3>1, <3>2, <4>1, SameLine
      <3>3. CASE ~UNCHANGED <<pc, main>>
        <4>1. /\ main' = [main EXCEPT !.avail_seen = rb.avail_to_read, !.avail_offset = 0]
              /\ pc[Main] = "wait" /\ pc'[Main] \in {"drain_first", "line"} /\ UNCHANGED <<input, rb>>
          BY <2>4, <2>u, <3>3 DEF WaitForData, At
        <4>2. main'.avail_seen = rb.avail_to_read /\ main'.avail_offset = 0 /\ main'.nrels = main.nrels
          BY <2>t, <4>1 DEF MainFields
        <4>3. ~Taken /\ ~Taken'
          BY <4>1 DEF Taken
        <4>4. /\ RingInv' /\ Consumed' = Consumed /\ input' = input /\ rb.avail_to_read \in Nat
          BY <2>2, <3>1, <4>1
        <4>5. main'.avail_seen \in 0 .. rb'.avail_to_read /\ main'.avail_offset \in Nat
          BY <4>1, <4>2, <4>4
        <4>6. Begins(input, Consumed + 1) /\ main.nrels = LinesUntil(input, Consumed)
          BY <4>3 DEF LinesInv
        <4> QED BY <4>2, <4>3, <4>4, <4>5, <4>6 DEF LinesInv
      <3> QED BY <3>2, <3>3
    <2>5. CASE Parse \/ StartDrain \/ DrainLevel \/ JoinAll
      <3>1. ~SkipLine
        BY <2>5 DEF Parse, StartDrain, DrainLevel, JoinAll, SkipLine, At
      <3>2. UNCHANGED <<main.avail_seen, main.avail_offset, main.nl, main.nrels>>
        BY <2>5, <2>t DEF Parse, StartDrain, DrainLevel, JoinAll, MainFields
      <3>3. (Taken' <=> Taken) /\ (Taken /\ pc[Main] = "skip" => pc'[Main] = "skip")
        <4>1. CASE Parse
          BY <2>u, <4>1 DEF Parse, At, Taken
        <4>2. CASE StartDrain
          BY <2>u, <4>2 DEF StartDrain, At, Taken
        <4>3. CASE DrainLevel
          BY <2>u, <4>3 DEF DrainLevel, Drain, At, Taken
        <4>4. CASE JoinAll
          BY <2>u, <4>4 DEF JoinAll, At, Taken
        <4> QED BY <2>5, <4>1, <4>2, <4>3, <4>4
      <3> QED BY <2>2, <3>1, <3>2, <3>3, SameLine
    <2> QED BY <1>4, <2>1, <2>3, <2>4, <2>5 DEF MainStep
  <1> QED BY <1>1, <1>2, <1>3, <1>4 DEF Next, Ended

(* A slot is filled with the line Main has found.                            *)
LEMMA SlotLinesStep ==
  ASSUME IInv, RingInv, LinesInv, SlotLines, [Next]_vars
  PROVE  SlotLines'
  <1>1. input' = input
    <2>1. CASE Read
      BY <2>1 DEF Read, ReaderStep, OpenFile, CheckRoom, Fread, Account, ringbuf_mark_done
    <2>2. CASE MainStep
      BY <2>2 DEF MainStep, WaitForData, FindLine, Parse, SkipLine, StartDrain, DrainLevel, JoinAll,
                  ringVars, ringbuf_skip_get
    <2>3. ASSUME NEW t \in Threads, ThreadStep(t) PROVE input' = input
      BY <2>3 DEF ThreadStep, EnterPipe, AllEntered, schedule, ScheduleUnlocked, LeaveLevel, complete,
                  ringVars
    <2> QED BY <2>1, <2>2, <2>3 DEF Next, Ended, vars, ringVars
  <1>2. Relations' = Relations /\ Slots' = Slots
    BY <1>1 DEF Relations, Slots
  <1>3. CASE Parse
    <2>1. /\ pc[Main] = "parse" /\ UNCHANGED <<main>>
          /\ rels' = [rels EXCEPT ![my[Main].slot] =
               [num |-> main.nrels - 1, bytes |-> [i \in 1 .. main.nl + 1 |-> Cell(i - 1)]]]
      BY <1>3 DEF Parse, At
    <2>2. Taken /\ pc[Main] # "skip"
      BY <2>1 DEF Taken
    <2>3. /\ main.nrels - 1 \in Relations /\ main.nrels \in Nat
          /\ input.lines[main.nrels] = [i \in 1 .. main.nl + 1 |-> Consumed + i]
      BY <2>2, LineNumber, Types
    <2>4. [i \in 1 .. main.nl + 1 |-> Cell(i - 1)] = [i \in 1 .. main.nl + 1 |-> Consumed + i]
      <3> SUFFICES ASSUME NEW i \in 1 .. main.nl + 1 PROVE Cell(i - 1) = Consumed + i
        OBVIOUS
      <3>1. /\ main.nl \in Nat /\ main.nl < main.avail_seen /\ main.avail_seen \in 0 .. rb.avail_to_read
        BY <2>2 DEF LinesInv
      <3>2. /\ rb.avail_to_read \in 0 .. Alloc /\ rb.avail_to_write = Alloc - rb.avail_to_read
            /\ Unaccounted \in 0 .. rb.avail_to_write /\ Consumed \in Nat
        BY DEF RingInv, RingTypes
      <3>3. i - 1 \in 0 .. rb.avail_to_read + Unaccounted - 1 /\ i \in Int
        BY <3>1, <3>2, Buffer
      <3>4. Cell(i - 1) = Consumed + (i - 1) + 1
        BY <3>3 DEF RingInv, Content
      <3> QED BY <3>2, <3>3, <3>4
    <2>5. rels = [x \in Slots |-> rels[x]]
      BY Types
    <2>6. ASSUME NEW x \in Slots, rels'[x].num # -1
          PROVE  rels'[x].num \in Relations /\ rels'[x].bytes = input.lines[rels'[x].num + 1]
      <3>1. CASE x = my[Main].slot
        <4>1. rels'[x] = [num |-> main.nrels - 1, bytes |-> [i \in 1 .. main.nl + 1 |-> Cell(i - 1)]]
          BY <2>1, <2>5, <3>1
        <4>2. main.nrels - 1 + 1 = main.nrels
          BY <2>3
        <4>3. /\ rels'[x].num = main.nrels - 1
              /\ rels'[x].bytes = [i \in 1 .. main.nl + 1 |-> Cell(i - 1)]
          BY <4>1
        <4> QED BY <2>3, <2>4, <4>2, <4>3, Zenon
      <3>2. CASE x # my[Main].slot
        <4>1. rels'[x] = rels[x]
          BY <2>1, <2>5, <3>2
        <4> QED BY <2>6, <4>1 DEF SlotLines
      <3> QED BY <3>1, <3>2
    <2> QED BY <1>1, <1>2, <2>6 DEF SlotLines
  <1>4. CASE ~Parse
    <2>1. UNCHANGED rels
      <3>1. CASE MainStep
        BY <1>4, <3>1 DEF MainStep, WaitForData, FindLine, SkipLine, StartDrain, DrainLevel, JoinAll
      <3>2. ASSUME NEW t \in Threads, ThreadStep(t) PROVE UNCHANGED rels
        BY <3>2 DEF ThreadStep, EnterPipe, AllEntered, schedule, ScheduleUnlocked, LeaveLevel, complete
      <3> QED BY <3>1, <3>2 DEF Next, Read, Ended, vars
    <2> QED BY <1>1, <1>2, <2>1 DEF SlotLines
  <1> QED BY <1>3, <1>4

(* Who waits on a level.                                                     *)
Waiters == DOMAIN bored = Levels /\ \A k \in Levels : bored[k] \subseteq Threads
LEMMA WaitersKept ==
  ASSUME Waiters, UNCHANGED setup,
         \/ UNCHANGED bored
         \/ \E k : Broadcast(k)
         \/ \E k : \E t \in Threads : WaitOn(t, k)
  PROVE  Waiters'
  <1>1. Threads' = Threads /\ Levels' = Levels
    BY Frame
  <1>2. CASE UNCHANGED bored
    BY <1>1, <1>2 DEF Waiters
  <1>3. ASSUME NEW k, Broadcast(k) PROVE Waiters'
    BY <1>1, <1>3 DEF Waiters, Broadcast
  <1>4. ASSUME NEW k, NEW t \in Threads, WaitOn(t, k) PROVE Waiters'
    BY <1>1, <1>4 DEF Waiters, WaitOn
  <1> QED BY <1>2, <1>3, <1>4

LEMMA CallStep ==
  ASSUME IInv, FewLines, CallInv, [Next]_vars
  PROVE  CallInv'
  <1>1. Waiters /\ Main \in Threads
    BY Types DEF CallInv, Waiters
  <1>2. /\ my \in [Threads -> [slot : Slots, s : Nat]]
        /\ \A t \in Threads : LevelOf(t) \in Levels
    BY Types
  <1>3. ASSUME NEW t \in Threads, ThreadStep(t) PROVE CallInv'
    <2>1. UNCHANGED sleeping /\ UNCHANGED setup
      BY <1>3 DEF ThreadStep, EnterPipe, AllEntered, schedule, ScheduleUnlocked, LeaveLevel, complete,
                  ringVars, Enter, inflightVars, Decide, Take, WaitForWork, Leave, Complete
    <2>2. \/ UNCHANGED bored
          \/ \E k : Broadcast(k)
          \/ \E k : \E u \in Threads : WaitOn(u, k)
      BY <1>3 DEF ThreadStep, EnterPipe, AllEntered, schedule, ScheduleUnlocked, LeaveLevel, complete,
                  Enter, inflightVars, Decide, Take, WaitForWork, Leave, Complete
    <2>3. Waiters'
      BY <1>1, <2>1, <2>2, WaitersKept
    <2>4. scheduled[LevelOf(t)] \in 0 .. SIZE_MAX
      <3>1. scheduled[LevelOf(t)] \in Nat /\ scheduled[LevelOf(t)] + SizeBuf < UIntMod
        BY <1>2, NoOverflow
      <3> QED BY <3>1, Sizes
    <2>5. \/ UNCHANGED my
          \/ my' = [my EXCEPT ![t].s = scheduled[LevelOf(t)]]
          \/ my' = [my EXCEPT ![t] = [slot |-> SlotOf(scheduled[LevelOf(t)]),
                                      s |-> scheduled[LevelOf(t)]]]
      BY <1>3 DEF ThreadStep, EnterPipe, AllEntered, schedule, ScheduleUnlocked, LeaveLevel, complete,
                  Decide
    <2>6. ASSUME NEW u \in Threads PROVE my'[u].s \in 0 .. SIZE_MAX
      <3>1. my[u].s \in 0 .. SIZE_MAX
        BY DEF CallInv
      <3>2. CASE u # t
        BY <1>2, <2>5, <3>1, <3>2
      <3>3. CASE u = t
        BY <1>2, <2>4, <2>5, <3>1, <3>3
      <3> QED BY <3>2, <3>3
    <2>7. Threads' = Threads /\ SIZE_MAX' = SIZE_MAX
      BY <2>1, Frame DEF SIZE_MAX
    <2> QED BY <2>1, <2>3, <2>6, <2>7 DEF CallInv, Waiters
  <1>4. ASSUME Read \/ MainStep \/ UNCHANGED vars PROVE CallInv'
    <2>1. UNCHANGED <<setup, my>>
      BY <1>4 DEF Read, MainStep, WaitForData, FindLine, Parse, SkipLine, StartDrain, DrainLevel, JoinAll,
                  inflightVars, vars, LeaveMain, Drain
    <2>2. \/ UNCHANGED bored
          \/ \E k : Broadcast(k)
          \/ \E k : \E u \in Threads : WaitOn(u, k)
      BY <1>1, <1>4 DEF Read, MainStep, WaitForData, FindLine, Parse, SkipLine, StartDrain, DrainLevel,
                  JoinAll, inflightVars, vars, LeaveMain, Drain
    <2>3. Waiters' /\ Threads' = Threads /\ SIZE_MAX' = SIZE_MAX
      BY <1>1, <2>1, <2>2, WaitersKept, Frame DEF SIZE_MAX
    <2>4. sleeping' \subseteq {"reader", Main}
      <3>1. sleeping \subseteq {"reader", Main}
        BY DEF CallInv
      <3>2. Signal => sleeping' \subseteq {"reader", Main}
        BY <3>1 DEF Signal
      <3>3. CASE Read
        BY <3>1, <3>2, <3>3 DEF Read, ReaderStep, OpenFile, CheckRoom, Fread, Account, ringbuf_mark_done
      <3>4. CASE MainStep
        BY <3>1, <3>2, <3>4 DEF MainStep, WaitForData, FindLine, Parse, SkipLine, StartDrain, DrainLevel,
                  JoinAll, ringVars, ringbuf_skip_get
      <3> QED BY <1>4, <3>1, <3>3, <3>4 DEF vars, ringVars
    <2> QED BY <2>1, <2>3, <2>4 DEF CallInv, Waiters
  <1> QED BY <1>3, <1>4 DEF Next, Ended

(* Nothing has been read in the initial states.                              *)
LEMMA LinesInit == Init => LineByLine
  <1> SUFFICES ASSUME Init PROVE LineByLine
    OBVIOUS
  <1>1. /\ input \in Inputs
        /\ rb = [rhead |-> 0, whead |-> 0, avail_to_read |-> 0, avail_to_write |-> Alloc, done |-> FALSE]
        /\ cells = [i \in 0 .. Alloc - 1 |-> 0] /\ sleeping = {}
        /\ reader = [pc |-> "open", file |-> 1, pos |-> 0, local |-> 0, s |-> 0]
        /\ main = [avail_seen |-> 0, avail_offset |-> 0, nl |-> 0, nrels |-> 0, k |-> 0]
        /\ pc = [t \in Threads |-> "enter"] /\ my = [t \in Threads |-> [slot |-> 0, s |-> 0]]
        /\ rels = [s \in Slots |-> [num |-> -1, bytes |-> <<>>]] /\ bored = [k \in Levels |-> {}]
    BY DEF Init, RingInit, InflightInit
  <1>2. Unaccounted = 0 /\ Consumed = 0
    BY <1>1 DEF Unaccounted, Consumed
  <1>3. /\ Len(input.ends) \in Nat \ {0} /\ input.ends[1] \in 0 .. Len(input.bytes)
        /\ Len(input.bytes) \in Nat
    <2>1. Len(input.ends) \in Nat \ {0}
      BY <1>1, InputsAssumption DEF InputsAssumption
    <2>2. 1 \in 1 .. Len(input.ends)
      BY <2>1
    <2> QED BY <1>1, <2>1, <2>2, InputsAssumption DEF InputsAssumption
  <1>4. RingTypes
    <2>1. 0 % Alloc = 0
      <3>1. 0 \in Int /\ -Alloc <= 0 /\ 0 < 2 * Alloc
        BY Buffer
      <3> QED BY <3>1, Wrapped, Buffer
    <2>2. 1 \in 1 .. Len(input.ends) /\ 0 <= input.ends[1]
      BY <1>3
    <2>3. 0 \in 0 .. Alloc /\ 0 \in 0 .. Alloc - 1 /\ Alloc - 0 = Alloc /\ 0 + 0 = 0
      BY Buffer
    <2> QED BY <1>1, <1>2, <2>1, <2>2, <2>3 DEF RingTypes
  <1>5. Content
    BY <1>1, <1>2 DEF Content
  <1>6. LinesInv
    <2>1. Begins(input, 0 + 1)
      BY DEF Begins
    <2>2. LinesUntil(input, 0) = 0
      <3>1. {q \in 1 .. 0 : Begins(input, q) /\ input.bytes[q] # "#"} = {}
        OBVIOUS
      <3> QED BY <3>1, FS_EmptySet DEF LinesUntil
    <2>3. ~Taken
      BY <1>1 DEF Taken, Threads
    <2> QED BY <1>1, <1>2, <2>1, <2>2, <2>3 DEF LinesInv
  <1>7. SlotLines
    BY <1>1 DEF SlotLines
  <1>8. CallInv
    BY <1>1, Sizes DEF CallInv
  <1> QED BY <1>4, <1>5, <1>6, <1>7, <1>8 DEF LineByLine, RingInv

LEMMA LineStep ==
  ASSUME IInv, IInv', FewLines, FindsSeen, LineByLine, [Next]_vars
  PROVE  LineByLine'
  BY LinesStep, SlotLinesStep, CallStep DEF LineByLine

(* As long as ringbuf_strchr() finds what Main has seen, the buffer holds    *)
(* the bytes that follow those taken, Main takes them line by line, and what *)
(* is in a slot is a line with its number: the reading thread, which writes  *)
(* without the lock, overwrites nothing that is still to be read.            *)
THEOREM LinesKept == Spec /\ []FewLines /\ []FindsSeen => []LineByLine
  <1>1. Init => LineByLine
    BY LinesInit
  <1>2. IInv /\ IInv' /\ FewLines /\ FindsSeen /\ LineByLine /\ [Next]_vars => LineByLine'
    BY LineStep
  <1> QED BY <1>1, <1>2, PipeInvariant, PTL DEF Spec

(* The counters of the ring buffer then account for all of it, and what Main *)
(* believes that it has seen can be read.                                    *)
THEOREM TypesKept == Spec /\ []FewLines /\ []FindsSeen => []TypeOK
  <1>1. ASSUME IInv, FewLines, LineByLine PROVE TypeOK
    <2>1. /\ rb.avail_to_read \in 0 .. Alloc /\ rb.avail_to_write = Alloc - rb.avail_to_read
          /\ rb.rhead \in 0 .. Alloc - 1 /\ rb.whead = (rb.rhead + rb.avail_to_read) % Alloc
      BY <1>1 DEF LineByLine, RingInv, RingTypes
    <2>2. /\ sleeping \subseteq {"reader", Main} /\ \A k \in Levels : bored[k] \subseteq Threads
          /\ \A t \in Threads : my[t].s \in 0 .. SIZE_MAX
      BY <1>1 DEF LineByLine, CallInv
    <2>3. /\ pc \in [Threads -> Labels] /\ main.k \in Levels
          /\ \A t \in Threads : my[t].slot \in Slots
      BY <1>1, Types
    <2>4. main.avail_seen \in 0 .. rb.avail_to_read
      BY <1>1 DEF LineByLine, LinesInv
    <2>5. ASSUME NEW k \in Levels PROVE active[k] \in 0 .. Cardinality(Threads)
      <3>1. IsFiniteSet(Threads) /\ Inside(k) \subseteq Threads
        BY <1>1, Parts, Team DEF Inside
      <3>2. Cardinality(Inside(k)) \in Nat /\ Cardinality(Threads) \in Nat
            /\ Cardinality(Inside(k)) <= Cardinality(Threads)
        BY <3>1, FS_Subset, FS_CardinalityType
      <3> QED BY <1>1, <3>2, InsideFinite
    <2> QED BY <2>1, <2>2, <2>3, <2>4, <2>5 DEF TypeOK
  <1>2. IInv /\ FewLines /\ LineByLine => TypeOK
    BY <1>1
  <1> QED BY <1>2, LinesKept, PipeInvariant, PTL

(* A thread that has a slot has it to itself; in it is one whole line of the *)
(* input, with its number, that its level has not seen.                      *)
THEOREM WholeLines == Spec /\ []FewLines /\ []FindsSeen => []SlotIsItsOwn
  <1>1. ASSUME IInv, LineByLine, SlotUsedOnce PROVE SlotIsItsOwn
    <2>1. ASSUME NEW t \in Threads, Holds(t)
          PROVE  /\ rels[my[t].slot].num \in Relations
                 /\ rels[my[t].slot].bytes = input.lines[rels[my[t].slot].num + 1]
      <3>1. LevelOf(t) \in Levels /\ my[t].s \in Nat /\ my[t].slot \in Slots
        BY <1>1, Types
      <3>2. Filled(my[t].s) /\ my[t].slot = SlotOf(my[t].s)
        <4>1. Working(t)
          BY <2>1 DEF Holds, Working
        <4> QED BY <1>1, <2>1, <3>1, <4>1, HeldRelation, WorkingRecent
      <3>3. rels[my[t].slot].num \in Nat
        BY <1>1, <3>1, <3>2, Parts DEF LineInv, Num
      <3>4. rels[my[t].slot].num # -1
        BY <3>3
      <3> QED BY <1>1, <3>1, <3>4 DEF LineByLine, SlotLines
    <2> QED BY <1>1, <2>1 DEF SlotIsItsOwn, SlotUsedOnce
  <1>2. IInv /\ LineByLine /\ SlotUsedOnce => SlotIsItsOwn
    BY <1>1
  <1> QED BY <1>2, LinesKept, PipeInvariant, SlotsKept, PTL

-------------------------------------------------------------------------------
(* When ringbuf_strchr() finds what Main has seen.                           *)

(* No line is longer than L, and each ends.                                  *)
LinesUpTo(L) ==
  \A f \in Inputs : \A p \in 1 .. Len(f.bytes) :
    Begins(f, p) => \E e \in p .. p + L - 1 : e <= Len(f.bytes) /\ f.bytes[e] = "n"

(* Main has begun its round with 2 * L - 2 bytes or with whole lines.        *)
RoundsSee(L) ==
  pc[Main] = "line" /\ main.avail_offset < main.avail_seen =>
    \/ main.avail_seen + main.avail_offset >= 2 * L - 2
    \/ Stream[Consumed + main.avail_seen] = "n"

LEMMA RoundFinds ==
  ASSUME NEW L \in Nat, LinesUpTo(L), RingInv, LinesInv, RoundsSee(L)
  PROVE  FindsSeen
  <1> SUFFICES ASSUME pc[Main] = "line", main.avail_offset < main.avail_seen
               PROVE  ringbuf_strchr < main.avail_seen
    BY DEF FindsSeen
  <1> DEFINE seen == main.avail_seen
             done == main.avail_offset
             n == rb.avail_to_read
             u == Unaccounted
             c == Consumed
             len == Len(input.bytes)
  <1>1. /\ n \in 0 .. Alloc /\ rb.rhead \in 0 .. Alloc - 1 /\ u \in 0 .. Alloc - n
        /\ c \in Nat /\ reader.pos \in Nat /\ c = reader.pos - u - n
        /\ reader.pos <= input.ends[reader.file] /\ reader.file \in 1 .. Len(input.ends)
        /\ input \in Inputs
    BY DEF RingInv, RingTypes, Consumed
  <1>2. seen \in 0 .. n /\ done \in Nat /\ done < seen /\ Begins(input, c + 1)
    BY DEF LinesInv
  <1>a. \A i \in 0 .. n + u - 1 : Cell(i) = c + i + 1
    BY DEF RingInv, Content
  <1>b. seen + done >= 2 * L - 2 \/ Stream[c + seen] = "n"
    BY DEF RoundsSee
  <1>c. len \in Nat /\ input.ends[reader.file] \in Nat /\ input.ends[reader.file] <= len
    BY <1>1, InputsAssumption DEF InputsAssumption
  <1>d. c + 1 \in 1 .. len => \E e \in c + 1 .. c + 1 + L - 1 : input.bytes[e] = "n"
    BY <1>1, <1>2 DEF LinesUpTo
  <1> HIDE DEF seen, done, n, u, c, len
  <1>e. /\ n \in Nat /\ u \in Nat /\ n + u <= Alloc /\ Alloc \in Nat
        /\ seen \in Nat /\ seen <= n /\ seen > 0
    BY <1>1, <1>2, Buffer
  <1>3. PICK i \in 0 .. seen - 1 : Stream[c + i + 1] = "n"
    <2>1. CASE Stream[c + seen] = "n"
      <3>1. seen - 1 \in 0 .. seen - 1 /\ c + (seen - 1) + 1 = c + seen
        BY <1>1, <1>e
      <3> QED BY <2>1, <3>1
    <2>2. CASE seen + done >= 2 * L - 2
      <3>1. seen >= L
        BY <1>2, <1>e, <2>2
      <3>2. c + 1 <= reader.pos
        <4>1. c = reader.pos - u - n /\ n \in Nat /\ n > 0 /\ u \in Nat /\ c \in Nat /\ reader.pos \in Nat
          BY <1>1, <1>e
        <4> QED BY <4>1
      <3>3. c + 1 \in 1 .. len
        <4>1. /\ reader.pos \in Nat /\ reader.pos <= input.ends[reader.file] /\ c \in Nat
              /\ input.ends[reader.file] \in Nat /\ input.ends[reader.file] <= len /\ len \in Nat
          BY <1>1, <1>c
        <4>2. c + 1 <= len
          BY <3>2, <4>1
        <4> QED BY <4>1, <4>2
      <3>4. PICK e \in c + 1 .. c + 1 + L - 1 : input.bytes[e] = "n"
        BY <1>d, <3>3
      <3>5. e - c - 1 \in 0 .. seen - 1 /\ c + (e - c - 1) + 1 = e
        <4>1. e \in Int /\ c + 1 <= e /\ e <= c + L /\ c \in Nat
          BY <1>1, <3>4
        <4> QED BY <1>e, <3>1, <4>1
      <3> QED BY <3>4, <3>5 DEF Stream
    <2> QED BY <1>b, <2>1, <2>2
  <1> DEFINE tail == Alloc - rb.rhead
             rest == (rb.avail_to_read - tail) % SizeMod
             found == {s \in 0 .. Alloc - 1 :
                         /\ s < tail \/ s - tail < rest
                         /\ IsNewline(Cell(s))}
  <1>4. i \in 0 .. Alloc - 1 /\ i < n /\ i \in 0 .. n + u - 1 /\ i < seen
    BY <1>e
  <1>5. i < tail \/ i - tail < rest
    <2>1. CASE tail <= i
      <3> DEFINE d == n - tail
      <3>1. d \in 0 .. Alloc /\ i - tail < d
        BY <1>1, <1>e, <1>4, <2>1
      <3>2. d % SizeMod = d
        <4> HIDE DEF d
        <4> QED BY <3>1, FewBytes
      <3> QED BY <3>1, <3>2 DEF n
    <2> QED BY <1>1, <1>e, <1>4, <2>1
  <1>6. IsNewline(Cell(i))
    <2>1. Cell(i) = c + i + 1 /\ c + i + 1 # 0
      BY <1>1, <1>4, <1>a
    <2> QED BY <1>3, <2>1 DEF IsNewline
  <1>7. i \in found
    BY <1>4, <1>5, <1>6
  <1>8. found \in SUBSET Nat /\ found # {}
    BY <1>7, Buffer
  <1>9. ringbuf_strchr = Min(found)
    <2>1. ringbuf_strchr = IF found = {} THEN -1 ELSE Min(found)
      BY DEF ringbuf_strchr
    <2> QED BY <1>8, <2>1
  <1> HIDE DEF found
  <1>10. Min(found) \in Nat /\ Min(found) <= i
    BY <1>7, <1>8, LeastOf
  <1>11. Min(found) < seen
    BY <1>4, <1>10, <1>e
  <1> QED BY <1>9, <1>11 DEF seen

(* If no line has more than L bytes and each round of the main loop begins   *)
(* with 2 * L - 2 bytes or with whole lines, the types are kept and threads  *)
(* get whole lines.                                                          *)
THEOREM RoundsSuffice ==
  ASSUME NEW CONSTANT L \in Nat, LinesUpTo(L)
  PROVE  Spec /\ []FewLines /\ []RoundsSee(L) => [](TypeOK /\ SlotIsItsOwn)
  <1>1. Init => LineByLine
    BY LinesInit
  <1>2. LineByLine /\ RoundsSee(L) => FindsSeen
    BY RoundFinds DEF LineByLine
  <1>3. IInv /\ IInv' /\ FewLines /\ RoundsSee(L) /\ LineByLine /\ [Next]_vars => LineByLine'
    BY <1>2, LineStep
  <1>4. Spec /\ []FewLines /\ []RoundsSee(L) => []FindsSeen
    BY <1>1, <1>2, <1>3, PipeInvariant, PTL DEF Spec
  <1> QED BY <1>4, TypesKept, WholeLines, PTL
================================================================================
