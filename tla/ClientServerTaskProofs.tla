------------------------ MODULE ClientServerTaskProofs ------------------------
(* Proofs about ClientServerTask, for every value of its constants. *)
EXTENDS ClientServerTask, FiniteSetTheorems, TLAPS

(* The set of workunit ids is what it seems to be. *)
LEMMA Attempt1 == LastAttempt \in Nat \ {0}
  BY CSTAssumption DEF CSTAssumption, LastAttempt

(* A workunit id is a pair of a range and an attempt. *)
LEMMA WUType ==
  ASSUME NEW w \in WUs
  PROVE  /\ w[1] \in Ranges /\ w[2] \in Nat \ {0} /\ w[2] <= LastAttempt
         /\ w = <<w[1], w[2]>>
  BY Attempt1 DEF WUs, Attempts

(* set_status() and everything built on it keep a table a table. *)
LEMMA SetStatusType ==
  ASSUME NEW tab \in [WUs -> WuStatus \cup {NoRow}], NEW W,
         NEW s \in WuStatus
  PROVE  SetStatus(tab, W, s) \in [WUs -> WuStatus \cup {NoRow}]
  BY DEF SetStatus

(* Every operation of WuAccess turns a table into a table. *)
LEMMA TableTypes ==
  ASSUME NEW tab \in [WUs -> WuStatus \cup {NoRow}], NEW W, NEW w, NEW b
  PROVE  /\ Created(tab, w) \in [WUs -> WuStatus \cup {NoRow}]
         /\ Assign(tab, w) \in [WUs -> WuStatus \cup {NoRow}]
         /\ Result(tab, w, b) \in [WUs -> WuStatus \cup {NoRow}]
         /\ Verification(tab, w, b) \in [WUs -> WuStatus \cup {NoRow}]
         /\ Cancel(tab, W) \in [WUs -> WuStatus \cup {NoRow}]
  BY SetStatusType DEF WuStatus, Created, Assign, Result, Verification, Cancel

(* Where run() goes on is never the middle of a result. *)
Between == {"submit", "wait", "done", "short", "timeouts"}

(* The loops of run() lead to a place between two results. *)
LEMMA LoopTypes ==
  ASSUME NEW rels \in Nat, NEW wanted \in Nat, NEW q \in 1 .. NRanges + 1,
         NEW out
  PROVE  /\ LoopPc(rels, wanted, q, out) \in Between
         /\ DrainPc(rels, wanted, out) \in Between
         /\ LoopRet(q) \in {"submit", "drain"}
         /\ LoopPc(rels, wanted, q, out) = "submit" => q <= NRanges
         /\ DrainPc(rels, wanted, out) # "submit"
         /\ LoopRet(q) = "submit" => q <= NRanges
  BY CSTAssumption DEF CSTAssumption, LoopPc, DrainPc, LoopRet, Between

Holding == {"observe", "verify", "everify", "create"}

(* The main thread is either between two results or holds one. *)
LEMMA PcKinds == Between \subseteq Pcs /\ Holding \subseteq Pcs /\ Between \cap Holding = {}
  BY DEF Between, Holding, Pcs

(* Types, and what they need to be inductive: the main thread submits only *)
(* ranges below qmax and works on a row when it says so.                   *)
TypeInv ==
  /\ TypeOK
  /\ pc = "submit" \/ ret = "submit" => qnext <= NRanges
  /\ pc \in Holding => cur \in WUs

(* A fresh database and a fresh process are well typed. *)
LEMMA TypeInit == Init => TypeInv
  <1> SUFFICES ASSUME Init PROVE TypeInv OBVIOUS
  <1>1. /\ LoopPc(0, RelsWanted, 1, 0) \in Pcs \ Holding
        /\ LoopRet(1) \in {"submit", "drain"}
        /\ pc = "submit" \/ ret = "submit" => 1 <= NRanges
    BY LoopTypes, PcKinds, CSTAssumption DEF Init, CSTAssumption
  <1>2. status \in [WUs -> WuStatus \cup {NoRow}]
    BY DEF Init
  <1>3. assignedclient \in [WUs -> Clients \cup {NoClient}]
    BY DEF Init
  <1>4. outcome \in [WUs -> AllOutcomes \cup {"none"}]
    BY DEF Init
  <1>5. work \in [Clients -> MaybeWU]
    BY DEF Init, MaybeWU
  <1>6. rels_wanted \in Nat \ {0} /\ qnext \in 1 .. (NRanges + 1)
    BY CSTAssumption DEF Init, CSTAssumption
  <1>7. uploads \subseteq Uploads /\ cur \in MaybeWU
    BY DEF Init, MaybeWU
  <1> QED
    BY <1>1, <1>2, <1>3, <1>4, <1>5, <1>6, <1>7 DEF Init, TypeOK, TypeInv

(* Where wait() and the end of a transaction lead to. *)
LEMMA EndOfWaitType ==
  ASSUME rels_found' \in Nat, rels_wanted' \in Nat, EndOfWait
  PROVE  /\ pc' \in Between /\ cur' = NoWU
         /\ pc' = "submit" => ret = "submit"
  BY DEF EndOfWait, Return, DrainPc, Between

(* resubmit_one_wu() creates a row of an attempt an id can name. *)
LEMMA ResubmitType ==
  ASSUME TypeOK, NEW tab \in [WUs -> WuStatus \cup {NoRow}], NEW w \in WUs,
         NEW limit \in Nat,
         rels_found' \in Nat, rels_wanted' \in Nat,
         resubmit_one_wu(tab, w, limit)
  PROVE  /\ status' \in [WUs -> WuStatus \cup {NoRow}]
         /\ wu_submitted' \in Nat /\ start_real_time' \in BOOLEAN
         /\ \/ pc' \in Between /\ cur' = NoWU
            \/ pc' = "create" /\ cur' = w
         /\ pc' = "submit" => ret = "submit"
  <1>1. Created(tab, Next1(w)) \in [WUs -> WuStatus \cup {NoRow}]
    BY TableTypes
  <1>2. ASSUME EndOfWait
        PROVE  pc' \in Between /\ cur' = NoWU /\ (pc' = "submit" => ret = "submit")
    BY <1>2, EndOfWaitType
  <1>3. w[2] \in Nat
    BY WUType
  <1>4. CASE EndOfWait /\ status' = tab /\ UNCHANGED <<wu_submitted, start_real_time>>
    BY <1>2, <1>4 DEF TypeOK
  <1>5. CASE /\ EndOfWait /\ status' = Created(tab, Next1(w))
             /\ wu_submitted' = wu_submitted + 1 /\ UNCHANGED start_real_time
    BY <1>1, <1>2, <1>5 DEF TypeOK
  <1>6. CASE /\ status' = tab /\ start_real_time' = TRUE /\ UNCHANGED wu_submitted
             /\ cur' = w /\ pc' = "create"
    BY <1>6 DEF TypeOK
  <1> QED
    BY <1>3, <1>4, <1>5, <1>6 DEF resubmit_one_wu

(* No handler, thread or client stores a value of another type. *)
LEMMA TypeStep == TypeInv /\ [Next]_vars => TypeInv'
  <1> SUFFICES ASSUME TypeInv, [Next]_vars PROVE TypeInv'
    OBVIOUS
  <1> USE CSTAssumption, PcKinds DEF CSTAssumption, TypeInv, TypeOK, dict, main,
            client, ghost
  <1> DEFINE Tables == [WUs -> WuStatus \cup {NoRow}]
  <1>a. WUs \subseteq MaybeWU /\ NoWU \in MaybeWU
    BY DEF MaybeWU
  <1> HIDE DEF Tables
  <1>1. CASE submit_command
    <2>1. status' \in Tables
      BY <1>1, TableTypes DEF submit_command, Tables
    <2>2. qnext' \in 1 .. NRanges + 1
      BY <1>1 DEF submit_command
    <2>3. /\ pc' \in Between /\ ret' \in {"submit", "drain"}
          /\ pc' = "submit" \/ ret' = "submit" => qnext' <= NRanges
      BY <1>1, <2>2, LoopTypes DEF submit_command
    <2> QED BY <1>1, <2>1, <2>2, <2>3 DEF submit_command, Tables
  <1>2. CASE WaitForAvailable
    BY <1>2 DEF WaitForAvailable, Pcs, Holding
  <1>3. CASE TakeResult
    BY <1>3, <1>a DEF TakeResult, ResultRows, RowsWith, Pcs
  <1>4. CASE NoResult
    BY <1>4 DEF NoResult, Pcs, Holding
  <1>5. CASE HandleGoodResult
    <2>1. /\ rels_found' \in Nat /\ rels_wanted' \in Nat
          /\ wu_received' \in Nat /\ output_files' \subseteq WUs
      BY <1>5 DEF HandleGoodResult, Holding
    <2>2. CASE CommitsInGetEta
      BY <1>5, <2>1, <2>2, <1>a DEF HandleGoodResult, Pcs, Holding
    <2>3. CASE ~CommitsInGetEta
      <3>1. status' \in Tables
        <4>1. status' = Verification(status, cur, outcome[cur] = "ok")
          BY <1>5, <2>3 DEF HandleGoodResult
        <4> QED BY <4>1, SetStatusType DEF Verification, Tables, WuStatus
      <3>2. pc' \in Between /\ cur' = NoWU /\ (pc' = "submit" => ret = "submit")
        BY <1>5, <2>1, <2>3, EndOfWaitType DEF HandleGoodResult
      <3> QED BY <1>5, <2>1, <2>3, <3>1, <3>2, <1>a DEF HandleGoodResult, Tables
    <2> QED BY <2>2, <2>3
  <1>6. CASE Verify
    <2>1. status' \in Tables
      BY <1>6, TableTypes DEF Verify, Tables
    <2>2. rels_found' \in Nat /\ rels_wanted' \in Nat /\ EndOfWait
      BY <1>6 DEF Verify
    <2>3. pc' \in Between /\ cur' = NoWU /\ (pc' = "submit" => ret = "submit")
      BY <2>2, EndOfWaitType
    <2> QED BY <1>6, <2>1, <2>2, <2>3, <1>a DEF Verify, Tables
  <1>7. CASE HandleErrorResult
    <2>1. rels_found' \in Nat /\ rels_wanted' \in Nat /\ cur \in WUs
      BY <1>7 DEF HandleErrorResult, Holding
    <2>2. CASE CommitsInGetEta
      BY <1>7, <2>1, <2>2, <1>a DEF HandleErrorResult, Pcs, Holding
    <2>3. CASE ~CommitsInGetEta
      <3>1. Verification(status, cur, FALSE) \in Tables
        BY TableTypes DEF Tables
      <3>2. /\ status' \in Tables
            /\ wu_submitted' \in Nat /\ start_real_time' \in BOOLEAN
            /\ \/ pc' \in Between /\ cur' = NoWU
               \/ pc' = "create" /\ cur' = cur
            /\ pc' = "submit" => ret = "submit"
        BY <1>7, <2>1, <2>3, <3>1, ResubmitType DEF HandleErrorResult, Holding, Tables
      <3>3. /\ UNCHANGED <<assignedclient, outcome, wu_timedout, rels_found,
                           rels_wanted, qnext, output_files, ret, todo, serving,
                           client, ghost, start_achievement>>
        BY <1>7, <2>3 DEF HandleErrorResult
      <3>4. wu_failed' \in Nat /\ wu_received' \in Nat
        BY <1>7 DEF HandleErrorResult
      <3> QED BY <3>4, <2>1, <3>2, <3>3, <1>a DEF Tables, Holding
    <2> QED BY <2>2, <2>3
  <1>8. CASE VerifyError
    <2>1. rels_found' \in Nat /\ rels_wanted' \in Nat /\ cur \in WUs
      BY <1>8 DEF VerifyError, Holding
    <2> QED
      <3>1. Verification(status, cur, FALSE) \in Tables
        BY TableTypes DEF Tables
      <3>2. /\ status' \in Tables
            /\ wu_submitted' \in Nat /\ start_real_time' \in BOOLEAN
            /\ \/ pc' \in Between /\ cur' = NoWU
               \/ pc' = "create" /\ cur' = cur
            /\ pc' = "submit" => ret = "submit"
        BY <1>8, <2>1, <3>1, ResubmitType DEF VerifyError, Holding, Tables
      <3> QED BY <1>8, <2>1, <3>2, <1>a DEF VerifyError, Tables, Holding
  <1>9. CASE CreateRow
    <2>1. status' \in Tables
      BY <1>9, TableTypes DEF CreateRow, Tables
    <2>2. rels_found' \in Nat /\ rels_wanted' \in Nat /\ EndOfWait
      BY <1>9 DEF CreateRow
    <2>3. pc' \in Between /\ cur' = NoWU /\ (pc' = "submit" => ret = "submit")
      BY <2>2, EndOfWaitType
    <2> QED BY <1>9, <2>1, <2>2, <2>3, <1>a DEF CreateRow, Tables
  <1>10. CASE ResultRaises
    BY <1>10, <1>a DEF ResultRaises, Dies, Pcs, Holding
  <1>11. CASE CancelUnhandled
    <2>1. status' \in Tables
      BY <1>11, TableTypes DEF CancelUnhandled, Tables
    <2>2. cur \in WUs
      BY <1>11 DEF CancelUnhandled, Holding
    <2> QED BY <1>11, <2>1, <2>2, <1>a DEF CancelUnhandled, Tables, Pcs, Holding
  <1>12. ASSUME NEW old \in SUBSET RowsWith(status, {"ASSIGNED"}), QueryTimedOut(old)
        PROVE  TypeInv'
    <2>1. todo' \subseteq WUs
      BY <1>12 DEF QueryTimedOut, RowsWith
    <2>2. rels_found' \in Nat /\ rels_wanted' \in Nat /\ EndOfWait
      BY <1>12 DEF QueryTimedOut
    <2>3. pc' \in Between /\ cur' = NoWU /\ (pc' = "submit" => ret = "submit")
      BY <2>2, EndOfWaitType
    <2> QED BY <1>12, <2>1, <2>2, <2>3, <1>a DEF QueryTimedOut
  <1>13. CASE SkipTimeoutCheck
    <2>1. status' \in Tables
      BY <1>13 DEF SkipTimeoutCheck, Tables
    <2>2. rels_found' \in Nat /\ rels_wanted' \in Nat /\ EndOfWait
      BY <1>13 DEF SkipTimeoutCheck
    <2>3. pc' \in Between /\ cur' = NoWU /\ (pc' = "submit" => ret = "submit")
      BY <2>2, EndOfWaitType
    <2> QED BY <1>13, <2>1, <2>2, <2>3, <1>a DEF SkipTimeoutCheck, Tables
  <1>14. CASE CancelTimedOut
    <2> PICK w \in todo :
             /\ todo' = todo \ {w} /\ wu_timedout' = wu_timedout + 1
             /\ UNCHANGED <<assignedclient, outcome, wu_received, wu_failed,
                            rels_found, rels_wanted, qnext, start_achievement,
                            output_files, ret, serving, client, ghost>>
             /\ resubmit_one_wu(Cancel(status, {w}), w, MaxResubmit)
      BY <1>14 DEF CancelTimedOut
    <2>1. Cancel(status, {w}) \in Tables
      BY TableTypes DEF Tables
    <2>2. /\ status' \in Tables
          /\ wu_submitted' \in Nat /\ start_real_time' \in BOOLEAN
          /\ \/ pc' \in Between /\ cur' = NoWU
             \/ pc' = "create" /\ cur' = w
          /\ pc' = "submit" => ret = "submit"
      BY <2>1, ResubmitType DEF Tables
    <2> QED BY <2>2, <1>a DEF Tables, Holding
  <1>15. CASE TooManyTimedOut
    BY <1>15, <1>a DEF TooManyTimedOut, Dies, Pcs, Holding
  <1>16. CASE RequestMoreRelations
    <2>1. rels_wanted' \in Nat \ {0}
      BY <1>16 DEF RequestMoreRelations
    <2>2. /\ pc' \in Between /\ ret' \in {"submit", "drain"}
          /\ pc' = "submit" \/ ret' = "submit" => qnext <= NRanges
      BY <1>16, <2>1, LoopTypes DEF RequestMoreRelations
    <2> QED BY <1>16, <2>1, <2>2, <1>a DEF RequestMoreRelations
  <1>17. CASE HaveEnoughRelations
    <2>1. status' \in Tables /\ uncounted' \subseteq WUs
      BY <1>17, TableTypes DEF HaveEnoughRelations, Tables, Available, RowsWith
    <2> QED BY <1>17, <2>1, <1>a DEF HaveEnoughRelations, Tables, Pcs, Holding
  <1>18. CASE Interrupt
    BY <1>18, <1>a DEF Interrupt, Pcs, Holding
  <1>19. CASE Restart
    <2>1. /\ pc' \in Between /\ ret' \in {"submit", "drain"}
          /\ pc' = "submit" \/ ret' = "submit" => qnext <= NRanges
      BY <1>19, LoopTypes DEF Restart
    <2> QED BY <1>19, <2>1, <1>a DEF Restart
  <1>20. CASE RestartRaises
    BY <1>20, <1>a DEF RestartRaises, Dies, Pcs, Holding
  <1>21. ASSUME NEW c \in Clients, send_WU(c) PROVE TypeInv'
    <2>1. status' \in Tables
      <3> PICK w \in WUs : status' = Assign(status, w)
        BY <1>21 DEF send_WU
      <3> QED BY TableTypes DEF Tables
    <2>2. /\ assignedclient' \in [WUs -> Clients \cup {NoClient}]
          /\ work' \in [Clients -> MaybeWU]
      BY <1>21, <1>a DEF send_WU
    <2> QED BY <1>21, <2>1, <2>2 DEF send_WU, Tables
  <1>22. ASSUME NEW c \in Clients, Execute(c) PROVE TypeInv'
    <2>1. work[c] \in WUs
      BY <1>22 DEF Execute, MaybeWU
    <2>2. uploads' \subseteq Uploads
      BY <1>22, <2>1 DEF Execute, Uploads
    <2>3. work' \in [Clients -> MaybeWU]
      BY <1>22, <1>a DEF Execute
    <2> QED BY <1>22, <2>2, <2>3 DEF Execute
  <1>23. ASSUME NEW u \in uploads, do_upload(u) PROVE TypeInv'
    <2>1. status' \in Tables
      BY <1>23, TableTypes DEF do_upload, Tables
    <2>2. outcome' \in [WUs -> AllOutcomes \cup {"none"}]
      BY <1>23 DEF do_upload
    <2>3. uploads' \subseteq Uploads
      BY <1>23 DEF do_upload
    <2> QED BY <1>23, <2>1, <2>2, <2>3 DEF do_upload, Tables
  <1>24. ASSUME NEW u \in uploads, DropStale(u) PROVE TypeInv'
    BY <1>24 DEF DropStale
  <1>25. CASE Expire
    <2>1. status' \in Tables
      BY <1>25, SetStatusType DEF Expire, Tables, WuStatus
    <2> QED BY <1>25, <2>1 DEF Expire, Tables
  <1>26. CASE UNCHANGED vars
    BY <1>26 DEF vars
  <1> QED
    BY <1>1, <1>2, <1>3, <1>4, <1>5, <1>6, <1>7, <1>8, <1>9,
       <1>10, <1>11, <1>12, <1>13, <1>14, <1>15, <1>16, <1>17, <1>18,
       <1>19, <1>20, <1>21, <1>22, <1>23, <1>24, <1>25, <1>26
    DEF Next, MainStep, UserStep, OtherStep, Terminated

(* Every variable keeps the type of what the code stores in it. *)
THEOREM TypeCorrect == Spec => []TypeOK
  <1>1. TypeInv => TypeOK
    BY DEF TypeInv
  <1> QED
    BY <1>1, TypeInit, TypeStep, PTL DEF Spec

-------------------------------------------------------------------------------
(* The table by itself. *)

Table == [WUs -> WuStatus \cup {NoRow}]

(* OneLiveAttempt and RangesSubmitted, of any table. *)
Chain(tab) ==
  \A w \in WUs :
    w[2] > 1 /\ tab[w] # NoRow
      => tab[<<w[1], w[2] - 1>>] \in {"CANCELLED", "VERIFIED_ERROR"}
Begun(tab, q) == \A r \in Ranges : (tab[<<r, 1>>] # NoRow) <=> (r < q)

(* A status is open or closed, never both, and no row is neither. *)
LEMMA StatusKinds ==
  /\ Open \subseteq WuStatus /\ Closed \subseteq WuStatus
  /\ NoRow \notin WuStatus /\ Open \cap Closed = {} /\ Received \subseteq Open
  BY DEF Open, Closed, Received, Verified, WuStatus, NoRow

(* set_status() changes the rows it is told to and no other. *)
LEMMA SetStatusRows ==
  ASSUME NEW tab \in Table, NEW W, NEW s \in WuStatus, NEW w \in WUs
  PROVE  /\ SetStatus(tab, W, s) \in Table
         /\ w \in W => SetStatus(tab, W, s)[w] = s
         /\ w \notin W => SetStatus(tab, W, s)[w] = tab[w]
  BY DEF SetStatus, Table

(* The attempts next to an attempt are workunit ids. *)
LEMMA NeighbourType ==
  ASSUME NEW w \in WUs
  PROVE  /\ w[2] > 1 => <<w[1], w[2] - 1>> \in WUs
         /\ w[2] < LastAttempt =>
              /\ Next1(w) \in WUs /\ Next1(w) # w
              /\ Next1(w)[1] = w[1] /\ Next1(w)[2] = w[2] + 1
  BY WUType, Attempt1 DEF WUs, Attempts, Next1

(* While a row is open, its range has no later attempt. *)
LEMMA NoLaterAttempt ==
  ASSUME NEW tab \in Table, Chain(tab), NEW w \in WUs, tab[w] \notin Closed,
         w[2] < LastAttempt
  PROVE  tab[Next1(w)] = NoRow
  <1>1. Next1(w) \in WUs /\ Next1(w)[1] = w[1] /\ Next1(w)[2] = w[2] + 1
    BY NeighbourType
  <1>2. w[2] \in Nat \ {0} /\ w = <<w[1], w[2]>>
    BY WUType
  <1>3. <<Next1(w)[1], Next1(w)[2] - 1>> = w /\ Next1(w)[2] > 1
    BY <1>1, <1>2
  <1> QED
    BY <1>1, <1>3 DEF Chain, Closed, Verified

(* No step on open rows that are there touches the history of a range. *)
LEMMA MoveRows ==
  ASSUME NEW tab \in Table, NEW W \in SUBSET RowsWith(tab, Open),
         NEW s \in WuStatus, NEW q, Chain(tab), Begun(tab, q)
  PROVE  Chain(SetStatus(tab, W, s)) /\ Begun(SetStatus(tab, W, s), q)
  <1> DEFINE new == SetStatus(tab, W, s)
  <1>1. \A w \in WUs : /\ w \in W => new[w] = s /\ tab[w] \in Open
                       /\ w \notin W => new[w] = tab[w]
    BY SetStatusRows DEF RowsWith
  <1>2. \A w \in WUs : new[w] # NoRow <=> tab[w] # NoRow
    BY <1>1, StatusKinds
  <1> HIDE DEF new
  <1>3. Chain(new)
    <2> SUFFICES ASSUME NEW w \in WUs, w[2] > 1, new[w] # NoRow
                 PROVE  new[<<w[1], w[2] - 1>>] \in {"CANCELLED", "VERIFIED_ERROR"}
      BY DEF Chain
    <2>1. tab[<<w[1], w[2] - 1>>] \in {"CANCELLED", "VERIFIED_ERROR"}
      BY <1>2 DEF Chain
    <2>2. <<w[1], w[2] - 1>> \in WUs
      BY NeighbourType
    <2> QED BY <1>1, <2>1, <2>2, StatusKinds DEF Closed, Verified
  <1>4. Begun(new, q)
    <2>1. \A r \in Ranges : <<r, 1>> \in WUs
      BY Attempt1 DEF WUs, Attempts
    <2> QED BY <1>2, <2>1 DEF Begun
  <1> QED BY <1>3, <1>4 DEF new

(* A next attempt of a range whose last attempt failed. *)
LEMMA AddAttempt ==
  ASSUME NEW tab \in Table, NEW q, Chain(tab), Begun(tab, q),
         NEW w \in WUs, w[2] < LastAttempt,
         tab[w] \in {"CANCELLED", "VERIFIED_ERROR"}, tab[Next1(w)] = NoRow
  PROVE  Chain(Created(tab, Next1(w))) /\ Begun(Created(tab, Next1(w)), q)
  <1> DEFINE new == Created(tab, Next1(w))
  <1>1. /\ Next1(w) \in WUs /\ Next1(w) # w
        /\ Next1(w)[1] = w[1] /\ Next1(w)[2] = w[2] + 1
    BY NeighbourType
  <1>2. w[2] \in Nat \ {0} /\ w = <<w[1], w[2]>>
    BY WUType
  <1>3. \A v \in WUs : /\ v = Next1(w) => new[v] = "AVAILABLE"
                       /\ v # Next1(w) => new[v] = tab[v]
    BY SetStatusRows DEF Created, WuStatus
  <1> HIDE DEF new
  <1>4. Chain(new)
    <2> SUFFICES ASSUME NEW v \in WUs, v[2] > 1, new[v] # NoRow
                 PROVE  new[<<v[1], v[2] - 1>>] \in {"CANCELLED", "VERIFIED_ERROR"}
      BY DEF Chain
    <2>1. <<v[1], v[2] - 1>> \in WUs
      BY NeighbourType
    <2>2. CASE v = Next1(w)
      <3>1. <<v[1], v[2] - 1>> = w
        BY <1>1, <1>2, <2>2
      <3> QED BY <1>1, <1>3, <3>1
    <2>3. CASE v # Next1(w)
      <3>1. tab[<<v[1], v[2] - 1>>] \in {"CANCELLED", "VERIFIED_ERROR"}
        BY <1>3, <2>3 DEF Chain
      <3>2. <<v[1], v[2] - 1>> # Next1(w)
        BY <3>1 DEF NoRow
      <3> QED BY <1>3, <2>1, <3>1, <3>2
    <2> QED BY <2>2, <2>3
  <1>5. Begun(new, q)
    <2>1. \A r \in Ranges : <<r, 1>> \in WUs /\ <<r, 1>> # Next1(w)
      BY <1>1, <1>2, Attempt1 DEF WUs, Attempts, Next1
    <2> QED BY <1>3, <2>1 DEF Begun
  <1> QED BY <1>4, <1>5 DEF new

(* The first attempt of the next range. *)
LEMMA AddRange ==
  ASSUME NEW tab \in Table, NEW q \in Ranges, Chain(tab), Begun(tab, q)
  PROVE  /\ <<q, 1>> \in WUs /\ tab[<<q, 1>>] = NoRow
         /\ Chain(Created(tab, <<q, 1>>)) /\ Begun(Created(tab, <<q, 1>>), q + 1)
  <1> DEFINE new == Created(tab, <<q, 1>>)
  <1>0. \A r \in Ranges : <<r, 1>> \in WUs /\ r \in Nat
    BY Attempt1, CSTAssumption DEF WUs, Attempts, Ranges, CSTAssumption
  <1>1. <<q, 1>> \in WUs /\ tab[<<q, 1>>] = NoRow
    BY <1>0 DEF Begun
  <1>3. \A v \in WUs : /\ v = <<q, 1>> => new[v] = "AVAILABLE"
                       /\ v # <<q, 1>> => new[v] = tab[v]
    BY SetStatusRows DEF Created, WuStatus
  <1> HIDE DEF new
  <1>4. Chain(new)
    <2> SUFFICES ASSUME NEW v \in WUs, v[2] > 1, new[v] # NoRow
                 PROVE  new[<<v[1], v[2] - 1>>] \in {"CANCELLED", "VERIFIED_ERROR"}
      BY DEF Chain
    <2>1. <<v[1], v[2] - 1>> \in WUs
      BY NeighbourType
    <2>2. v # <<q, 1>>
      OBVIOUS
    <2>3. tab[<<v[1], v[2] - 1>>] \in {"CANCELLED", "VERIFIED_ERROR"}
      BY <1>3, <2>2 DEF Chain
    <2>4. <<v[1], v[2] - 1>> # <<q, 1>>
      BY <1>1, <2>3 DEF NoRow
    <2> QED BY <1>3, <2>1, <2>3, <2>4
  <1>5. Begun(new, q + 1)
    <2> SUFFICES ASSUME NEW r \in Ranges
                 PROVE  (new[<<r, 1>>] # NoRow) <=> (r < q + 1)
      BY DEF Begun
    <2>1. CASE r = q
      BY <1>0, <1>3, <2>1 DEF NoRow
    <2>2. CASE r # q
      <3>1. new[<<r, 1>>] = tab[<<r, 1>>]
        BY <1>0, <1>3, <2>2
      <3>2. r \in Nat /\ q \in Nat
        BY <1>0
      <3>3. (tab[<<r, 1>>] # NoRow) <=> (r < q)
        BY DEF Begun
      <3>4. (r < q) <=> (r < q + 1)
        BY <2>2, <3>2
      <3> QED BY <3>1, <3>3, <3>4
    <2> QED BY <2>1, <2>2
  <1> QED BY <1>1, <1>4, <1>5 DEF new

-------------------------------------------------------------------------------
(* The main thread and the table. *)

Coherent == MainHolds /\ UncountedCancelled /\ RangesSubmitted /\ OneLiveAttempt

(* Chain and Begun are OneLiveAttempt and RangesSubmitted of any table. *)
LEMMA ChainIsOneLiveAttempt ==
  /\ OneLiveAttempt <=> Chain(status)
  /\ RangesSubmitted <=> Begun(status, qnext)
  BY DEF OneLiveAttempt, RangesSubmitted, Chain, Begun

(* The limits on attempts are within what an id can say. *)
LEMMA Limits == MaxResubmit <= LastAttempt /\ MaxWuError <= LastAttempt
  BY CSTAssumption DEF CSTAssumption, LastAttempt

(* Before anything is submitted the main thread agrees with the table. *)
LEMMA CoherentInit == Init => Coherent
  <1> SUFFICES ASSUME Init PROVE Coherent OBVIOUS
  <1>1. pc \in Between /\ cur = NoWU /\ todo = {} /\ qnext = 1 /\ uncounted = {}
    BY LoopTypes, CSTAssumption DEF Init, CSTAssumption
  <1>2. pc = "submit" \/ ret = "submit" => qnext <= NRanges
    BY TypeInit DEF TypeInv
  <1>3. MainHolds
    BY <1>1, <1>2 DEF MainHolds, Between
  <1>4. \A w \in WUs : status[w] = NoRow
    BY DEF Init
  <1>5. OneLiveAttempt
    BY <1>4 DEF OneLiveAttempt
  <1>6. RangesSubmitted
    BY <1>1, <1>4, Attempt1, CSTAssumption
    DEF RangesSubmitted, WUs, Attempts, Ranges, CSTAssumption
  <1> QED BY <1>1, <1>3, <1>5, <1>6 DEF Coherent, UncountedCancelled

(* When wait() returns, nothing is held but the list of timed out rows. *)
LEMMA EndOfWaitHolds ==
  ASSUME TypeInv', EndOfWait, rels_found' \in Nat, rels_wanted' \in Nat,
         todo' \subseteq RowsWith(status', Open)
  PROVE  MainHolds'
  <1>1. pc' \in Between /\ cur' = NoWU
    BY EndOfWaitType
  <1>2. pc' # "timeouts" => todo' = {}
    BY DEF EndOfWait
  <1> QED
    BY <1>1, <1>2 DEF MainHolds, OpenRows, TypeInv, Between

(* resubmit_one_wu() continues the history of a range that failed. *)
LEMMA ResubmitHolds ==
  ASSUME TypeInv, TypeInv', NEW tab \in Table, Chain(tab), Begun(tab, qnext),
         NEW w \in WUs, tab[w] \in {"CANCELLED", "VERIFIED_ERROR"},
         w[2] < LastAttempt => tab[Next1(w)] = NoRow,
         NEW limit \in Nat, limit <= LastAttempt,
         rels_found' \in Nat, rels_wanted' \in Nat,
         todo' \subseteq RowsWith(tab, Open),
         resubmit_one_wu(tab, w, limit)
  PROVE  /\ MainHolds' /\ Chain(status') /\ Begun(status', qnext)
         /\ \A v \in WUs : tab[v] = "CANCELLED" => status'[v] = "CANCELLED"
         /\ \/ /\ status' = tab /\ wu_submitted' = wu_submitted
               /\ pc' \in Between \cup {"create"}
            \/ /\ status' = Created(tab, Next1(w)) /\ wu_submitted' = wu_submitted + 1
               /\ Next1(w) \in WUs /\ tab[Next1(w)] = NoRow
               /\ pc' \in Between
  <1>1. w[2] \in Nat /\ LastAttempt \in Nat
    BY WUType, Attempt1
  <1>2. CASE EndOfWait /\ status' = tab /\ UNCHANGED <<wu_submitted, start_real_time>>
    BY <1>2, EndOfWaitHolds, EndOfWaitType
  <1>3. CASE /\ w[2] + 1 <= limit /\ EndOfWait /\ status' = Created(tab, Next1(w))
             /\ wu_submitted' = wu_submitted + 1
    <2>1. w[2] < LastAttempt
      BY <1>1, <1>3
    <2>2. Chain(status') /\ Begun(status', qnext)
      BY <1>3, <2>1, AddAttempt
    <2>3. \A v \in WUs : tab[v] # NoRow => status'[v] = tab[v]
      BY <1>3, <2>1, SetStatusRows DEF Created, WuStatus
    <2>4. todo' \subseteq RowsWith(status', Open)
      <3>1. \A v \in RowsWith(tab, Open) : v \in WUs /\ tab[v] \in Open
        BY DEF RowsWith, Table
      <3>2. DOMAIN status' = WUs
        BY DEF TypeInv, TypeOK
      <3> QED BY <2>3, <3>1, <3>2, StatusKinds DEF RowsWith
    <2>5. MainHolds' /\ pc' \in Between
      BY <1>3, <2>4, EndOfWaitHolds, EndOfWaitType
    <2>6. Next1(w) \in WUs
      BY <2>1, NeighbourType
    <2> QED BY <1>3, <2>1, <2>2, <2>3, <2>5, <2>6 DEF NoRow
  <1>4. CASE /\ w[2] + 1 <= limit /\ status' = tab /\ UNCHANGED wu_submitted
             /\ cur' = w /\ pc' = "create"
    <2>1. w[2] < LastAttempt
      BY <1>1, <1>4
    <2>2. w \notin todo'
      BY StatusKinds DEF RowsWith, Closed, Verified
    <2>3. MainHolds'
      BY <1>4, <2>1, <2>2, NoWUAssumption DEF MainHolds, OpenRows, TypeInv
    <2> QED BY <1>4, <2>3
  <1> QED
    BY <1>2, <1>3, <1>4 DEF resubmit_one_wu

(* A server thread or the operator moves a row that is out with a client:  *)
(* nothing the main thread holds is affected.                              *)
LEMMA OthersHold ==
  ASSUME TypeInv, TypeInv', Coherent, UNCHANGED <<main, uncounted, qnext>>,
         NEW w \in WUs, status[w] \in {"AVAILABLE", "ASSIGNED"},
         NEW st \in Open, status' = SetStatus(status, {w}, st)
  PROVE  Coherent'
  <1>1. status \in Table /\ DOMAIN status = WUs /\ DOMAIN status' = WUs
    BY DEF TypeInv, TypeOK, Table
  <1>2. \A v \in WUs : /\ v = w => status'[v] = st
                       /\ v # w => status'[v] = status[v]
    BY <1>1, SetStatusRows, StatusKinds
  <1>3. Chain(status') /\ Begun(status', qnext)
    <2>1. {w} \in SUBSET RowsWith(status, Open)
      BY <1>1 DEF RowsWith, Open
    <2>2. Chain(status) /\ Begun(status, qnext)
      BY ChainIsOneLiveAttempt DEF Coherent
    <2> QED BY <1>1, <2>1, <2>2, MoveRows, StatusKinds
  <1>4. UncountedCancelled'
    BY <1>1, <1>2 DEF Coherent, UncountedCancelled, RowsWith
  <1>5. OpenRows \subseteq OpenRows'
    BY <1>1, <1>2 DEF OpenRows, RowsWith
  <1>6. MainHolds'
    <2>1. UNCHANGED <<pc, ret, cur, todo, serving, qnext>>
      BY DEF main
    <2>2. pc \in {"observe", "verify", "everify"} =>
            cur \in RowsWith(status', Received)
      BY <1>1, <1>2 DEF Coherent, MainHolds, RowsWith, Received
    <2>3. pc = "create" => /\ status'[cur] = status[cur]
                           /\ status'[Next1(cur)] = status[Next1(cur)]
      <3> SUFFICES ASSUME pc = "create"
                   PROVE  /\ status'[cur] = status[cur]
                          /\ status'[Next1(cur)] = status[Next1(cur)]
        OBVIOUS
      <3>1. cur \in WUs /\ Next1(cur) \in WUs
        BY NeighbourType DEF TypeInv, Holding, Coherent, MainHolds
      <3> QED BY <1>2, <3>1 DEF Coherent, MainHolds, NoRow
    <2> QED BY <1>5, <2>1, <2>2, <2>3 DEF Coherent, MainHolds
  <1> QED
    BY <1>3, <1>4, <1>6, ChainIsOneLiveAttempt, qnext' = qnext
    DEF Coherent, OneLiveAttempt, RangesSubmitted, Chain, Begun

(* A row the main thread is done with. *)
LEMMA CloseRow ==
  ASSUME TypeInv, Coherent, NEW w \in WUs, status[w] \in Open,
         NEW st \in Closed, NEW tab, tab = SetStatus(status, {w}, st)
  PROVE  /\ tab \in Table /\ Chain(tab) /\ Begun(tab, qnext)
         /\ tab[w] = st /\ w \notin uncounted
         /\ \A v \in WUs : v # w => tab[v] = status[v]
         /\ w[2] < LastAttempt => tab[Next1(w)] = NoRow
         /\ RowsWith(tab, Open) = OpenRows \ {w}
         /\ uncounted \subseteq RowsWith(tab, {"CANCELLED"})
  <1>1. status \in Table /\ DOMAIN status = WUs /\ DOMAIN tab = WUs
    BY SetStatusRows, StatusKinds DEF TypeInv, TypeOK, Table, SetStatus
  <1>2. /\ tab \in Table /\ tab[w] = st
        /\ \A v \in WUs : v # w => tab[v] = status[v]
    BY <1>1, SetStatusRows, StatusKinds
  <1>3. Chain(status) /\ Begun(status, qnext)
    BY ChainIsOneLiveAttempt DEF Coherent
  <1>4. Chain(tab) /\ Begun(tab, qnext)
    <2>1. {w} \in SUBSET RowsWith(status, Open)
      BY <1>1 DEF RowsWith
    <2> QED BY <1>1, <1>3, <2>1, MoveRows, StatusKinds
  <1>5. w \notin uncounted
    BY StatusKinds DEF Coherent, UncountedCancelled, RowsWith, Closed
  <1>6. w[2] < LastAttempt => tab[Next1(w)] = NoRow
    BY <1>1, <1>2, <1>3, NoLaterAttempt, NeighbourType, StatusKinds
  <1>7. RowsWith(tab, Open) = OpenRows \ {w}
    BY <1>1, <1>2, StatusKinds DEF RowsWith, OpenRows
  <1>8. uncounted \subseteq RowsWith(tab, {"CANCELLED"})
    BY <1>1, <1>2, <1>5 DEF Coherent, UncountedCancelled, RowsWith
  <1> QED BY <1>2, <1>4, <1>5, <1>6, <1>7, <1>8

(* cancel_wu() settles an open row. *)
LEMMA CancelRow ==
  ASSUME TypeInv, Coherent, NEW w \in todo, NEW tab, tab = Cancel(status, {w})
  PROVE  /\ w \in WUs /\ status[w] \in Open /\ todo \subseteq OpenRows
         /\ tab \in Table /\ Chain(tab) /\ Begun(tab, qnext)
         /\ tab[w] = "CANCELLED" /\ w \notin uncounted
         /\ w[2] < LastAttempt => tab[Next1(w)] = NoRow
         /\ RowsWith(tab, Open) = OpenRows \ {w}
         /\ uncounted \subseteq RowsWith(tab, {"CANCELLED"})
  <1>1. w \in WUs /\ status[w] \in Open /\ todo \subseteq OpenRows
    BY DEF TypeInv, TypeOK, Coherent, MainHolds, OpenRows, RowsWith
  <1>2. PICK st \in Closed : st = "CANCELLED"
    BY DEF Closed
  <1>3. tab = SetStatus(status, {w}, st)
    BY <1>2 DEF Cancel
  <1>4. w \in WUs /\ status[w] \in Open
    BY <1>1
  <1>5. /\ tab \in Table /\ Chain(tab) /\ Begun(tab, qnext)
        /\ tab[w] = st /\ w \notin uncounted
        /\ \A v \in WUs : v # w => tab[v] = status[v]
        /\ w[2] < LastAttempt => tab[Next1(w)] = NoRow
        /\ RowsWith(tab, Open) = OpenRows \ {w}
        /\ uncounted \subseteq RowsWith(tab, {"CANCELLED"})
    BY <1>3, <1>4, CloseRow, Zenon
  <1> QED BY <1>1, <1>2, <1>5

(* The row whose result is being handled. *)
LEMMA CurRow ==
  ASSUME TypeInv, Coherent, pc \in {"observe", "verify", "everify"}
  PROVE  cur \in WUs /\ status[cur] \in Open /\ todo = {}
  BY StatusKinds DEF TypeInv, TypeOK, Holding, Coherent, MainHolds, RowsWith

(* No step of any thread makes the main thread disagree with the table. *)
LEMMA CoherentStep == TypeInv /\ Coherent /\ [Next]_vars => Coherent'
  <1> SUFFICES ASSUME TypeInv, Coherent, [Next]_vars PROVE Coherent'
    OBVIOUS
  <1>t. TypeInv'
    BY TypeStep
  <1>a. /\ status \in Table /\ DOMAIN status = WUs /\ DOMAIN status' = WUs
        /\ cur \in MaybeWU /\ todo \subseteq WUs
    BY <1>t DEF TypeInv, TypeOK, Table
  <1>b. Chain(status) /\ Begun(status, qnext)
    BY ChainIsOneLiveAttempt DEF Coherent
  <1>c. /\ Chain(status') => OneLiveAttempt'
        /\ Begun(status', qnext') => RangesSubmitted'
    BY DEF OneLiveAttempt, RangesSubmitted, Chain, Begun
  <1>d. ASSUME status' = status /\ qnext' = qnext /\ uncounted' = uncounted, MainHolds'
        PROVE  Coherent'
    BY <1>d DEF Coherent, UncountedCancelled, RangesSubmitted, OneLiveAttempt
  <1>e. ASSUME UNCHANGED <<status, main>>, qnext' = qnext, uncounted' = uncounted
        PROVE  Coherent'
    <2>1. MainHolds'
      BY <1>e DEF main, Coherent, MainHolds, OpenRows
    <2> QED BY <1>d, <1>e, <2>1
  <1>f. rels_found \in Nat /\ rels_wanted \in Nat
    BY DEF TypeInv, TypeOK
  <1> USE <1>t, <1>a, <1>b
  <1>1. CASE submit_command
    <2>1. qnext \in Ranges /\ qnext' = qnext + 1
      BY <1>1 DEF submit_command, TypeInv, TypeOK, Ranges
    <2>2. /\ status' = Created(status, <<qnext, 1>>)
          /\ status[<<qnext, 1>>] = NoRow /\ <<qnext, 1>> \in WUs
      BY <1>1, <2>1, AddRange DEF submit_command
    <2>3. \A v \in WUs : status[v] # NoRow => status'[v] = status[v]
      BY <2>2, SetStatusRows DEF Created, WuStatus
    <2>4. UncountedCancelled'
      BY <1>1, <2>3 DEF submit_command, Coherent, UncountedCancelled, RowsWith, NoRow, ghost
    <2>5. pc' \in Between /\ cur' = cur /\ cur = NoWU /\ todo' = {}
      BY <1>1, <2>1, <1>f, LoopTypes
      DEF submit_command, Coherent, MainHolds, TypeInv, TypeOK
    <2>6. MainHolds'
      BY <2>5 DEF MainHolds, TypeInv, Between
    <2> QED BY <1>1, <1>c, <2>1, <2>2, <2>4, <2>6, AddRange DEF Coherent
  <1>2. CASE WaitForAvailable
    <2>1. MainHolds'
      BY <1>2 DEF WaitForAvailable, Coherent, MainHolds, OpenRows, TypeInv
    <2> QED BY <1>2, <1>d, <2>1 DEF WaitForAvailable, dict, ghost
  <1>3. CASE TakeResult
    <2>1. cur' \in RowsWith(status, Received) /\ cur' \in WUs
      BY <1>3 DEF TakeResult, ResultRows, RowsWith, Received
    <2>2. MainHolds'
      BY <1>3, <2>1, NoWUAssumption DEF TakeResult, Coherent, MainHolds, OpenRows, TypeInv
    <2> QED BY <1>3, <1>d, <2>2 DEF TakeResult, dict, ghost
  <1>4. CASE NoResult
    <2>1. MainHolds'
      BY <1>4 DEF NoResult, Coherent, MainHolds, OpenRows, TypeInv
    <2> QED BY <1>4, <1>d, <2>1 DEF NoResult, dict, ghost
  <1>5. CASE HandleGoodResult
    <2>1. cur \in WUs /\ status[cur] \in Open /\ todo = {}
      BY <1>5, CurRow DEF HandleGoodResult
    <2>2. CASE CommitsInGetEta
      <3>1. MainHolds'
        BY <1>5, <2>2 DEF HandleGoodResult, Coherent, MainHolds, OpenRows, TypeInv
      <3> QED BY <1>5, <2>2, <1>d, <3>1 DEF HandleGoodResult, ghost
    <2>3. CASE ~CommitsInGetEta
      <3>1. PICK st \in Closed : status' = SetStatus(status, {cur}, st)
        BY <1>5, <2>3 DEF HandleGoodResult, Verification, Closed, Verified
      <3>2. /\ Chain(status') /\ Begun(status', qnext)
            /\ uncounted \subseteq RowsWith(status', {"CANCELLED"})
        BY <2>1, <3>1, CloseRow
      <3>3. MainHolds'
        BY <1>5, <2>1, <1>f, <2>3, EndOfWaitHolds DEF HandleGoodResult, TypeInv, TypeOK
      <3> QED BY <1>5, <1>c, <3>2, <3>3 DEF HandleGoodResult, Coherent, UncountedCancelled, dict, ghost
    <2> QED BY <2>2, <2>3
  <1>6. CASE Verify
    <2>1. cur \in WUs /\ status[cur] \in Open /\ todo = {}
      BY <1>6, CurRow DEF Verify
    <2> QED
      <3>1. PICK st \in Closed : status' = SetStatus(status, {cur}, st)
        BY <1>6 DEF Verify, Verification, Closed, Verified
      <3>2. /\ Chain(status') /\ Begun(status', qnext)
            /\ uncounted \subseteq RowsWith(status', {"CANCELLED"})
        BY <2>1, <3>1, CloseRow
      <3>3. MainHolds'
        BY <1>6, <2>1, <1>f, EndOfWaitHolds DEF Verify, TypeInv, TypeOK
      <3> QED BY <1>6, <1>c, <3>2, <3>3 DEF Verify, Coherent, UncountedCancelled, dict, ghost
  <1>7. CASE HandleErrorResult
    <2>1. cur \in WUs /\ status[cur] \in Open /\ todo = {}
      BY <1>7, CurRow DEF HandleErrorResult
    <2>2. CASE CommitsInGetEta
      <3>1. MainHolds'
        BY <1>7, <2>2 DEF HandleErrorResult, Coherent, MainHolds, OpenRows, TypeInv
      <3> QED BY <1>7, <2>2, <1>d, <3>1 DEF HandleErrorResult, ghost
    <2>3. CASE ~CommitsInGetEta
      <3> DEFINE tab == Verification(status, cur, FALSE)
      <3>1. tab = SetStatus(status, {cur}, "VERIFIED_ERROR") /\ "VERIFIED_ERROR" \in Closed
        BY DEF Verification, Closed, Verified
      <3> HIDE DEF tab
      <3>2. /\ tab \in Table /\ Chain(tab) /\ Begun(tab, qnext)
            /\ tab[cur] = "VERIFIED_ERROR"
            /\ cur[2] < LastAttempt => tab[Next1(cur)] = NoRow
            /\ uncounted \subseteq RowsWith(tab, {"CANCELLED"})
        BY <2>1, <3>1, CloseRow
      <3>3. /\ resubmit_one_wu(tab, cur, MaxWuError) /\ todo' = {}
            /\ rels_found' \in Nat /\ rels_wanted' \in Nat
            /\ qnext' = qnext /\ uncounted' = uncounted
        BY <1>7, <2>1, <2>3, <1>f DEF HandleErrorResult, ghost, tab
      <3>4. /\ MainHolds' /\ Chain(status') /\ Begun(status', qnext)
            /\ \A v \in WUs : tab[v] = "CANCELLED" => status'[v] = "CANCELLED"
        BY <2>1, <3>2, <3>3, ResubmitHolds, Limits, CSTAssumption DEF CSTAssumption
      <3>5. UncountedCancelled'
        BY <3>2, <3>3, <3>4 DEF UncountedCancelled, RowsWith, Table
      <3> QED BY <1>c, <3>3, <3>4, <3>5 DEF Coherent
    <2> QED BY <2>2, <2>3
  <1>8. CASE VerifyError
    <2>1. cur \in WUs /\ status[cur] \in Open /\ todo = {}
      BY <1>8, CurRow DEF VerifyError
    <2> QED
      <3> DEFINE tab == Verification(status, cur, FALSE)
      <3>1. tab = SetStatus(status, {cur}, "VERIFIED_ERROR") /\ "VERIFIED_ERROR" \in Closed
        BY DEF Verification, Closed, Verified
      <3> HIDE DEF tab
      <3>2. /\ tab \in Table /\ Chain(tab) /\ Begun(tab, qnext)
            /\ tab[cur] = "VERIFIED_ERROR"
            /\ cur[2] < LastAttempt => tab[Next1(cur)] = NoRow
            /\ uncounted \subseteq RowsWith(tab, {"CANCELLED"})
        BY <2>1, <3>1, CloseRow
      <3>3. /\ resubmit_one_wu(tab, cur, MaxWuError) /\ todo' = {}
            /\ rels_found' \in Nat /\ rels_wanted' \in Nat
            /\ qnext' = qnext /\ uncounted' = uncounted
        BY <1>8, <2>1, <1>f DEF VerifyError, ghost, tab
      <3>4. /\ MainHolds' /\ Chain(status') /\ Begun(status', qnext)
            /\ \A v \in WUs : tab[v] = "CANCELLED" => status'[v] = "CANCELLED"
        BY <2>1, <3>2, <3>3, ResubmitHolds, Limits, CSTAssumption DEF CSTAssumption
      <3>5. UncountedCancelled'
        BY <3>2, <3>3, <3>4 DEF UncountedCancelled, RowsWith, Table
      <3> QED BY <1>c, <3>3, <3>4, <3>5 DEF Coherent
  <1>9. CASE CreateRow
    <2>1. /\ cur \in WUs /\ cur[2] < LastAttempt
          /\ status[cur] \in {"CANCELLED", "VERIFIED_ERROR"}
          /\ status[Next1(cur)] = NoRow /\ Next1(cur) \in WUs
      BY <1>9, NeighbourType DEF CreateRow, TypeInv, Holding, Coherent, MainHolds
    <2>2. status' = Created(status, Next1(cur)) /\ qnext' = qnext /\ uncounted' = uncounted
      BY <1>9 DEF CreateRow, ghost
    <2>3. Chain(status') /\ Begun(status', qnext)
      BY <2>1, <2>2, AddAttempt
    <2>4. \A v \in WUs : status[v] # NoRow => status'[v] = status[v]
      BY <2>1, <2>2, SetStatusRows DEF Created, WuStatus
    <2>5. UncountedCancelled'
      BY <2>2, <2>4 DEF Coherent, UncountedCancelled, RowsWith, NoRow
    <2>6. todo' \subseteq RowsWith(status', Open)
      BY <1>9, <2>4, StatusKinds DEF CreateRow, Coherent, MainHolds, OpenRows, RowsWith
    <2>7. MainHolds'
      BY <1>9, <2>6, <1>f, EndOfWaitHolds DEF CreateRow
    <2> QED BY <1>c, <2>2, <2>3, <2>5, <2>7 DEF Coherent
  <1>10. CASE ResultRaises
    <2>1. MainHolds'
      BY <1>10 DEF ResultRaises, Coherent, MainHolds, OpenRows, TypeInv, Dies
    <2> QED BY <1>10, <1>d, <2>1 DEF ResultRaises, Dies, dict, ghost
  <1>11. CASE CancelUnhandled
    <2>1. cur \in WUs /\ status[cur] \in Open /\ todo = {}
      BY <1>11, CurRow DEF CancelUnhandled
    <2>2. PICK st \in Closed : /\ st = "CANCELLED" /\ qnext' = qnext
                             /\ status' = SetStatus(status, {cur}, st)
      BY <1>11 DEF CancelUnhandled, Cancel, dict, Closed
    <2>3. /\ Chain(status') /\ Begun(status', qnext) /\ status'[cur] = "CANCELLED"
          /\ uncounted \subseteq RowsWith(status', {"CANCELLED"})
      BY <2>1, <2>2, CloseRow
    <2>4. MainHolds'
      BY <1>11, <2>1 DEF CancelUnhandled, Coherent, MainHolds, TypeInv
    <2>5. UncountedCancelled'
      BY <1>11, <2>1, <2>3 DEF CancelUnhandled, UncountedCancelled, RowsWith
    <2> QED BY <1>c, <2>2, <2>3, <2>4, <2>5 DEF Coherent
  <1>12. ASSUME NEW old \in SUBSET RowsWith(status, {"ASSIGNED"}), QueryTimedOut(old)
        PROVE  Coherent'
    <2>1. todo' \subseteq RowsWith(status', Open)
      BY <1>12 DEF QueryTimedOut, RowsWith, Open
    <2>2. MainHolds'
      BY <1>12, <2>1, <1>f, EndOfWaitHolds DEF QueryTimedOut, dict
    <2> QED BY <1>12, <1>d, <2>2 DEF QueryTimedOut, dict, ghost
  <1>13. CASE SkipTimeoutCheck
    <2>1. todo' \subseteq RowsWith(status', Open)
      BY <1>13 DEF SkipTimeoutCheck, Coherent, MainHolds
    <2>2. MainHolds'
      BY <1>13, <2>1, <1>f, EndOfWaitHolds DEF SkipTimeoutCheck, dict
    <2> QED BY <1>13, <1>d, <2>2 DEF SkipTimeoutCheck, dict, ghost
  <1>14. CASE CancelTimedOut
    <2>0. PICK w \in todo :
             /\ todo' = todo \ {w}
             /\ UNCHANGED <<rels_found, rels_wanted, qnext, ghost>>
             /\ resubmit_one_wu(Cancel(status, {w}), w, MaxResubmit)
      BY <1>14 DEF CancelTimedOut
    <2> DEFINE tab == Cancel(status, {w})
    <2>3. /\ w \in WUs /\ tab \in Table /\ Chain(tab) /\ Begun(tab, qnext)
          /\ tab[w] = "CANCELLED" /\ todo \subseteq OpenRows
          /\ w[2] < LastAttempt => tab[Next1(w)] = NoRow
          /\ RowsWith(tab, Open) = OpenRows \ {w}
          /\ uncounted \subseteq RowsWith(tab, {"CANCELLED"})
      BY CancelRow
    <2> HIDE DEF tab
    <2>4. todo' \subseteq RowsWith(tab, Open)
      BY <2>0, <2>3
    <2>5. resubmit_one_wu(tab, w, MaxResubmit) /\ qnext' = qnext /\ uncounted' = uncounted
      BY <2>0 DEF tab, ghost
    <2>6. /\ MainHolds' /\ Chain(status') /\ Begun(status', qnext)
          /\ \A v \in WUs : tab[v] = "CANCELLED" => status'[v] = "CANCELLED"
      BY <2>0, <2>3, <2>4, <2>5, <1>f, ResubmitHolds, Limits, CSTAssumption
      DEF CSTAssumption
    <2>7. UncountedCancelled'
      BY <2>3, <2>5, <2>6 DEF UncountedCancelled, RowsWith, Table
    <2> QED BY <1>c, <2>5, <2>6, <2>7 DEF Coherent
  <1>15. CASE TooManyTimedOut
    <2>1. MainHolds'
      BY <1>15 DEF TooManyTimedOut, Coherent, MainHolds, OpenRows, TypeInv, Dies
    <2> QED BY <1>15, <1>d, <2>1 DEF TooManyTimedOut, Dies, dict, ghost
  <1>16. CASE RequestMoreRelations
    <2>1. pc' \in Between
      BY <1>16, LoopTypes DEF RequestMoreRelations, TypeInv, TypeOK
    <2>2. MainHolds'
      BY <1>16, <2>1 DEF RequestMoreRelations, Coherent, MainHolds, OpenRows, TypeInv, Between
    <2> QED BY <1>16, <1>d, <2>2 DEF RequestMoreRelations, ghost
  <1>17. CASE HaveEnoughRelations
    <2>1. Available \in SUBSET RowsWith(status, Open)
      BY DEF Available, RowsWith, Open
    <2>2. status' = SetStatus(status, Available, "CANCELLED") /\ qnext' = qnext
      BY <1>17 DEF HaveEnoughRelations, Cancel, dict
    <2>3. Chain(status') /\ Begun(status', qnext)
      BY <2>1, <2>2, MoveRows DEF WuStatus
    <2>4. \A v \in WUs : /\ v \in Available => status'[v] = "CANCELLED"
                         /\ v \notin Available => status'[v] = status[v]
      BY <2>2, SetStatusRows DEF WuStatus
    <2>5. UncountedCancelled'
      BY <1>17, <2>4 DEF HaveEnoughRelations, Coherent, UncountedCancelled, RowsWith, Available
    <2>6. MainHolds'
      BY <1>17 DEF HaveEnoughRelations, Coherent, MainHolds, TypeInv
    <2> QED BY <1>c, <2>2, <2>3, <2>5, <2>6 DEF Coherent
  <1>18. CASE Interrupt
    <2>1. MainHolds'
      BY <1>18 DEF Interrupt, Coherent, MainHolds, OpenRows, TypeInv
    <2> QED BY <1>18, <1>d, <2>1 DEF Interrupt, dict, ghost
  <1>19. CASE Restart
    <2>1. pc' \in Between
      BY <1>19, LoopTypes, CSTAssumption DEF Restart, TypeInv, TypeOK, CSTAssumption
    <2>2. MainHolds'
      BY <1>19, <2>1 DEF Restart, Up, Coherent, MainHolds, OpenRows, TypeInv, Between
    <2> QED BY <1>19, <1>d, <2>2 DEF Restart, ghost
  <1>20. CASE RestartRaises
    <2>1. MainHolds'
      BY <1>20 DEF RestartRaises, Coherent, MainHolds, OpenRows, TypeInv, Dies
    <2> QED BY <1>20, <1>d, <2>1 DEF RestartRaises, Dies, dict, ghost
  <1>21. ASSUME NEW c \in Clients, send_WU(c) PROVE Coherent'
    <2> PICK w \in WUs : CanAssign(status, w) /\ status' = Assign(status, w)
      BY <1>21 DEF send_WU
    <2> QED BY <1>21, OthersHold DEF send_WU, CanAssign, Assign, Open, dict, main, ghost
  <1>22. ASSUME NEW c \in Clients, Execute(c) PROVE Coherent'
    BY <1>22, <1>e DEF Execute, dict, ghost
  <1>23. ASSUME NEW u \in uploads, do_upload(u) PROVE Coherent'
    <2>1. u.wu \in WUs
      BY DEF TypeInv, TypeOK, Uploads
    <2>2. CASE CanResult(status, u.wu)
      <3> PICK out \in Outcomes : status' = Result(status, u.wu, out = "error")
        BY <1>23, <2>2 DEF do_upload
      <3>1. PICK st \in Open : status' = SetStatus(status, {u.wu}, st)
        BY DEF Result, Open, Received
      <3> QED BY <1>23, <2>1, <2>2, <3>1, OthersHold DEF do_upload, CanResult, dict, main, ghost
    <2>3. CASE status' = status
      BY <1>23, <2>3, <1>e DEF do_upload, dict, ghost
    <2> QED BY <1>23, <2>2, <2>3 DEF do_upload
  <1>24. ASSUME NEW u \in uploads, DropStale(u) PROVE Coherent'
    BY <1>24, <1>e DEF DropStale, dict, ghost
  <1>25. CASE Expire
    <2> PICK w \in RowsWith(status, {"ASSIGNED"}) :
             status' = SetStatus(status, {w}, "NEED_RESUBMIT")
      BY <1>25 DEF Expire
    <2>1. w \in WUs /\ status[w] = "ASSIGNED"
      BY DEF RowsWith
    <2> QED BY <1>25, <2>1, OthersHold DEF Expire, Open, dict, ghost
  <1>26. CASE UNCHANGED vars
    BY <1>26, <1>e DEF vars, dict, ghost
  <1> QED
    BY <1>1, <1>2, <1>3, <1>4, <1>5, <1>6, <1>7, <1>8, <1>9,
       <1>10, <1>11, <1>12, <1>13, <1>14, <1>15, <1>16, <1>17, <1>18,
       <1>19, <1>20, <1>21, <1>22, <1>23, <1>24, <1>25, <1>26
    DEF Next, MainStep, UserStep, OtherStep, Terminated

(* However uploads, timeouts, retries and restarts interleave, a range     *)
(* never has two attempts in progress, and none is made after a result was *)
(* accepted.                                                               *)
THEOREM OneAttemptAtATime == Spec => []OneLiveAttempt
  <1>1. TypeInv /\ Coherent => OneLiveAttempt
    BY DEF Coherent
  <1> QED
    BY <1>1, TypeInit, TypeStep, CoherentInit, CoherentStep, PTL DEF Spec

-------------------------------------------------------------------------------
(* Counting. *)

Awaited(tab, unc) == RowsWith(tab, Open) \cup unc

(* There are finitely many workunits. *)
LEMMA FiniteWUs == IsFiniteSet(WUs) /\ \A R \in SUBSET WUs : IsFiniteSet(R) /\ Cardinality(R) \in Nat
  <1>1. IsFiniteSet(Ranges) /\ IsFiniteSet(Attempts)
    BY FS_Interval, Attempt1, CSTAssumption DEF Ranges, Attempts, CSTAssumption
  <1>2. IsFiniteSet(WUs)
    BY <1>1, FS_Product DEF WUs
  <1> QED
    BY <1>2, FS_Subset, FS_CardinalityType

(* The rows the task still has to hear of can be counted. *)
LEMMA AwaitedFinite ==
  ASSUME NEW tab \in Table, NEW unc \in SUBSET WUs
  PROVE  IsFiniteSet(Awaited(tab, unc)) /\ Cardinality(Awaited(tab, unc)) \in Nat
  BY FiniteWUs DEF Awaited, RowsWith, Table

(* A new row is one more to hear of. *)
LEMMA AwaitedCreated ==
  ASSUME NEW tab \in Table, NEW unc \in SUBSET WUs, NEW w \in WUs,
         unc \subseteq RowsWith(tab, {"CANCELLED"}), tab[w] = NoRow
  PROVE  Cardinality(Awaited(Created(tab, w), unc)) = Cardinality(Awaited(tab, unc)) + 1
  <1>1. \A v \in WUs : /\ v = w => Created(tab, w)[v] = "AVAILABLE"
                       /\ v # w => Created(tab, w)[v] = tab[v]
    BY SetStatusRows DEF Created, WuStatus
  <1>2. DOMAIN tab = WUs /\ DOMAIN Created(tab, w) = WUs
    BY DEF Table, Created, SetStatus
  <1>3. Awaited(Created(tab, w), unc) = Awaited(tab, unc) \cup {w}
    BY <1>1, <1>2 DEF Awaited, RowsWith, Open
  <1>4. w \notin Awaited(tab, unc)
    BY StatusKinds DEF Awaited, RowsWith, NoRow
  <1> QED BY <1>3, <1>4, AwaitedFinite, FS_AddElement

(* A row that is settled is one less. *)
LEMMA AwaitedClosed ==
  ASSUME NEW tab \in Table, NEW old \in Table, NEW unc \in SUBSET WUs,
         NEW w \in WUs, old[w] \in Open, w \notin unc,
         RowsWith(tab, Open) = RowsWith(old, Open) \ {w}
  PROVE  Cardinality(Awaited(tab, unc)) = Cardinality(Awaited(old, unc)) - 1
  <1>1. w \in Awaited(old, unc)
    BY DEF Awaited, RowsWith, Table
  <1>2. Awaited(tab, unc) = Awaited(old, unc) \ {w}
    BY DEF Awaited
  <1>3. IsFiniteSet(Awaited(old, unc))
    BY AwaitedFinite
  <1>4. Cardinality(Awaited(old, unc) \ {w}) = Cardinality(Awaited(old, unc)) - 1
    BY <1>1, <1>3, FS_RemoveElement
  <1> QED BY <1>2, <1>4

(* A row that moves among the open ones changes nothing. *)
LEMMA AwaitedMoved ==
  ASSUME NEW tab \in Table, NEW w \in WUs, tab[w] \in Open, NEW st \in Open
  PROVE  RowsWith(SetStatus(tab, {w}, st), Open) = RowsWith(tab, Open)
  <1>1. \A v \in WUs : /\ v = w => SetStatus(tab, {w}, st)[v] = st
                       /\ v # w => SetStatus(tab, {w}, st)[v] = tab[v]
    BY SetStatusRows, StatusKinds
  <1>2. DOMAIN tab = WUs /\ DOMAIN SetStatus(tab, {w}, st) = WUs
    BY DEF Table, SetStatus
  <1> QED BY <1>1, <1>2 DEF RowsWith

Counters == wu_submitted - wu_received - wu_timedout + recounted + Settling

(* OutstandingExact in terms of Counters and Awaited. *)
LEMMA ExactForm == OutstandingExact <=> Counters = Cardinality(Awaited(status, uncounted))
  BY DEF OutstandingExact, Counters, get_number_outstanding_wus, OpenRows, Awaited

(* A fresh database has nothing outstanding. *)
LEMMA ExactInit == Init => OutstandingExact
  <1> SUFFICES ASSUME Init PROVE OutstandingExact OBVIOUS
  <1>1. pc \in Between
    BY LoopTypes, CSTAssumption DEF Init, CSTAssumption
  <1>2. Settling = 0
    BY <1>1 DEF Settling, Between
  <1>3. Awaited(status, uncounted) = {}
    BY DEF Init, Awaited, RowsWith, Open, Received, NoRow
  <1> QED BY <1>2, <1>3, FS_EmptySet, ExactForm DEF Counters, Init

(* resubmit_one_wu() after a row was settled and counted. *)
LEMMA ResubmitExact ==
  ASSUME TypeInv, TypeInv', NEW tab \in Table, Chain(tab), Begun(tab, qnext),
         NEW w \in WUs, tab[w] \in {"CANCELLED", "VERIFIED_ERROR"},
         w[2] < LastAttempt => tab[Next1(w)] = NoRow,
         NEW limit \in Nat, limit <= LastAttempt,
         rels_found' \in Nat, rels_wanted' \in Nat,
         todo' \subseteq RowsWith(tab, Open),
         uncounted \subseteq RowsWith(tab, {"CANCELLED"}), uncounted' = uncounted,
         resubmit_one_wu(tab, w, limit)
  PROVE  /\ \/ /\ wu_submitted' = wu_submitted
               /\ Cardinality(Awaited(status', uncounted')) = Cardinality(Awaited(tab, uncounted))
            \/ /\ wu_submitted' = wu_submitted + 1
               /\ Cardinality(Awaited(status', uncounted')) = Cardinality(Awaited(tab, uncounted)) + 1
         /\ Settling' = 0
  <1>0. wu_submitted \in Nat /\ uncounted \in SUBSET WUs
    BY DEF TypeInv, TypeOK
  <1>1. Cardinality(Awaited(tab, uncounted)) \in Nat
    BY <1>0, AwaitedFinite
  <1>2. \/ /\ status' = tab /\ wu_submitted' = wu_submitted
           /\ pc' \in Between \cup {"create"}
        \/ /\ status' = Created(tab, Next1(w)) /\ wu_submitted' = wu_submitted + 1
           /\ Next1(w) \in WUs /\ tab[Next1(w)] = NoRow
           /\ pc' \in Between
    BY ResubmitHolds
  <1>3. Settling' = 0
    BY <1>2 DEF Settling, Between
  <1>4. CASE status' = tab /\ wu_submitted' = wu_submitted
    BY <1>3, <1>4
  <1>5. CASE /\ status' = Created(tab, Next1(w)) /\ wu_submitted' = wu_submitted + 1
             /\ Next1(w) \in WUs /\ tab[Next1(w)] = NoRow
    <2>1. Cardinality(Awaited(status', uncounted)) = Cardinality(Awaited(tab, uncounted)) + 1
      BY <1>0, <1>5, AwaitedCreated
    <2> QED BY <1>0, <1>1, <1>3, <1>5, <2>1
  <1> QED BY <1>2, <1>4, <1>5

(* Every step moves the counters by as much as it moves the rows. *)
LEMMA ExactStep ==
  TypeInv /\ Coherent /\ OutstandingExact /\ [Next]_vars => OutstandingExact'
  <1> SUFFICES ASSUME TypeInv, Coherent, OutstandingExact, [Next]_vars
               PROVE  OutstandingExact'
    OBVIOUS
  <1>t. TypeInv' /\ Coherent'
    BY TypeStep, CoherentStep
  <1>a. /\ status \in Table /\ status' \in Table
        /\ uncounted \in SUBSET WUs /\ uncounted' \in SUBSET WUs
        /\ wu_submitted \in Nat /\ wu_received \in Nat /\ wu_timedout \in Nat
        /\ recounted \in Nat /\ rels_found \in Nat /\ rels_wanted \in Nat
        /\ uncounted \subseteq RowsWith(status, {"CANCELLED"})
    BY <1>t DEF TypeInv, TypeOK, Table, Coherent, UncountedCancelled
  <1>b. /\ Chain(status) /\ Begun(status, qnext)
        /\ Cardinality(Awaited(status, uncounted)) \in Nat
    BY <1>a, ChainIsOneLiveAttempt, AwaitedFinite DEF Coherent
  <1>c. Counters = Cardinality(Awaited(status, uncounted))
    BY ExactForm
  <1>d. OutstandingExact' <=> Counters' = Cardinality(Awaited(status', uncounted'))
    BY DEF OutstandingExact, Counters, get_number_outstanding_wus, OpenRows, Awaited
  <1>e. ASSUME UNCHANGED <<wu_submitted, wu_received, wu_timedout, recounted>>,
               Settling' = Settling,
               Awaited(status', uncounted') = Awaited(status, uncounted)
        PROVE  OutstandingExact'
    BY <1>c, <1>d, <1>e DEF Counters
  <1>f. Settling \in {0, 1} /\ (pc \notin {"verify", "everify"} => Settling = 0)
    BY DEF Settling
  <1>1. CASE submit_command
    <2>1. qnext \in Ranges
      BY <1>1 DEF submit_command, TypeInv, TypeOK, Ranges
    <2>2. status[<<qnext, 1>>] = NoRow /\ <<qnext, 1>> \in WUs
      BY <1>a, <1>b, <2>1, AddRange
    <2>3. Cardinality(Awaited(Created(status, <<qnext, 1>>), uncounted))
            = Cardinality(Awaited(status, uncounted)) + 1
      BY <1>a, <2>2, AwaitedCreated
    <2>4. pc' \in Between
      BY <1>1, <1>t, LoopTypes DEF submit_command, TypeInv, TypeOK
    <2>5. Settling = 0 /\ Settling' = 0
      BY <1>1, <2>4 DEF submit_command, Settling, Between
    <2>6. /\ status' = Created(status, <<qnext, 1>>) /\ uncounted' = uncounted
          /\ wu_submitted' = wu_submitted + 1
          /\ UNCHANGED <<wu_received, wu_timedout, recounted>>
      BY <1>1 DEF submit_command, ghost
    <2> QED BY <1>a, <1>b, <1>c, <1>d, <2>3, <2>5, <2>6 DEF Counters
  <1>2. CASE WaitForAvailable
    <2>1. Settling' = Settling
      BY <1>2 DEF WaitForAvailable, Settling
    <2> QED BY <1>2, <1>e, <2>1 DEF WaitForAvailable, dict, ghost
  <1>3. CASE TakeResult
    <2>1. Settling' = Settling
      BY <1>3 DEF TakeResult, Settling
    <2> QED BY <1>3, <1>e, <2>1 DEF TakeResult, dict, ghost
  <1>4. CASE NoResult
    <2>1. Settling' = Settling
      BY <1>4 DEF NoResult, Settling
    <2> QED BY <1>4, <1>e, <2>1 DEF NoResult, dict, ghost
  <1>5. CASE HandleGoodResult
    <2>1. cur \in WUs /\ status[cur] \in Open
      BY <1>5, CurRow DEF HandleGoodResult
    <2>2. Settling = 0
      BY <1>5 DEF HandleGoodResult, Settling
    <2>3. CASE CommitsInGetEta
      <3>1. /\ status' = status /\ uncounted' = uncounted /\ Settling' = 1
            /\ wu_received' = wu_received + 1 /\ UNCHANGED <<wu_submitted, wu_timedout, recounted>>
        BY <1>5, <2>3 DEF HandleGoodResult, Settling, ghost
      <3> QED BY <1>a, <1>b, <1>c, <1>d, <2>2, <3>1 DEF Counters
    <2>4. CASE ~CommitsInGetEta
      <3>0. rels_found' \in Nat /\ rels_wanted' \in Nat
        BY <1>5, <1>a DEF HandleGoodResult
      <3>1. PICK st \in Closed : status' = SetStatus(status, {cur}, st)
        BY <1>5, <2>4 DEF HandleGoodResult, Verification, Closed, Verified
      <3>2. cur \notin uncounted /\ RowsWith(status', Open) = OpenRows \ {cur}
        BY <2>1, <3>1, CloseRow
      <3>3. Cardinality(Awaited(status', uncounted)) = Cardinality(Awaited(status, uncounted)) - 1
        BY <1>a, <2>1, <3>2, AwaitedClosed DEF OpenRows
      <3>4. pc' \in Between
        BY <1>5, <2>4, <3>0, EndOfWaitType DEF HandleGoodResult, dict
      <3>5. Settling' = 0
        BY <3>4 DEF Settling, Between
      <3>6. /\ uncounted' = uncounted /\ wu_received' = wu_received + 1 /\ UNCHANGED <<wu_submitted, wu_timedout, recounted>>
        BY <1>5 DEF HandleGoodResult, dict, ghost
      <3> QED BY <1>a, <1>b, <1>c, <1>d, <1>f, <2>2, <3>3, <3>5, <3>6 DEF Counters
    <2> QED BY <2>3, <2>4
  <1>6. CASE Verify
    <2>1. cur \in WUs /\ status[cur] \in Open
      BY <1>6, CurRow DEF Verify
    <2>2. Settling = 1
      BY <1>6 DEF Verify, Settling
    <2> QED
      <3>1. PICK st \in Closed : status' = SetStatus(status, {cur}, st)
        BY <1>6 DEF Verify, Verification, Closed, Verified
      <3>2. cur \notin uncounted /\ RowsWith(status', Open) = OpenRows \ {cur}
        BY <2>1, <3>1, CloseRow
      <3>3. Cardinality(Awaited(status', uncounted)) = Cardinality(Awaited(status, uncounted)) - 1
        BY <1>a, <2>1, <3>2, AwaitedClosed DEF OpenRows
      <3>4. pc' \in Between
        BY <1>6, <1>a, EndOfWaitType DEF Verify, dict
      <3>5. Settling' = 0
        BY <3>4 DEF Settling, Between
      <3>6. /\ uncounted' = uncounted /\ UNCHANGED <<wu_submitted, wu_received, wu_timedout, recounted>>
        BY <1>6 DEF Verify, dict, ghost
      <3> QED BY <1>a, <1>b, <1>c, <1>d, <1>f, <2>2, <3>3, <3>5, <3>6 DEF Counters
  <1>7. CASE HandleErrorResult
    <2>1. cur \in WUs /\ status[cur] \in Open
      BY <1>7, CurRow DEF HandleErrorResult
    <2>2. Settling = 0
      BY <1>7 DEF HandleErrorResult, Settling
    <2>3. CASE CommitsInGetEta
      <3>1. /\ status' = status /\ uncounted' = uncounted /\ Settling' = 1
            /\ wu_received' = wu_received + 1 /\ UNCHANGED <<wu_submitted, wu_timedout, recounted>>
        BY <1>7, <2>3 DEF HandleErrorResult, Settling, ghost
      <3> QED BY <1>a, <1>b, <1>c, <1>d, <2>2, <3>1 DEF Counters
    <2>4. CASE ~CommitsInGetEta
      <3> DEFINE tab == Verification(status, cur, FALSE)
      <3>1. tab = SetStatus(status, {cur}, "VERIFIED_ERROR") /\ "VERIFIED_ERROR" \in Closed
        BY DEF Verification, Closed, Verified
      <3> HIDE DEF tab
      <3>2. /\ tab \in Table /\ Chain(tab) /\ Begun(tab, qnext)
            /\ tab[cur] = "VERIFIED_ERROR" /\ cur \notin uncounted
            /\ cur[2] < LastAttempt => tab[Next1(cur)] = NoRow
            /\ RowsWith(tab, Open) = OpenRows \ {cur}
            /\ uncounted \subseteq RowsWith(tab, {"CANCELLED"})
        BY <2>1, <3>1, CloseRow
      <3>3. Cardinality(Awaited(tab, uncounted)) = Cardinality(Awaited(status, uncounted)) - 1
        BY <1>a, <2>1, <3>2, AwaitedClosed DEF OpenRows
      <3>4. /\ resubmit_one_wu(tab, cur, MaxWuError) /\ todo' = {}
            /\ rels_found' \in Nat /\ rels_wanted' \in Nat
            /\ uncounted' = uncounted
        BY <1>7, <2>4, <1>a, CurRow DEF HandleErrorResult, ghost, tab
      <3>5. wu_received' = wu_received + 1 /\ UNCHANGED <<wu_timedout, recounted>>
        BY <1>7 DEF HandleErrorResult, ghost
      <3>6. /\ \/ /\ wu_submitted' = wu_submitted
                  /\ Cardinality(Awaited(status', uncounted')) = Cardinality(Awaited(tab, uncounted))
               \/ /\ wu_submitted' = wu_submitted + 1
                  /\ Cardinality(Awaited(status', uncounted')) = Cardinality(Awaited(tab, uncounted)) + 1
            /\ Settling' = 0
        BY <1>t, <2>1, <3>2, <3>4, ResubmitExact, Limits, CSTAssumption DEF CSTAssumption
      <3>7. wu_submitted' \in Nat /\ Cardinality(Awaited(status', uncounted')) \in Nat
        BY <1>t, <1>a, AwaitedFinite DEF TypeInv, TypeOK
      <3> QED BY <1>a, <1>b, <1>c, <1>d, <2>2, <3>3, <3>5, <3>6, <3>7 DEF Counters
    <2> QED BY <2>3, <2>4
  <1>8. CASE VerifyError
    <2>1. cur \in WUs /\ status[cur] \in Open
      BY <1>8, CurRow DEF VerifyError
    <2>2. Settling = 1
      BY <1>8 DEF VerifyError, Settling
    <2> QED
      <3> DEFINE tab == Verification(status, cur, FALSE)
      <3>1. tab = SetStatus(status, {cur}, "VERIFIED_ERROR") /\ "VERIFIED_ERROR" \in Closed
        BY DEF Verification, Closed, Verified
      <3> HIDE DEF tab
      <3>2. /\ tab \in Table /\ Chain(tab) /\ Begun(tab, qnext)
            /\ tab[cur] = "VERIFIED_ERROR" /\ cur \notin uncounted
            /\ cur[2] < LastAttempt => tab[Next1(cur)] = NoRow
            /\ RowsWith(tab, Open) = OpenRows \ {cur}
            /\ uncounted \subseteq RowsWith(tab, {"CANCELLED"})
        BY <2>1, <3>1, CloseRow
      <3>3. Cardinality(Awaited(tab, uncounted)) = Cardinality(Awaited(status, uncounted)) - 1
        BY <1>a, <2>1, <3>2, AwaitedClosed DEF OpenRows
      <3>4. /\ resubmit_one_wu(tab, cur, MaxWuError) /\ todo' = {}
            /\ rels_found' \in Nat /\ rels_wanted' \in Nat
            /\ uncounted' = uncounted
        BY <1>8, <2>1, <1>a, CurRow DEF VerifyError, ghost, tab
      <3>5. wu_received' = wu_received /\ wu_timedout' = wu_timedout /\ recounted' = recounted
        BY <1>8 DEF VerifyError, ghost
      <3>6. /\ \/ /\ wu_submitted' = wu_submitted
                  /\ Cardinality(Awaited(status', uncounted')) = Cardinality(Awaited(tab, uncounted))
               \/ /\ wu_submitted' = wu_submitted + 1
                  /\ Cardinality(Awaited(status', uncounted')) = Cardinality(Awaited(tab, uncounted)) + 1
            /\ Settling' = 0
        BY <1>t, <2>1, <3>2, <3>4, ResubmitExact, Limits, CSTAssumption DEF CSTAssumption
      <3>7. wu_submitted' \in Nat /\ Cardinality(Awaited(status', uncounted')) \in Nat
        BY <1>t, <1>a, AwaitedFinite DEF TypeInv, TypeOK
      <3>8. Cardinality(Awaited(status', uncounted'))
              = wu_submitted' - wu_received - wu_timedout + recounted
        <4>1. Cardinality(Awaited(status, uncounted))
                = wu_submitted - wu_received - wu_timedout + recounted + 1
          BY <1>c, <2>2 DEF Counters
        <4> QED BY <1>a, <1>b, <3>3, <3>6, <3>7, <4>1
      <3> QED BY <1>a, <1>d, <3>5, <3>6, <3>7, <3>8 DEF Counters
  <1>9. CASE CreateRow
    <2>1. status[Next1(cur)] = NoRow /\ Next1(cur) \in WUs
      BY <1>9, NeighbourType DEF CreateRow, TypeInv, Holding, Coherent, MainHolds
    <2>2. Cardinality(Awaited(Created(status, Next1(cur)), uncounted))
            = Cardinality(Awaited(status, uncounted)) + 1
      BY <1>a, <2>1, AwaitedCreated
    <2>3. pc' \in Between
      BY <1>9, <1>a, EndOfWaitType DEF CreateRow
    <2>4. Settling = 0 /\ Settling' = 0
      BY <1>9, <2>3 DEF CreateRow, Settling, Between
    <2>5. /\ status' = Created(status, Next1(cur)) /\ uncounted' = uncounted
          /\ wu_submitted' = wu_submitted + 1
          /\ UNCHANGED <<wu_received, wu_timedout, recounted>>
      BY <1>9 DEF CreateRow, ghost
    <2> QED BY <1>a, <1>b, <1>c, <1>d, <2>2, <2>4, <2>5 DEF Counters
  <1>10. CASE ResultRaises
    <2>1. Settling' = Settling
      BY <1>10 DEF ResultRaises, Settling, Dies
    <2> QED BY <1>10, <1>e, <2>1 DEF ResultRaises, dict, ghost, Dies
  <1>11. CASE CancelUnhandled
    <2>1. cur \in WUs /\ status[cur] \in Open
      BY <1>11, CurRow DEF CancelUnhandled
    <2>2. \A v \in WUs : /\ v = cur => status'[v] = "CANCELLED"
                         /\ v # cur => status'[v] = status[v]
      BY <1>11, <1>a, SetStatusRows DEF CancelUnhandled, Cancel, WuStatus
    <2>3. uncounted' = uncounted \cup {cur}
      BY <1>11 DEF CancelUnhandled
    <2>4. Awaited(status', uncounted') = Awaited(status, uncounted)
      BY <1>a, <2>1, <2>2, <2>3 DEF Awaited, RowsWith, Table, Open, Received
    <2>5. Settling' = Settling
      BY <1>11 DEF CancelUnhandled, Settling
    <2> QED BY <1>11, <1>e, <2>4, <2>5 DEF CancelUnhandled, dict
  <1>12. ASSUME NEW old \in SUBSET RowsWith(status, {"ASSIGNED"}), QueryTimedOut(old)
        PROVE  OutstandingExact'
    <2>1. pc' \in Between
      BY <1>12, <1>a, EndOfWaitType DEF QueryTimedOut, dict
    <2>2. Settling' = Settling
      BY <1>12, <2>1 DEF QueryTimedOut, Settling, Between
    <2> QED BY <1>12, <1>e, <2>2 DEF QueryTimedOut, dict, ghost
  <1>13. CASE SkipTimeoutCheck
    <2>1. pc' \in Between
      BY <1>13, <1>a, EndOfWaitType DEF SkipTimeoutCheck, dict
    <2>2. Settling' = Settling
      BY <1>13, <2>1 DEF SkipTimeoutCheck, Settling, Between
    <2> QED BY <1>13, <1>e, <2>2 DEF SkipTimeoutCheck, dict, ghost
  <1>14. CASE CancelTimedOut
    <2>0. PICK w \in todo :
             /\ todo' = todo \ {w} /\ wu_timedout' = wu_timedout + 1
             /\ UNCHANGED <<rels_found, rels_wanted, wu_received, ghost>>
             /\ resubmit_one_wu(Cancel(status, {w}), w, MaxResubmit)
      BY <1>14 DEF CancelTimedOut
    <2> DEFINE tab == Cancel(status, {w})
    <2>1. /\ w \in WUs /\ status[w] \in Open /\ w \notin uncounted
          /\ tab \in Table /\ Chain(tab) /\ Begun(tab, qnext)
          /\ tab[w] = "CANCELLED" /\ todo \subseteq OpenRows
          /\ w[2] < LastAttempt => tab[Next1(w)] = NoRow
          /\ RowsWith(tab, Open) = OpenRows \ {w}
          /\ uncounted \subseteq RowsWith(tab, {"CANCELLED"})
      BY CancelRow
    <2>2. /\ resubmit_one_wu(tab, w, MaxResubmit) /\ uncounted' = uncounted
          /\ UNCHANGED <<rels_found, rels_wanted, wu_received, recounted>>
          /\ wu_timedout' = wu_timedout + 1
      BY <2>0 DEF ghost
    <2> HIDE DEF tab
    <2>3. Cardinality(Awaited(tab, uncounted)) = Cardinality(Awaited(status, uncounted)) - 1
      BY <1>a, <2>1, AwaitedClosed DEF OpenRows
    <2>4. todo' \subseteq RowsWith(tab, Open)
      BY <2>0, <2>1
    <2>5. /\ \/ /\ wu_submitted' = wu_submitted
                /\ Cardinality(Awaited(status', uncounted')) = Cardinality(Awaited(tab, uncounted))
             \/ /\ wu_submitted' = wu_submitted + 1
                /\ Cardinality(Awaited(status', uncounted')) = Cardinality(Awaited(tab, uncounted)) + 1
          /\ Settling' = 0
      BY <1>t, <1>a, <2>1, <2>2, <2>4, ResubmitExact, Limits, CSTAssumption DEF CSTAssumption
    <2>6. wu_submitted' \in Nat /\ Cardinality(Awaited(status', uncounted')) \in Nat
      BY <1>t, <1>a, AwaitedFinite DEF TypeInv, TypeOK
    <2>7. Settling = 0
      BY <1>14 DEF CancelTimedOut, Settling
    <2>8. UNCHANGED <<wu_received, recounted>> /\ wu_timedout' = wu_timedout + 1
      BY <2>2
    <2> QED BY <1>a, <1>b, <1>c, <1>d, <2>3, <2>5, <2>6, <2>7, <2>8 DEF Counters
  <1>15. CASE TooManyTimedOut
    <2>1. Settling' = Settling
      BY <1>15 DEF TooManyTimedOut, Settling, Dies
    <2> QED BY <1>15, <1>e, <2>1 DEF TooManyTimedOut, dict, ghost, Dies
  <1>16. CASE RequestMoreRelations
    <2>1. pc' \in Between
      BY <1>16, LoopTypes DEF RequestMoreRelations, TypeInv, TypeOK
    <2>2. Settling' = Settling
      BY <1>16, <2>1 DEF RequestMoreRelations, Settling, Between
    <2> QED BY <1>16, <1>e, <2>2 DEF RequestMoreRelations, ghost
  <1>17. CASE HaveEnoughRelations
    <2>1. \A v \in WUs : /\ v \in Available => status'[v] = "CANCELLED"
                         /\ v \notin Available => status'[v] = status[v]
      BY <1>17, <1>a, SetStatusRows DEF HaveEnoughRelations, Cancel, WuStatus
    <2>2. uncounted' = uncounted \cup Available
      BY <1>17 DEF HaveEnoughRelations
    <2>3. Awaited(status', uncounted') = Awaited(status, uncounted)
      BY <1>a, <2>1, <2>2 DEF Awaited, RowsWith, Table, Open, Received, Available
    <2>4. Settling' = Settling
      BY <1>17 DEF HaveEnoughRelations, Settling
    <2> QED BY <1>17, <1>e, <2>3, <2>4 DEF HaveEnoughRelations, dict
  <1>18. CASE Interrupt
    <2>1. Settling' = 0
      BY <1>18 DEF Interrupt, Settling
    <2>2. recounted' = recounted + Settling
      BY <1>18, <1>a DEF Interrupt, Settling
    <2>3. UNCHANGED <<status, uncounted, wu_submitted, wu_received, wu_timedout>>
      BY <1>18 DEF Interrupt, dict
    <2> QED BY <1>a, <1>c, <1>d, <1>f, <2>1, <2>2, <2>3 DEF Counters
  <1>19. CASE Restart
    <2>1. pc' \in Between
      BY <1>19, <1>a, LoopTypes, CSTAssumption DEF Restart, TypeInv, TypeOK, CSTAssumption
    <2>2. Settling' = Settling
      BY <1>19, <2>1 DEF Restart, Up, Settling, Between
    <2> QED BY <1>19, <1>e, <2>2 DEF Restart, ghost
  <1>20. CASE RestartRaises
    <2>1. Settling' = Settling
      BY <1>20 DEF RestartRaises, Up, Settling, Dies
    <2> QED BY <1>20, <1>e, <2>1 DEF RestartRaises, Dies, dict, ghost
  <1>21. ASSUME NEW c \in Clients, send_WU(c) PROVE OutstandingExact'
    <2>0. PICK w \in WUs : CanAssign(status, w) /\ status' = Assign(status, w)
      BY <1>21 DEF send_WU
    <2>1. Awaited(status', uncounted) = Awaited(status, uncounted)
      BY <1>a, <2>0, AwaitedMoved DEF CanAssign, Assign, Open, Awaited
    <2>2. Settling' = Settling
      BY <1>21 DEF send_WU, main, Settling
    <2> QED BY <1>21, <1>e, <2>1, <2>2 DEF send_WU, dict, ghost
  <1>22. ASSUME NEW c \in Clients, Execute(c) PROVE OutstandingExact'
    <2>1. Settling' = Settling
      BY <1>22 DEF Execute, main, Settling
    <2> QED BY <1>22, <1>e, <2>1 DEF Execute, dict, ghost
  <1>23. ASSUME NEW u \in uploads, do_upload(u) PROVE OutstandingExact'
    <2>1. Settling' = Settling
      BY <1>23 DEF do_upload, main, Settling
    <2>2. u.wu \in WUs
      BY DEF TypeInv, TypeOK, Uploads
    <2>3. Awaited(status', uncounted) = Awaited(status, uncounted)
      <3>1. CASE CanResult(status, u.wu)
        <4>0. PICK out \in Outcomes : status' = Result(status, u.wu, out = "error")
          BY <1>23, <3>1 DEF do_upload
        <4>1. PICK st \in Open : status' = SetStatus(status, {u.wu}, st)
          BY <4>0 DEF Result, Open, Received
        <4> QED BY <1>a, <2>2, <3>1, <4>1, AwaitedMoved DEF CanResult, Open, Awaited
      <3>2. CASE status' = status
        BY <3>2
      <3> QED BY <1>23, <3>1, <3>2 DEF do_upload
    <2> QED BY <1>23, <1>e, <2>1, <2>3 DEF do_upload, dict, ghost
  <1>24. ASSUME NEW u \in uploads, DropStale(u) PROVE OutstandingExact'
    <2>1. Settling' = Settling
      BY <1>24 DEF DropStale, main, Settling
    <2> QED BY <1>24, <1>e, <2>1 DEF DropStale, dict, ghost
  <1>25. CASE Expire
    <2>0. PICK w \in RowsWith(status, {"ASSIGNED"}) :
             status' = SetStatus(status, {w}, "NEED_RESUBMIT")
      BY <1>25 DEF Expire
    <2>1. w \in WUs /\ status[w] \in Open /\ "NEED_RESUBMIT" \in Open
      BY <1>a DEF RowsWith, Table, Open
    <2>2. Awaited(status', uncounted) = Awaited(status, uncounted)
      BY <1>a, <2>0, <2>1, AwaitedMoved DEF Awaited
    <2>3. Settling' = Settling
      BY <1>25 DEF Expire, main, Settling
    <2> QED BY <1>25, <1>e, <2>2, <2>3 DEF Expire, dict, ghost
  <1>26. CASE UNCHANGED vars
    <2>1. Settling' = Settling
      BY <1>26 DEF vars, main, Settling
    <2> QED BY <1>26, <1>e, <2>1 DEF vars, dict, ghost
  <1> QED
    BY <1>1, <1>2, <1>3, <1>4, <1>5, <1>6, <1>7, <1>8, <1>9,
       <1>10, <1>11, <1>12, <1>13, <1>14, <1>15, <1>16, <1>17, <1>18,
       <1>19, <1>20, <1>21, <1>22, <1>23, <1>24, <1>25, <1>26
    DEF Next, MainStep, UserStep, OtherStep, Terminated

(* The number of workunits the main thread believes to be outstanding is   *)
(* the number of rows it still has to hear of, but for rows cancelled      *)
(* without being counted and results an interruption made count twice.     *)
THEOREM CountersExact == Spec => []OutstandingExact
  <1>1. Init => TypeInv /\ Coherent /\ OutstandingExact
    BY TypeInit, CoherentInit, ExactInit
  <1>2. TypeInv /\ Coherent /\ OutstandingExact /\ [Next]_vars
          => (TypeInv /\ Coherent /\ OutstandingExact)'
    BY TypeStep, CoherentStep, ExactStep
  <1> QED
    BY <1>1, <1>2, PTL DEF Spec

(* The whole inductive invariant, as the runs check it. *)
THEOREM Inductive == Spec => []IInv
  <1>1. Init => TypeInv /\ Coherent /\ OutstandingExact
    BY TypeInit, CoherentInit, ExactInit
  <1>2. TypeInv /\ Coherent /\ OutstandingExact /\ [Next]_vars
          => (TypeInv /\ Coherent /\ OutstandingExact)'
    BY TypeStep, CoherentStep, ExactStep
  <1>3. TypeInv /\ Coherent /\ OutstandingExact => IInv
    BY DEF IInv, TypeInv, Coherent
  <1> QED
    BY <1>1, <1>2, <1>3, PTL DEF Spec

-------------------------------------------------------------------------------
(* The life of a row. *)

(* What one transaction may make of the status of a row, but for result(). *)
RowMoves(s, t) ==
  \/ t = s
  \/ s = NoRow /\ t = "AVAILABLE"
  \/ s = "AVAILABLE" /\ t = "ASSIGNED"
  \/ s = "ASSIGNED" /\ t = "NEED_RESUBMIT"
  \/ s \in Open /\ t \in Closed

(* result(): the first upload for a row that is ASSIGNED. *)
Accepted(w, out) ==
  /\ CanResult(status, w)
  /\ status' = Result(status, w, out = "error")
  /\ outcome' = [outcome EXCEPT ![w] = out]

(* A single row moves: the others are left alone. *)
LEMMA OneRowMoves ==
  ASSUME NEW tab \in Table, NEW w \in WUs, NEW s \in WuStatus, RowMoves(tab[w], s)
  PROVE  \A v \in WUs : RowMoves(tab[v], SetStatus(tab, {w}, s)[v])
  BY SetStatusRows DEF RowMoves

(* Settling an open row is a move. *)
LEMMA ClosingMoves ==
  ASSUME NEW w \in WUs, status \in Table, status[w] \in Open, NEW st \in Closed,
         status' = SetStatus(status, {w}, st)
  PROVE  \A v \in WUs : RowMoves(status[v], status'[v])
  <1>1. RowMoves(status[w], st) /\ st \in WuStatus
    BY StatusKinds DEF RowMoves
  <1> QED BY <1>1, OneRowMoves

(* resubmit_one_wu() closes a row and may create the one after it. *)
LEMMA ResubmitMoves ==
  ASSUME TypeInv, TypeInv', Coherent, NEW w \in WUs, status[w] \in Open,
         NEW st \in {"CANCELLED", "VERIFIED_ERROR"},
         NEW tab, tab = SetStatus(status, {w}, st),
         NEW limit \in Nat, limit <= LastAttempt,
         rels_found' \in Nat, rels_wanted' \in Nat,
         todo' \subseteq OpenRows \ {w},
         resubmit_one_wu(tab, w, limit)
  PROVE  /\ \A v \in WUs : RowMoves(status[v], status'[v])
         /\ status'[w] = st
         /\ \A v \in WUs : v # w => status'[v] \in {status[v], "AVAILABLE"}
  <1>1. PICK cl \in Closed : cl = st
    BY DEF Closed, Verified
  <1>0. tab = SetStatus(status, {w}, cl)
    BY <1>1
  <1>2. /\ tab \in Table /\ Chain(tab) /\ Begun(tab, qnext)
        /\ tab[w] = cl /\ w \notin uncounted
        /\ \A v \in WUs : v # w => tab[v] = status[v]
        /\ w[2] < LastAttempt => tab[Next1(w)] = NoRow
        /\ RowsWith(tab, Open) = OpenRows \ {w}
        /\ uncounted \subseteq RowsWith(tab, {"CANCELLED"})
    BY <1>0, CloseRow, Zenon
  <1>3. \/ status' = tab
        \/ /\ status' = Created(tab, Next1(w))
           /\ Next1(w) \in WUs /\ tab[Next1(w)] = NoRow
    BY <1>0, <1>1, <1>2, ResubmitHolds
  <1>4. CASE status' = tab
    BY <1>1, <1>2, <1>4 DEF RowMoves
  <1>5. CASE status' = Created(tab, Next1(w)) /\ Next1(w) \in WUs /\ tab[Next1(w)] = NoRow
    <2>1. \A v \in WUs : /\ v = Next1(w) => status'[v] = "AVAILABLE"
                         /\ v # Next1(w) => status'[v] = tab[v]
      BY <1>2, <1>5, SetStatusRows DEF Created, WuStatus
    <2>2. Next1(w) # w
      BY <1>1, <1>2, <1>5, StatusKinds
    <2> QED BY <1>1, <1>2, <1>5, <2>1, <2>2 DEF RowMoves
  <1> QED BY <1>3, <1>4, <1>5

(* Only do_upload() says what a result is. *)
LEMMA OnlyUploadWrites ==
  ASSUME [Next]_vars
  PROVE  outcome' = outcome \/ \E u \in uploads : do_upload(u)
  <1>1. CASE MainStep
    BY <1>1 DEF MainStep, submit_command, WaitForAvailable, TakeResult, NoResult,
      HandleGoodResult, Verify, HandleErrorResult, VerifyError, CreateRow,
      ResultRaises, CancelUnhandled, QueryTimedOut, SkipTimeoutCheck,
      CancelTimedOut, TooManyTimedOut, Dies
  <1>2. CASE UserStep
    BY <1>2 DEF UserStep, RequestMoreRelations, HaveEnoughRelations, Interrupt,
      Restart, RestartRaises, Expire, Dies
  <1>3. CASE OtherStep
    BY <1>3 DEF OtherStep, send_WU, Execute, DropStale
  <1>4. CASE UNCHANGED vars
    BY <1>4 DEF vars
  <1> QED
    BY <1>1, <1>2, <1>3, <1>4 DEF Next, Terminated

(* No step of any actor moves a row against its life cycle, and nothing    *)
(* but an accepted upload says what the result of a row is.                *)
LEMMA RowStep ==
  TypeInv /\ Coherent /\ [Next]_vars =>
    \/ outcome' = outcome /\ \A w \in WUs : RowMoves(status[w], status'[w])
    \/ \E w \in WUs, out \in Outcomes : Accepted(w, out)
  <1> DEFINE Goal == \A w \in WUs : RowMoves(status[w], status'[w])
             Upload == \E w \in WUs, out \in Outcomes : Accepted(w, out)
  <1> SUFFICES ASSUME TypeInv, Coherent, [Next]_vars PROVE (outcome' = outcome /\ Goal) \/ Upload
    OBVIOUS
  <1>t. TypeInv'
    BY TypeStep
  <1>a. /\ status \in Table /\ DOMAIN status = WUs
        /\ rels_found' \in Nat /\ rels_wanted' \in Nat
    BY <1>t DEF TypeInv, TypeOK, Table
  <1>b. ASSUME status' = status PROVE Goal
    BY <1>b DEF RowMoves
  <1>1. ASSUME submit_command
        PROVE  Goal
    <2>1. qnext \in Ranges /\ Chain(status) /\ Begun(status, qnext)
      BY <1>1, ChainIsOneLiveAttempt, CSTAssumption
      DEF submit_command, TypeInv, TypeOK, Coherent, Ranges, CSTAssumption
    <2>2. <<qnext, 1>> \in WUs /\ status[<<qnext, 1>>] = NoRow
      BY <1>a, <2>1, AddRange
    <2> QED BY <1>1, <1>a, <2>2, OneRowMoves DEF submit_command, Created, RowMoves, WuStatus
  <1>2. ASSUME WaitForAvailable \/ TakeResult \/ NoResult
        PROVE  Goal
    BY <1>2, <1>b DEF WaitForAvailable, TakeResult, NoResult
  <1>3. ASSUME HandleGoodResult
        PROVE  Goal
    <2>1. cur \in WUs /\ status[cur] \in Open
      BY <1>3, CurRow DEF HandleGoodResult
    <2>2. CASE CommitsInGetEta
      BY <1>3, <2>2, <1>b DEF HandleGoodResult
    <2>3. CASE ~CommitsInGetEta
      <3>1. PICK st \in Closed : status' = SetStatus(status, {cur}, st)
        BY <1>3, <2>3 DEF HandleGoodResult, Verification, Closed, Verified
      <3> QED BY <1>a, <2>1, <3>1, ClosingMoves
    <2> QED BY <2>2, <2>3
  <1>4. ASSUME Verify
        PROVE  Goal
    <2>1. cur \in WUs /\ status[cur] \in Open
      BY <1>4, CurRow DEF Verify
    <2>2. PICK st \in Closed : status' = SetStatus(status, {cur}, st)
      BY <1>4 DEF Verify, Verification, Closed, Verified
    <2> QED BY <1>a, <2>1, <2>2, ClosingMoves
  <1>5. ASSUME HandleErrorResult
        PROVE  Goal
    <2>1. cur \in WUs /\ status[cur] \in Open /\ todo = {} /\ todo' = todo
      BY <1>5, CurRow DEF HandleErrorResult
    <2>2. CASE CommitsInGetEta
      BY <1>5, <2>2, <1>b DEF HandleErrorResult
    <2>3. CASE ~CommitsInGetEta
      BY <1>5, <2>1, <2>3, <1>a, <1>t, ResubmitMoves, Limits, CSTAssumption
      DEF HandleErrorResult, Verification, CSTAssumption
    <2> QED BY <2>2, <2>3
  <1>6. ASSUME VerifyError
        PROVE  Goal
    <2>1. cur \in WUs /\ status[cur] \in Open /\ todo = {} /\ todo' = todo
      BY <1>6, CurRow DEF VerifyError
    <2> QED BY <1>6, <2>1, <1>a, <1>t, ResubmitMoves, Limits, CSTAssumption
            DEF VerifyError, Verification, CSTAssumption
  <1>7. ASSUME CreateRow
        PROVE  Goal
    <2>1. status[Next1(cur)] = NoRow /\ Next1(cur) \in WUs
      BY <1>7, NeighbourType DEF CreateRow, TypeInv, Holding, Coherent, MainHolds
    <2> QED BY <1>7, <1>a, <2>1, OneRowMoves DEF CreateRow, Created, RowMoves, WuStatus
  <1>8. ASSUME ResultRaises \/ TooManyTimedOut \/ RestartRaises
        PROVE  Goal
    BY <1>8, <1>b DEF ResultRaises, TooManyTimedOut, RestartRaises, Dies
  <1>9. ASSUME CancelUnhandled
        PROVE  Goal
    <2>1. cur \in WUs /\ status[cur] \in Open
      BY <1>9, CurRow DEF CancelUnhandled
    <2>2. RowMoves(status[cur], "CANCELLED") /\ "CANCELLED" \in WuStatus
      BY <2>1 DEF RowMoves, Closed, WuStatus
    <2> QED BY <1>9, <1>a, <2>1, <2>2, OneRowMoves DEF CancelUnhandled, Cancel
  <1>10. ASSUME (\E old \in SUBSET RowsWith(status, {"ASSIGNED"}) : QueryTimedOut(old)) \/ SkipTimeoutCheck
        PROVE  Goal
    BY <1>10, <1>b DEF QueryTimedOut, SkipTimeoutCheck
  <1>11. ASSUME CancelTimedOut
        PROVE  Goal
    <2>1. PICK w \in todo :
             todo' = todo \ {w} /\ resubmit_one_wu(Cancel(status, {w}), w, MaxResubmit)
      BY <1>11 DEF CancelTimedOut
    <2>2. w \in WUs /\ status[w] \in Open /\ todo' \subseteq OpenRows \ {w}
      BY <2>1 DEF TypeInv, TypeOK, Coherent, MainHolds, OpenRows, RowsWith
    <2> QED BY <2>1, <2>2, <1>a, <1>t, ResubmitMoves, Limits, CSTAssumption
            DEF Cancel, CSTAssumption
  <1>12. ASSUME HaveEnoughRelations
        PROVE  Goal
    <2>1. \A v \in WUs : /\ v \in Available => status'[v] = "CANCELLED"
                         /\ v \notin Available => status'[v] = status[v]
      BY <1>12, <1>a, SetStatusRows DEF HaveEnoughRelations, Cancel, WuStatus
    <2> QED BY <2>1 DEF RowMoves, Available, RowsWith, Open, Closed
  <1>13. ASSUME RequestMoreRelations \/ Interrupt \/ Restart
        PROVE  Goal
    BY <1>13, <1>b DEF RequestMoreRelations, Interrupt, Restart
  <1>14. ASSUME Expire
        PROVE  Goal
    <2>1. PICK w \in RowsWith(status, {"ASSIGNED"}) :
             status' = SetStatus(status, {w}, "NEED_RESUBMIT")
      BY <1>14 DEF Expire
    <2>2. w \in WUs /\ status[w] = "ASSIGNED"
      BY <1>a, <2>1 DEF RowsWith
    <2>3. RowMoves(status[w], "NEED_RESUBMIT") /\ "NEED_RESUBMIT" \in WuStatus
      BY <2>2 DEF RowMoves, WuStatus
    <2> QED BY <1>a, <2>1, <2>2, <2>3, OneRowMoves
  <1>15. ASSUME NEW c \in Clients, send_WU(c) PROVE Goal
    <2>1. PICK w \in WUs : CanAssign(status, w) /\ status' = Assign(status, w)
      BY <1>15 DEF send_WU
    <2>2. RowMoves(status[w], "ASSIGNED") /\ "ASSIGNED" \in WuStatus
      BY <2>1 DEF CanAssign, RowMoves, WuStatus
    <2> QED BY <1>a, <2>1, <2>2, OneRowMoves DEF Assign
  <1>16. ASSUME NEW c \in Clients, Execute(c) PROVE Goal
    BY <1>16, <1>b DEF Execute
  <1>17. ASSUME NEW u \in uploads, do_upload(u)
         PROVE  (outcome' = outcome /\ Goal) \/ Upload
    <2>1. u.wu \in WUs
      BY DEF TypeInv, TypeOK, Uploads
    <2>2. CASE CanResult(status, u.wu)
      BY <1>17, <2>1, <2>2 DEF do_upload, Accepted
    <2>3. CASE ~CanResult(status, u.wu)
      BY <1>17, <2>3, <1>b DEF do_upload
    <2> QED BY <2>2, <2>3
  <1>18. ASSUME NEW u \in uploads, DropStale(u) PROVE Goal
    BY <1>18, <1>b DEF DropStale
  <1>19. ASSUME UNCHANGED vars
        PROVE  Goal
    BY <1>19, <1>b DEF vars
  <1> QED
    BY <1>1, <1>2, <1>3, <1>4, <1>5, <1>6, <1>7, <1>8, <1>9, <1>10, <1>11,
       <1>12, <1>13, <1>14, <1>15, <1>16, <1>17, <1>18, <1>19, OnlyUploadWrites
    DEF Next, MainStep, UserStep, OtherStep, Terminated

(* An accepted upload turns one row from ASSIGNED to RECEIVED. *)
LEMMA AcceptedRows ==
  ASSUME TypeInv, NEW w \in WUs, NEW out \in Outcomes, Accepted(w, out)
  PROVE  /\ status[w] = "ASSIGNED" /\ outcome'[w] = out
         /\ status'[w] = IF out = "error" THEN "RECEIVED_ERROR" ELSE "RECEIVED_OK"
         /\ \A v \in WUs : v # w => status'[v] = status[v] /\ outcome'[v] = outcome[v]
  <1> DEFINE s == IF out = "error" THEN "RECEIVED_ERROR" ELSE "RECEIVED_OK"
  <1>1. status \in Table /\ s \in WuStatus
    BY DEF TypeInv, TypeOK, Table, WuStatus
  <1>2. status' = SetStatus(status, {w}, s) /\ status[w] = "ASSIGNED"
    BY DEF Accepted, CanResult, Result
  <1>3. outcome'[w] = out /\ \A v \in WUs : v # w => outcome'[v] = outcome[v]
    BY DEF TypeInv, TypeOK, Accepted
  <1>4. status'[w] = s
    BY <1>1, <1>2, SetStatusRows
  <1>5. ASSUME NEW v \in WUs, v # w PROVE status'[v] = status[v]
    <2>1. v \notin {w}
      BY <1>5
    <2> QED BY <1>1, <1>2, <2>1, SetStatusRows
  <1> QED BY <1>2, <1>3, <1>4, <1>5

(* What a step may do to a row, whoever takes it. *)
LEMMA RowFate ==
  TypeInv /\ Coherent /\ [Next]_vars =>
    \A w \in WUs : \/ RowMoves(status[w], status'[w])
                   \/ status[w] = "ASSIGNED" /\ status'[w] \in Received
  <1> SUFFICES ASSUME TypeInv, Coherent, [Next]_vars, NEW w \in WUs
               PROVE  \/ RowMoves(status[w], status'[w])
                      \/ status[w] = "ASSIGNED" /\ status'[w] \in Received
    OBVIOUS
  <1>1. CASE \A v \in WUs : RowMoves(status[v], status'[v])
    BY <1>1
  <1>2. ASSUME NEW v \in WUs, NEW out \in Outcomes, Accepted(v, out)
        PROVE  \/ RowMoves(status[w], status'[w])
               \/ status[w] = "ASSIGNED" /\ status'[w] \in Received
    <2>1. CASE v = w
      BY <1>2, <2>1, AcceptedRows DEF Received
    <2>2. CASE v # w
      BY <1>2, <2>2, AcceptedRows DEF RowMoves
    <2> QED BY <2>1, <2>2
  <1> QED BY <1>1, <1>2, RowStep

(* A row is created once, a final status is final and no row becomes       *)
(* AVAILABLE again, whichever thread, client or restart takes the step.    *)
THEOREM ClosedForGood == Spec => StatusIsFinal
  <1>1. TypeInv /\ Coherent /\ [Next]_vars =>
          [\A w \in WUs :
             /\ status[w] \in Closed => status'[w] = status[w]
             /\ status'[w] = "AVAILABLE" => status[w] \in {NoRow, "AVAILABLE"}
             /\ status[w] # NoRow => status'[w] # NoRow]_status
    <2> SUFFICES ASSUME TypeInv, Coherent, [Next]_vars, NEW w \in WUs
                 PROVE  /\ status[w] \in Closed => status'[w] = status[w]
                        /\ status'[w] = "AVAILABLE" => status[w] \in {NoRow, "AVAILABLE"}
                        /\ status[w] # NoRow => status'[w] # NoRow
      OBVIOUS
    <2>1. \/ RowMoves(status[w], status'[w])
          \/ status[w] = "ASSIGNED" /\ status'[w] \in Received
      BY RowFate
    <2> QED BY <2>1 DEF RowMoves, Open, Closed, Received, Verified, NoRow
  <1>2. Init => TypeInv /\ Coherent
    BY TypeInit, CoherentInit
  <1>3. TypeInv /\ Coherent /\ [Next]_vars => (TypeInv /\ Coherent)'
    BY TypeStep, CoherentStep
  <1> QED BY <1>1, <1>2, <1>3, PTL DEF Spec, StatusIsFinal

-------------------------------------------------------------------------------
(* Clients and rows. *)

(* A row that a client holds or uploads has been assigned: it cannot be    *)
(* assigned to somebody else any more.                                     *)
AssignedOnce ==
  /\ HeldByAssignee
  /\ \A c \in Clients : work[c] # NoWU => status[work[c]] \notin {NoRow, "AVAILABLE"}
  /\ \A u \in uploads : status[u.wu] \notin {NoRow, "AVAILABLE"}

(* Nothing is assigned before a row exists. *)
LEMMA AssignedInit == Init => AssignedOnce
  BY DEF Init, AssignedOnce, HeldByAssignee

(* Only send_WU() writes the column assignedclient or hands out a row, and *)
(* only the execution of a row leads to an upload of it.                   *)
LEMMA OnlySendAssigns ==
  ASSUME [Next]_vars
  PROVE  \/ UNCHANGED <<assignedclient, work, uploads>>
         \/ \E c \in Clients : send_WU(c)
         \/ \E c \in Clients : Execute(c)
         \/ UNCHANGED <<assignedclient, work>> /\ uploads' \subseteq uploads
  <1>1. CASE MainStep
    BY <1>1 DEF MainStep, submit_command, WaitForAvailable, TakeResult, NoResult,
      HandleGoodResult, Verify, HandleErrorResult, VerifyError, CreateRow,
      ResultRaises, CancelUnhandled, QueryTimedOut, SkipTimeoutCheck,
      CancelTimedOut, TooManyTimedOut, Dies, client
  <1>2. CASE UserStep
    BY <1>2 DEF UserStep, RequestMoreRelations, HaveEnoughRelations, Interrupt,
      Restart, RestartRaises, Expire, Dies, client
  <1>3. ASSUME NEW u \in uploads, do_upload(u) \/ DropStale(u)
        PROVE  UNCHANGED <<assignedclient, work>> /\ uploads' \subseteq uploads
    BY <1>3 DEF do_upload, DropStale
  <1>4. CASE UNCHANGED vars
    BY <1>4 DEF vars, client
  <1> QED
    BY <1>1, <1>2, <1>3, <1>4 DEF Next, OtherStep, Terminated

(* A row is given to one client only: once assigned it is not available    *)
(* again, whatever else happens to it.                                     *)
LEMMA AssignedStep ==
  TypeInv /\ Coherent /\ AssignedOnce /\ [Next]_vars => AssignedOnce'
  <1> SUFFICES ASSUME TypeInv, Coherent, AssignedOnce, [Next]_vars
               PROVE  AssignedOnce'
    OBVIOUS
  <1>a. /\ status \in Table /\ assignedclient \in [WUs -> Clients \cup {NoClient}]
        /\ work \in [Clients -> MaybeWU] /\ uploads \subseteq Uploads
    BY DEF TypeInv, TypeOK, Table
  <1>b. \A w \in WUs : status[w] \notin {NoRow, "AVAILABLE"}
                         => status'[w] \notin {NoRow, "AVAILABLE"}
    <2> SUFFICES ASSUME NEW w \in WUs, status[w] \notin {NoRow, "AVAILABLE"}
                 PROVE  status'[w] \notin {NoRow, "AVAILABLE"}
      OBVIOUS
    <2>1. \/ RowMoves(status[w], status'[w])
          \/ status[w] = "ASSIGNED" /\ status'[w] \in Received
      BY RowFate
    <2> QED BY <2>1 DEF RowMoves, Received, Closed, Verified, NoRow
  <1>c. /\ \A c \in Clients : work[c] # NoWU => work[c] \in WUs
        /\ \A u \in uploads : u.wu \in WUs /\ u.client \in Clients
    BY <1>a DEF MaybeWU, Uploads
  <1>1. CASE UNCHANGED <<assignedclient, work>> /\ uploads' \subseteq uploads
    BY <1>1, <1>b, <1>c DEF AssignedOnce, HeldByAssignee
  <1>2. ASSUME NEW c \in Clients, send_WU(c) PROVE AssignedOnce'
    <2>1. PICK w \in WUs : /\ CanAssign(status, w)
                           /\ status' = Assign(status, w)
                           /\ assignedclient' = [assignedclient EXCEPT ![w] = c]
                           /\ work' = [work EXCEPT ![c] = w] \/ work' = work
      BY <1>2 DEF send_WU
    <2>2. uploads' = uploads
      BY <1>2 DEF send_WU
    <2>3. status[w] = "AVAILABLE" /\ status'[w] = "ASSIGNED"
      BY <1>a, <2>1, SetStatusRows DEF CanAssign, Assign, WuStatus
    <2>4. /\ \A d \in Clients : work[d] # NoWU => work[d] # w
          /\ \A u \in uploads : u.wu # w
      BY <2>3 DEF AssignedOnce
    <2>5. \A d \in Clients : \/ work'[d] = work[d]
                             \/ d = c /\ work'[d] = w
      BY <1>a, <2>1
    <2>6. assignedclient'[w] = c /\ \A v \in WUs : v # w => assignedclient'[v] = assignedclient[v]
      BY <1>a, <2>1
    <2>7. \A d \in Clients : work'[d] # NoWU =>
            /\ assignedclient'[work'[d]] = d
            /\ status'[work'[d]] \notin {NoRow, "AVAILABLE"}
      <3> SUFFICES ASSUME NEW d \in Clients, work'[d] # NoWU
                   PROVE  /\ assignedclient'[work'[d]] = d
                          /\ status'[work'[d]] \notin {NoRow, "AVAILABLE"}
        OBVIOUS
      <3>1. CASE work'[d] = work[d]
        BY <1>b, <1>c, <2>4, <2>6, <3>1 DEF AssignedOnce, HeldByAssignee
      <3>2. CASE d = c /\ work'[d] = w
        BY <2>3, <2>6, <3>2 DEF NoRow
      <3> QED BY <2>5, <3>1, <3>2
    <2>8. \A u \in uploads : /\ assignedclient'[u.wu] = u.client
                             /\ status'[u.wu] \notin {NoRow, "AVAILABLE"}
      BY <1>b, <1>c, <2>4, <2>6 DEF AssignedOnce, HeldByAssignee
    <2> QED BY <2>2, <2>7, <2>8 DEF AssignedOnce, HeldByAssignee
  <1>3. ASSUME NEW c \in Clients, Execute(c) PROVE AssignedOnce'
    <2>1. /\ work[c] # NoWU /\ status' = status /\ assignedclient' = assignedclient
          /\ uploads' = uploads \cup {[client |-> c, wu |-> work[c]]}
          /\ work' = [work EXCEPT ![c] = NoWU]
      BY <1>3 DEF Execute
    <2>2. \A d \in Clients : work'[d] # NoWU => work'[d] = work[d]
      BY <1>a, <2>1
    <2>3. \A u \in uploads' : /\ assignedclient[u.wu] = u.client
                              /\ status[u.wu] \notin {NoRow, "AVAILABLE"}
      BY <2>1 DEF AssignedOnce, HeldByAssignee
    <2> QED BY <2>1, <2>2, <2>3 DEF AssignedOnce, HeldByAssignee
  <1> QED BY <1>1, <1>2, <1>3, OnlySendAssigns

(* Nobody executes or uploads a workunit assigned to somebody else,        *)
(* however often answers are lost and uploads repeated.                    *)
THEOREM AssigneeOnly == Spec => []HeldByAssignee
  <1>1. Init => TypeInv /\ Coherent /\ AssignedOnce
    BY TypeInit, CoherentInit, AssignedInit
  <1>2. TypeInv /\ Coherent /\ AssignedOnce /\ [Next]_vars
          => (TypeInv /\ Coherent /\ AssignedOnce)'
    BY TypeStep, CoherentStep, AssignedStep
  <1>3. AssignedOnce => HeldByAssignee
    BY DEF AssignedOnce
  <1> QED BY <1>1, <1>2, <1>3, PTL DEF Spec

-------------------------------------------------------------------------------
(* What a result is. *)

(* result() records the status that belongs to what was uploaded, and      *)
(* nobody else says that a row is received.                                *)
ResultKnown ==
  /\ \A w \in WUs : status[w] = "RECEIVED_ERROR" => outcome[w] = "error"
  /\ \A w \in WUs : status[w] = "RECEIVED_OK" => outcome[w] \in {"ok", "corrupt", "nofile"}
  /\ pc = "verify" => outcome[cur] \in {"ok", "corrupt"}
  /\ pc = "everify" => outcome[cur] = "error"

(* Nothing is received before anything is submitted. *)
LEMMA KnownInit == Init => ResultKnown
  <1> SUFFICES ASSUME Init PROVE ResultKnown OBVIOUS
  <1>1. pc \in Between
    BY LoopTypes, CSTAssumption DEF Init, CSTAssumption
  <1> QED BY <1>1 DEF Init, ResultKnown, NoRow, Between

(* The steps that leave the main thread inside a verification. *)
LEMMA IntoVerification ==
  ASSUME TypeInv, TypeInv', [Next]_vars, pc' \in {"verify", "everify"}
  PROVE  /\ cur' = cur
         /\ \/ pc' = pc
            \/ pc = "observe" /\ outcome' = outcome /\ status' = status /\
                 \/ pc' = "verify" /\ outcome[cur] \in {"ok", "corrupt"} /\ HandleGoodResult
                 \/ pc' = "everify" /\ outcome[cur] = "error" /\ HandleErrorResult
  <1>a. rels_found' \in Nat /\ rels_wanted' \in Nat
    BY DEF TypeInv, TypeOK
  <1>b. ~EndOfWait
    BY <1>a, EndOfWaitType DEF Between
  <1>c. \A tab, w, limit : resubmit_one_wu(tab, w, limit) => pc' = "create"
    BY <1>b DEF resubmit_one_wu
  <1>d. \A rels \in Nat, wanted \in Nat : \A out :
          LoopPc(rels, wanted, qnext', out) \notin {"verify", "everify"}
    BY LoopTypes DEF Between, TypeInv, TypeOK
  <1>1. CASE MainStep
    <2>1. ~ submit_command
      BY <1>d DEF submit_command, TypeInv, TypeOK
    <2> QED
      BY <1>1, <1>b, <1>c, <2>1 DEF MainStep, WaitForAvailable, TakeResult, NoResult,
        HandleGoodResult, Verify, HandleErrorResult, VerifyError, CreateRow,
        ResultRaises, CancelUnhandled, QueryTimedOut, SkipTimeoutCheck,
        CancelTimedOut, TooManyTimedOut, Dies
  <1>2. CASE UserStep
    <2>1. ~ RequestMoreRelations
      BY <1>d DEF RequestMoreRelations, TypeInv, TypeOK
    <2>2. ~ Restart
      BY <1>d, CSTAssumption DEF Restart, TypeInv, TypeOK, CSTAssumption
    <2> QED
      BY <1>2, <2>1, <2>2 DEF UserStep, HaveEnoughRelations, Interrupt,
        RestartRaises, Expire, Dies, main
  <1>3. CASE OtherStep
    BY <1>3 DEF OtherStep, send_WU, Execute, do_upload, DropStale, main
  <1>4. CASE UNCHANGED vars
    BY <1>4 DEF vars, main
  <1> QED
    BY <1>1, <1>2, <1>3, <1>4 DEF Next, Terminated

(* Only an accepted upload makes a row received, with its own status. *)
LEMMA KnownStep ==
  TypeInv /\ Coherent /\ ResultKnown /\ [Next]_vars => ResultKnown'
  <1> SUFFICES ASSUME TypeInv, Coherent, ResultKnown, [Next]_vars
               PROVE  ResultKnown'
    OBVIOUS
  <1>t. TypeInv'
    BY TypeStep
  <1>1. ASSUME NEW w \in WUs, status'[w] \in Received
        PROVE  \/ status'[w] = status[w] /\ outcome'[w] = outcome[w]
               \/ /\ outcome'[w] \in Outcomes
                  /\ status'[w] = IF outcome'[w] = "error" THEN "RECEIVED_ERROR" ELSE "RECEIVED_OK"
    <2>1. CASE outcome' = outcome /\ \A v \in WUs : RowMoves(status[v], status'[v])
      BY <1>1, <2>1, StatusKinds DEF RowMoves, Received, Closed, Verified, NoRow
    <2>2. ASSUME NEW v \in WUs, NEW out \in Outcomes, Accepted(v, out)
          PROVE  \/ status'[w] = status[w] /\ outcome'[w] = outcome[w]
                 \/ /\ outcome'[w] \in Outcomes
                    /\ status'[w] = IF outcome'[w] = "error" THEN "RECEIVED_ERROR" ELSE "RECEIVED_OK"
      BY <2>2, AcceptedRows
    <2> QED BY <2>1, <2>2, RowStep
  <1>2. /\ \A w \in WUs : status'[w] = "RECEIVED_ERROR" => outcome'[w] = "error"
        /\ \A w \in WUs : status'[w] = "RECEIVED_OK" => outcome'[w] \in {"ok", "corrupt", "nofile"}
    BY <1>1, CSTAssumption DEF ResultKnown, Received, CSTAssumption, AllOutcomes
  <1>3. ASSUME pc' \in {"verify", "everify"}
        PROVE  /\ pc' = "verify" => outcome'[cur'] \in {"ok", "corrupt"}
               /\ pc' = "everify" => outcome'[cur'] = "error"
    <2>1. CASE pc' = pc /\ cur' = cur
      <3>1. cur \in WUs /\ status[cur] \in Received
        BY <1>3, <2>1 DEF TypeInv, TypeOK, Holding, Coherent, MainHolds, RowsWith
      <3>2. outcome'[cur] = outcome[cur]
        <4>1. ASSUME NEW v \in WUs, NEW out \in Outcomes, Accepted(v, out)
              PROVE  outcome'[cur] = outcome[cur]
          BY <3>1, <4>1, AcceptedRows DEF Received
        <4> QED BY <4>1, RowStep
      <3> QED BY <1>3, <2>1, <3>2 DEF ResultKnown
    <2>2. CASE pc # pc' /\ cur' = cur
      BY <1>3, <1>t, <2>2, IntoVerification
    <2> QED BY <1>3, <1>t, <2>1, <2>2, IntoVerification
  <1> QED BY <1>2, <1>3 DEF ResultKnown

(* handle_error_result() finds the status it asserts: a row is received as *)
(* an error exactly when the upload reported one.                          *)
THEOREM UploadIsResult == Spec => []ResultMatchesUpload
  <1>1. Init => TypeInv /\ Coherent /\ ResultKnown
    BY TypeInit, CoherentInit, KnownInit
  <1>2. TypeInv /\ Coherent /\ ResultKnown /\ [Next]_vars
          => (TypeInv /\ Coherent /\ ResultKnown)'
    BY TypeStep, CoherentStep, KnownStep
  <1>3. TypeInv /\ Coherent /\ ResultKnown => ResultMatchesUpload
    <2> SUFFICES ASSUME TypeInv, Coherent, ResultKnown,
                        pc \in {"observe", "verify", "everify"}
                 PROVE  status[cur] = IF outcome[cur] = "error" THEN "RECEIVED_ERROR"
                                      ELSE "RECEIVED_OK"
      BY DEF ResultMatchesUpload
    <2>1. cur \in WUs /\ status[cur] \in Received
      BY DEF TypeInv, TypeOK, Holding, Coherent, MainHolds, RowsWith
    <2> QED BY <2>1 DEF ResultKnown, Received
  <1> QED BY <1>1, <1>2, <1>3, PTL DEF Spec

-------------------------------------------------------------------------------
(* Relations and files. *)

(* The files that will be counted once more: their verification was        *)
(* interrupted after the relations had been committed.                     *)
CountedAgain ==
  {w \in output_files : status[w] = "RECEIVED_OK" /\ ~(pc = "verify" /\ w = cur)}

(* Every interruption accounts for one file that was counted, or is to be  *)
(* counted, a second time; a file is registered only for a good result,    *)
(* and its row is never on the list of timed out rows.                     *)
FilesMatch ==
  /\ rels_found + Cardinality(CountedAgain) <= recounted + Cardinality(output_files)
  /\ Cardinality(output_files) <= rels_found
  /\ \A w \in WUs : status[w] = "VERIFIED_OK" => w \in output_files
  /\ \A w \in output_files : /\ outcome[w] = "ok"
                             /\ status[w] \in {"RECEIVED_OK", "VERIFIED_OK"}
                             /\ w \notin todo
  /\ pc = "verify" /\ outcome[cur] = "ok" => cur \in output_files

(* No file is registered in a fresh database. *)
LEMMA FilesInit == Init => FilesMatch
  <1> SUFFICES ASSUME Init PROVE FilesMatch OBVIOUS
  <1>1. pc \in Between
    BY LoopTypes, CSTAssumption DEF Init, CSTAssumption
  <1>2. CountedAgain = {} /\ output_files = {}
    BY DEF Init, CountedAgain
  <1> QED BY <1>1, <1>2, FS_EmptySet DEF Init, FilesMatch, NoRow, Between

(* The sets of files are finite. *)
LEMMA FilesFinite ==
  ASSUME TypeInv
  PROVE  /\ IsFiniteSet(output_files) /\ Cardinality(output_files) \in Nat
         /\ IsFiniteSet(CountedAgain) /\ Cardinality(CountedAgain) \in Nat
         /\ Cardinality(CountedAgain) <= Cardinality(output_files)
         /\ rels_found \in Nat /\ recounted \in Nat
  <1>1. output_files \in SUBSET WUs /\ CountedAgain \in SUBSET output_files
    BY DEF TypeInv, TypeOK, CountedAgain
  <1> QED BY <1>1, FiniteWUs, FS_Subset DEF TypeInv, TypeOK

(* A step that settles no row with a file keeps what the files say. *)
LEMMA FilesKept ==
  ASSUME TypeInv, Coherent, FilesMatch, [Next]_vars, TypeInv',
         UNCHANGED <<rels_found, recounted, output_files>>,
         \A w \in WUs : status'[w] \in Closed /\ status'[w] # status[w] =>
           w \notin output_files /\ status'[w] # "VERIFIED_OK",
         pc' = "verify" <=> pc = "verify", pc = "verify" => cur' = cur,
         todo' \cap output_files = {}
  PROVE  FilesMatch'
  <1>a. output_files \subseteq WUs
    BY DEF TypeInv, TypeOK
  <1>1. \A w \in output_files : status'[w] = status[w] /\ outcome'[w] = outcome[w]
    <2> SUFFICES ASSUME NEW w \in output_files
                 PROVE  status'[w] = status[w] /\ outcome'[w] = outcome[w]
      OBVIOUS
    <2>1. w \in WUs /\ status[w] \in {"RECEIVED_OK", "VERIFIED_OK"}
      BY <1>a DEF FilesMatch
    <2>2. CASE outcome' = outcome /\ \A v \in WUs : RowMoves(status[v], status'[v])
      BY <2>1, <2>2 DEF RowMoves, NoRow
    <2>3. ASSUME NEW v \in WUs, NEW out \in Outcomes, Accepted(v, out)
          PROVE  status'[w] = status[w] /\ outcome'[w] = outcome[w]
      BY <2>1, <2>3, AcceptedRows
    <2> QED BY <2>2, <2>3, RowStep
  <1>2. CountedAgain' = CountedAgain
    BY <1>1 DEF CountedAgain
  <1>3. \A w \in WUs : status'[w] = "VERIFIED_OK" => w \in output_files
    BY DEF FilesMatch, Closed, Verified
  <1>4. pc' = "verify" /\ outcome'[cur'] = "ok" => cur' \in output_files
    <2> SUFFICES ASSUME pc' = "verify", outcome'[cur] = "ok", cur' = cur
                 PROVE  cur \in output_files
      OBVIOUS
    <2>1. cur \in WUs /\ status[cur] \in Received
      BY DEF TypeInv, TypeOK, Holding, Coherent, MainHolds, RowsWith
    <2>2. outcome'[cur] = outcome[cur]
      <3>1. ASSUME NEW v \in WUs, NEW out \in Outcomes, Accepted(v, out)
            PROVE  outcome'[cur] = outcome[cur]
        BY <2>1, <3>1, AcceptedRows DEF Received
      <3> QED BY <3>1, RowStep
    <2> QED BY <2>2 DEF FilesMatch
  <1> QED BY <1>1, <1>2, <1>3, <1>4 DEF FilesMatch

(* updateObserver() counts a file for the first time, or once again after  *)
(* an interruption; in between it is registered but not verified.          *)
LEMMA GoodResultFiles ==
  ASSUME TypeInv, TypeInv', Coherent, ResultKnown, FilesMatch, [Next]_vars, HandleGoodResult
  PROVE  FilesMatch'
  <1>1. /\ cur \in WUs /\ status[cur] \in Received /\ todo = {} /\ todo' = {}
        /\ pc = "observe" /\ outcome[cur] \in {"ok", "corrupt"} /\ outcome' = outcome
        /\ recounted' = recounted
    BY CurRow DEF HandleGoodResult, TypeInv, TypeOK, Holding, Coherent, MainHolds, RowsWith, ghost
  <1>2. status[cur] = "RECEIVED_OK"
    BY <1>1 DEF ResultKnown, Received
  <1>3. \/ /\ pc' = "verify" /\ cur' = cur /\ status' = status
        \/ /\ pc' \in Between /\ status' = Verification(status, cur, outcome[cur] = "ok")
    BY EndOfWaitType DEF HandleGoodResult, TypeInv, TypeOK
  <1>4. \A v \in WUs : v # cur => status'[v] = status[v]
    BY <1>3, SetStatusRows DEF Verification, TypeInv, TypeOK, Table, WuStatus
  <1>5. status' = status \/ status'[cur] = IF outcome[cur] = "ok" THEN "VERIFIED_OK" ELSE "VERIFIED_ERROR"
    BY <1>1, <1>3, SetStatusRows DEF Verification, TypeInv, TypeOK, Table, WuStatus
  <1>f. /\ IsFiniteSet(output_files) /\ Cardinality(output_files) \in Nat
        /\ IsFiniteSet(CountedAgain) /\ Cardinality(CountedAgain) \in Nat
        /\ rels_found \in Nat /\ recounted \in Nat /\ output_files \subseteq WUs
    BY FilesFinite DEF TypeInv, TypeOK
  <1>6. CASE outcome[cur] = "ok"
    <2>1. rels_found' = rels_found + 1 /\ output_files' = output_files \cup {cur}
      BY <1>6 DEF HandleGoodResult
    <2>2. CountedAgain' = CountedAgain \ {cur}
      <3>1. CASE pc' = "verify" /\ cur' = cur /\ status' = status
        BY <1>1, <1>2, <2>1, <3>1 DEF CountedAgain
      <3>2. CASE pc' \in Between /\ status'[cur] = "VERIFIED_OK"
        BY <1>1, <1>4, <1>f, <2>1, <3>2 DEF CountedAgain, Between
      <3> QED BY <1>1, <1>3, <1>6, <3>1, <3>2, SetStatusRows
              DEF Verification, TypeInv, TypeOK, Table, WuStatus
    <2>3. /\ Cardinality(output_files') = IF cur \in output_files THEN Cardinality(output_files)
                                          ELSE Cardinality(output_files) + 1
          /\ Cardinality(CountedAgain') = IF cur \in output_files THEN Cardinality(CountedAgain) - 1
                                          ELSE Cardinality(CountedAgain)
      <3>1. cur \in CountedAgain <=> cur \in output_files
        BY <1>1, <1>2 DEF CountedAgain
      <3> QED BY <1>f, <2>1, <2>2, <3>1, FS_AddElement, FS_RemoveElement
    <2>4. /\ rels_found' + Cardinality(CountedAgain') <= recounted' + Cardinality(output_files')
          /\ Cardinality(output_files') <= rels_found'
      BY <1>1, <1>f, <2>1, <2>3 DEF FilesMatch
    <2>5. \A w \in output_files' : /\ outcome'[w] = "ok"
                                   /\ status'[w] \in {"RECEIVED_OK", "VERIFIED_OK"}
                                   /\ w \notin todo'
      BY <1>1, <1>2, <1>4, <1>5, <1>6, <1>f, <2>1 DEF FilesMatch
    <2>6. \A w \in WUs : status'[w] = "VERIFIED_OK" => w \in output_files'
      BY <1>4, <2>1 DEF FilesMatch
    <2>7. pc' = "verify" /\ outcome'[cur'] = "ok" => cur' \in output_files'
      BY <1>3, <2>1 DEF Between
    <2> QED BY <2>4, <2>5, <2>6, <2>7 DEF FilesMatch
  <1>7. CASE outcome[cur] = "corrupt"
    <2>1. rels_found' = rels_found /\ output_files' = output_files /\ cur \notin output_files
      BY <1>7 DEF HandleGoodResult, FilesMatch
    <2>2. CountedAgain' = CountedAgain
      BY <1>1, <1>3, <1>4, <1>f, <2>1 DEF CountedAgain, Between
    <2>3. \A w \in WUs : status'[w] = "VERIFIED_OK" => w \in output_files'
      BY <1>2, <1>4, <1>5, <1>7, <2>1 DEF FilesMatch
    <2>4. \A w \in output_files' : /\ outcome'[w] = "ok"
                                   /\ status'[w] \in {"RECEIVED_OK", "VERIFIED_OK"}
                                   /\ w \notin todo'
      BY <1>1, <1>4, <1>f, <2>1 DEF FilesMatch
    <2>5. ~(pc' = "verify" /\ outcome'[cur'] = "ok")
      BY <1>1, <1>3, <1>7 DEF Between
    <2> QED BY <1>1, <2>1, <2>2, <2>3, <2>4, <2>5 DEF FilesMatch
  <1> QED BY <1>1, <1>6, <1>7

(* verification() of the file that was counted when updateObserver() was   *)
(* called.                                                                 *)
LEMMA VerifyFiles ==
  ASSUME TypeInv, TypeInv', Coherent, ResultKnown, FilesMatch, Verify
  PROVE  FilesMatch'
  <1>1. /\ cur \in WUs /\ todo = {} /\ todo' = {} /\ pc = "verify"
        /\ UNCHANGED <<outcome, recounted, rels_found, output_files>>
        /\ status' = Verification(status, cur, outcome[cur] = "ok")
    BY CurRow DEF Verify, dict, ghost
  <1>2. pc' \in Between
    BY EndOfWaitType DEF Verify, TypeInv, TypeOK
  <1>3. /\ \A v \in WUs : v # cur => status'[v] = status[v]
        /\ status'[cur] = IF outcome[cur] = "ok" THEN "VERIFIED_OK" ELSE "VERIFIED_ERROR"
    BY <1>1, SetStatusRows DEF Verification, TypeInv, TypeOK, Table, WuStatus
  <1>4. output_files \subseteq WUs
    BY DEF TypeInv, TypeOK
  <1>5. CountedAgain' = CountedAgain
    BY <1>1, <1>2, <1>3, <1>4 DEF CountedAgain, Between
  <1>6. \A w \in output_files : status'[w] \in {"RECEIVED_OK", "VERIFIED_OK"} /\ w \notin todo'
    BY <1>1, <1>3, <1>4 DEF FilesMatch
  <1>7. \A w \in WUs : status'[w] = "VERIFIED_OK" => w \in output_files
    BY <1>1, <1>3 DEF FilesMatch
  <1> QED BY <1>1, <1>2, <1>5, <1>6, <1>7 DEF FilesMatch, Between

(* An interruption loses what was not committed: a row whose relations     *)
(* were counted stays RECEIVED_OK and will be counted again.               *)
LEMMA InterruptFiles ==
  ASSUME TypeInv, FilesMatch, Interrupt
  PROVE  FilesMatch'
  <1>1. /\ pc' = "down" /\ cur' = NoWU /\ todo' = {}
        /\ recounted' = IF pc \in {"verify", "everify"} THEN recounted + 1 ELSE recounted
        /\ UNCHANGED <<status, outcome, rels_found, output_files>>
    BY DEF Interrupt, dict
  <1>f. /\ IsFiniteSet(output_files) /\ Cardinality(output_files) \in Nat
        /\ IsFiniteSet(CountedAgain) /\ Cardinality(CountedAgain) \in Nat
        /\ rels_found \in Nat /\ recounted \in Nat
    BY FilesFinite
  <1>2. CASE pc = "verify"
    <2>1. CountedAgain' \in SUBSET (CountedAgain \cup {cur})
      BY <1>1, <1>2 DEF CountedAgain
    <2>2. /\ IsFiniteSet(CountedAgain \cup {cur})
          /\ Cardinality(CountedAgain \cup {cur}) <= Cardinality(CountedAgain) + 1
          /\ Cardinality(CountedAgain \cup {cur}) \in Nat
      BY <1>f, FS_AddElement, FS_CardinalityType
    <2>3. IsFiniteSet(CountedAgain') /\ Cardinality(CountedAgain') <= Cardinality(CountedAgain \cup {cur})
      BY <2>1, <2>2, FS_Subset
    <2>4. Cardinality(CountedAgain') \in Nat
      BY <2>3, FS_CardinalityType
    <2>5. rels_found + Cardinality(CountedAgain') <= recounted' + Cardinality(output_files)
      BY <1>1, <1>2, <1>f, <2>2, <2>3, <2>4 DEF FilesMatch
    <2> QED BY <1>1, <2>5 DEF FilesMatch
  <1>3. CASE pc # "verify"
    <2>1. CountedAgain' = CountedAgain
      BY <1>1, <1>3 DEF CountedAgain
    <2>2. rels_found + Cardinality(CountedAgain') <= recounted' + Cardinality(output_files)
      BY <1>1, <1>f, <2>1 DEF FilesMatch
    <2> QED BY <1>1, <2>2 DEF FilesMatch
  <1> QED BY <1>2, <1>3

(* A row whose result is an error, or has no file, has no file registered. *)
LEMMA SettledWithoutFile ==
  ASSUME TypeInv, Coherent, FilesMatch, NEW w \in WUs,
         outcome[w] # "ok" \/ w \in todo
  PROVE  w \notin output_files
  BY DEF FilesMatch

(* No step counts a file without registering it, or the reverse. *)
LEMMA FilesStep ==
  TypeInv /\ Coherent /\ ResultKnown /\ FilesMatch /\ [Next]_vars => FilesMatch'
  <1> SUFFICES ASSUME TypeInv, Coherent, ResultKnown, FilesMatch, [Next]_vars
               PROVE  FilesMatch'
    OBVIOUS
  <1> DEFINE Kept == UNCHANGED <<rels_found, recounted, output_files>>
             Rows == \A w \in WUs : status'[w] \in Closed /\ status'[w] # status[w] =>
                       w \notin output_files /\ status'[w] # "VERIFIED_OK"
             Place == /\ pc' = "verify" <=> pc = "verify"
                      /\ pc = "verify" => cur' = cur
             List == todo' \cap output_files = {}
  <1>t. TypeInv'
    BY TypeStep
  <1>a. /\ status \in Table /\ DOMAIN status = WUs
        /\ rels_found \in Nat /\ rels_wanted \in Nat /\ wu_submitted \in Nat
        /\ rels_found' \in Nat /\ rels_wanted' \in Nat /\ output_files \subseteq WUs
    BY <1>t DEF TypeInv, TypeOK, Table
  <1>k. Kept /\ Rows /\ Place /\ List => FilesMatch'
    BY <1>t, FilesKept
  <1>l. todo' \subseteq todo => List
    BY DEF FilesMatch
  <1>r. ASSUME status' = status \/ \E w \in WUs, s \in WuStatus \ Closed : status' = SetStatus(status, {w}, s)
        PROVE  Rows
    <2>1. CASE status' = status
      BY <2>1
    <2>2. ASSUME NEW w \in WUs, NEW s \in WuStatus \ Closed, status' = SetStatus(status, {w}, s)
          PROVE  Rows
      BY <1>a, <2>2, SetStatusRows
    <2> QED BY <1>r, <2>1, <2>2
  <1> HIDE DEF Kept, Rows, Place, List
  <1>1. CASE submit_command
    <2>1. pc' \in Between
      BY <1>1, <1>t, <1>a, LoopTypes DEF submit_command, TypeInv, TypeOK
    <2>2. <<qnext, 1>> \in WUs
      BY <1>1, Attempt1, CSTAssumption
      DEF submit_command, TypeInv, TypeOK, WUs, Ranges, Attempts, CSTAssumption
    <2>3. Rows
      BY <1>1, <1>r, <2>2 DEF submit_command, Created, WuStatus, Closed, Verified
    <2>4. Kept /\ Place /\ todo' = todo
      BY <1>1, <2>1 DEF submit_command, ghost, Kept, Place, Between
    <2> QED BY <1>k, <1>l, <2>3, <2>4
  <1>2. CASE WaitForAvailable \/ TakeResult \/ NoResult
    <2>1. Kept /\ Place /\ todo' = todo /\ Rows
      BY <1>2, <1>r DEF WaitForAvailable, TakeResult, NoResult, dict, ghost, Kept, Place
    <2> QED BY <1>k, <1>l, <2>1
  <1>3. CASE HandleGoodResult
    BY <1>3, <1>t, GoodResultFiles
  <1>4. CASE Verify
    BY <1>4, <1>t, VerifyFiles
  <1>5. CASE HandleErrorResult
    <2>1. /\ cur \in WUs /\ status[cur] \in Open /\ todo = {} /\ todo' = todo
          /\ pc = "observe" /\ outcome[cur] = "error" /\ Kept
      BY <1>5, CurRow DEF HandleErrorResult, ghost, Kept
    <2>2. CASE CommitsInGetEta
      BY <1>5, <1>k, <1>l, <1>r, <2>1, <2>2 DEF HandleErrorResult, Place
    <2>3. CASE ~CommitsInGetEta
      <3>1. resubmit_one_wu(SetStatus(status, {cur}, "VERIFIED_ERROR"), cur, MaxWuError)
        BY <1>5, <2>3 DEF HandleErrorResult, Verification
      <3>2. /\ status'[cur] = "VERIFIED_ERROR"
            /\ \A v \in WUs : v # cur => status'[v] \in {status[v], "AVAILABLE"}
        BY <2>1, <3>1, <1>a, <1>t, ResubmitMoves, Limits, CSTAssumption DEF CSTAssumption
      <3>3. pc' # "verify"
        BY <3>1, <1>a, EndOfWaitType DEF resubmit_one_wu, Between
      <3>4. Rows
        BY <2>1, <3>2, SettledWithoutFile DEF Rows, Closed, Verified
      <3> QED BY <1>k, <1>l, <2>1, <3>3, <3>4 DEF Place
    <2> QED BY <2>2, <2>3
  <1>6. CASE VerifyError
    <2>1. /\ cur \in WUs /\ status[cur] \in Open /\ todo = {} /\ todo' = todo
          /\ pc = "everify" /\ outcome[cur] = "error" /\ Kept
      BY <1>6, CurRow DEF VerifyError, ghost, Kept, ResultKnown
    <2>2. resubmit_one_wu(SetStatus(status, {cur}, "VERIFIED_ERROR"), cur, MaxWuError)
      BY <1>6 DEF VerifyError, Verification
    <2>3. /\ status'[cur] = "VERIFIED_ERROR"
          /\ \A v \in WUs : v # cur => status'[v] \in {status[v], "AVAILABLE"}
      BY <2>1, <2>2, <1>a, <1>t, ResubmitMoves, Limits, CSTAssumption DEF CSTAssumption
    <2>4. pc' # "verify"
      BY <2>2, <1>a, EndOfWaitType DEF resubmit_one_wu, Between
    <2>5. Rows
      BY <2>1, <2>3, SettledWithoutFile DEF Rows, Closed, Verified
    <2> QED BY <1>k, <1>l, <2>1, <2>4, <2>5 DEF Place
  <1>7. CASE CreateRow
    <2>1. Next1(cur) \in WUs /\ pc = "create"
      BY <1>7, NeighbourType DEF CreateRow, TypeInv, Holding, Coherent, MainHolds
    <2>2. pc' \in Between
      BY <1>7, <1>a, EndOfWaitType DEF CreateRow
    <2>3. Rows
      BY <1>7, <1>r, <2>1 DEF CreateRow, Created, WuStatus, Closed, Verified
    <2>4. Kept /\ Place /\ todo' = todo
      BY <1>7, <2>1, <2>2 DEF CreateRow, ghost, Kept, Place, Between
    <2> QED BY <1>k, <1>l, <2>3, <2>4
  <1>8. CASE ResultRaises \/ TooManyTimedOut \/ RestartRaises
    <2>1. Kept /\ Rows /\ todo' = {} /\ pc' = "dead"
      BY <1>8, <1>r DEF ResultRaises, TooManyTimedOut, RestartRaises, Dies, dict, ghost, Kept
    <2>2. Place
      BY <1>8, <2>1 DEF ResultRaises, TooManyTimedOut, RestartRaises, Up, Place
    <2> QED BY <1>k, <1>l, <2>1, <2>2
  <1>9. CASE CancelUnhandled
    <2>1. cur \in WUs /\ todo' = todo /\ outcome[cur] = "nofile"
      BY <1>9, CurRow DEF CancelUnhandled
    <2>2. \A v \in WUs : /\ v = cur => status'[v] = "CANCELLED"
                         /\ v # cur => status'[v] = status[v]
      BY <1>9, <1>a, SetStatusRows DEF CancelUnhandled, Cancel, WuStatus
    <2>3. Kept /\ Place
      BY <1>9 DEF CancelUnhandled, dict, Kept, Place
    <2>4. Rows
      BY <2>1, <2>2, SettledWithoutFile DEF Rows
    <2> QED BY <1>k, <1>l, <2>1, <2>3, <2>4
  <1>10. ASSUME NEW old \in SUBSET RowsWith(status, {"ASSIGNED"}), QueryTimedOut(old)
         PROVE  FilesMatch'
    <2>1. pc' \in Between
      BY <1>10, <1>a, EndOfWaitType DEF QueryTimedOut
    <2>2. Kept /\ Place /\ Rows
      BY <1>10, <1>r, <2>1 DEF QueryTimedOut, dict, ghost, Kept, Place, Between
    <2>3. List
      BY <1>10 DEF QueryTimedOut, FilesMatch, RowsWith, List
    <2> QED BY <1>k, <2>2, <2>3
  <1>11. CASE SkipTimeoutCheck
    <2>1. pc' \in Between
      BY <1>11, <1>a, EndOfWaitType DEF SkipTimeoutCheck
    <2>2. Kept /\ Place /\ Rows /\ todo' = todo
      BY <1>11, <1>r, <2>1 DEF SkipTimeoutCheck, dict, ghost, Kept, Place, Between
    <2> QED BY <1>k, <1>l, <2>2
  <1>12. CASE CancelTimedOut
    <2>1. PICK w \in todo :
             todo' = todo \ {w} /\ resubmit_one_wu(Cancel(status, {w}), w, MaxResubmit)
      BY <1>12 DEF CancelTimedOut
    <2>2. w \in WUs /\ status[w] \in Open /\ todo' \subseteq OpenRows \ {w}
      BY <2>1 DEF TypeInv, TypeOK, Coherent, MainHolds, OpenRows, RowsWith
    <2>3. /\ status'[w] = "CANCELLED"
          /\ \A v \in WUs : v # w => status'[v] \in {status[v], "AVAILABLE"}
      BY <2>1, <2>2, <1>a, <1>t, ResubmitMoves, Limits, CSTAssumption DEF Cancel, CSTAssumption
    <2>4. pc' # "verify" /\ pc = "timeouts"
      BY <1>12, <2>1, <1>a, EndOfWaitType DEF CancelTimedOut, resubmit_one_wu, Between
    <2>5. Rows
      BY <2>1, <2>2, <2>3, SettledWithoutFile DEF Rows, Closed, Verified
    <2>6. Kept
      BY <1>12 DEF CancelTimedOut, ghost, Kept
    <2> QED BY <1>k, <1>l, <2>1, <2>4, <2>5, <2>6 DEF Place
  <1>13. CASE RequestMoreRelations
    <2>1. pc' \in Between
      BY <1>13, <1>a, LoopTypes DEF RequestMoreRelations, TypeInv, TypeOK
    <2>2. Kept /\ Place /\ Rows /\ todo' = todo
      BY <1>13, <1>r, <2>1 DEF RequestMoreRelations, ghost, Kept, Place, Between
    <2> QED BY <1>k, <1>l, <2>2
  <1>14. CASE HaveEnoughRelations
    <2>1. \A v \in WUs : /\ v \in Available => status'[v] = "CANCELLED"
                         /\ v \notin Available => status'[v] = status[v]
      BY <1>14, <1>a, SetStatusRows DEF HaveEnoughRelations, Cancel, WuStatus
    <2>2. Rows
      BY <2>1 DEF Rows, Available, RowsWith, FilesMatch
    <2>3. Kept /\ Place /\ todo' = todo
      BY <1>14 DEF HaveEnoughRelations, dict, Kept, Place
    <2> QED BY <1>k, <1>l, <2>2, <2>3
  <1>15. CASE Interrupt
    BY <1>15, InterruptFiles
  <1>16. CASE Restart
    <2>1. pc' \in Between /\ pc # "verify"
      BY <1>16, <1>a, LoopTypes, CSTAssumption DEF Restart, Up, TypeInv, TypeOK, CSTAssumption
    <2>2. Kept /\ Place /\ Rows /\ todo' = todo
      BY <1>16, <1>r, <2>1 DEF Restart, ghost, Kept, Place, Between
    <2> QED BY <1>k, <1>l, <2>2
  <1>17. CASE Expire
    <2>1. Rows
      BY <1>17, <1>a, <1>r DEF Expire, RowsWith, WuStatus, Closed, Verified
    <2>2. Kept /\ Place /\ todo' = todo
      BY <1>17 DEF Expire, dict, ghost, main, Kept, Place
    <2> QED BY <1>k, <1>l, <2>1, <2>2
  <1>18. ASSUME NEW c \in Clients, send_WU(c) \/ Execute(c) PROVE FilesMatch'
    <2>1. Rows
      BY <1>18, <1>r DEF send_WU, Execute, Assign, WuStatus, Closed, Verified
    <2>2. Kept /\ Place /\ todo' = todo
      BY <1>18 DEF send_WU, Execute, dict, ghost, main, Kept, Place
    <2> QED BY <1>k, <1>l, <2>1, <2>2
  <1>19. ASSUME NEW u \in uploads, do_upload(u) \/ DropStale(u) PROVE FilesMatch'
    <2>0. u.wu \in WUs
      BY DEF TypeInv, TypeOK, Uploads
    <2>1. Rows
      BY <1>19, <1>r, <2>0 DEF do_upload, DropStale, Result, WuStatus, Closed, Verified
    <2>2. Kept /\ Place /\ todo' = todo
      BY <1>19 DEF do_upload, DropStale, dict, ghost, main, Kept, Place
    <2> QED BY <1>k, <1>l, <2>1, <2>2
  <1>20. CASE UNCHANGED vars
    <2>1. Kept /\ Place /\ Rows /\ todo' = todo
      BY <1>20, <1>r DEF vars, dict, ghost, main, Kept, Place
    <2> QED BY <1>k, <1>l, <2>1
  <1> QED
    BY <1>1, <1>2, <1>3, <1>4, <1>5, <1>6, <1>7, <1>8, <1>9, <1>10, <1>11,
       <1>12, <1>13, <1>14, <1>15, <1>16, <1>17, <1>18, <1>19, <1>20
    DEF Next, MainStep, UserStep, OtherStep, Terminated

(* rels_found is the number of relations in the files registered, which    *)
(* are those of the workunits verified as ok, up to one file per           *)
(* interruption of a verification.                                         *)
THEOREM FilesCounted == Spec => []RelationsMatchFiles
  <1>1. Init => TypeInv /\ Coherent /\ ResultKnown /\ FilesMatch
    BY TypeInit, CoherentInit, KnownInit, FilesInit
  <1>2. TypeInv /\ Coherent /\ ResultKnown /\ FilesMatch /\ [Next]_vars
          => (TypeInv /\ Coherent /\ ResultKnown /\ FilesMatch)'
    BY TypeStep, CoherentStep, KnownStep, FilesStep
  <1>3. TypeInv /\ FilesMatch => RelationsMatchFiles
    <2> SUFFICES ASSUME TypeInv, FilesMatch PROVE RelationsMatchFiles
      OBVIOUS
    <2>f. /\ Cardinality(output_files) \in Nat /\ IsFiniteSet(CountedAgain)
          /\ Cardinality(CountedAgain) \in Nat
          /\ rels_found \in Nat /\ recounted \in Nat
      BY FilesFinite
    <2>1. rels_found - recounted <= Cardinality(output_files)
      BY <2>f DEF FilesMatch
    <2>2. \A w \in output_files :
            status[w] # "VERIFIED_OK" => status[w] = "RECEIVED_OK" /\ (w = cur \/ recounted > 0)
      <3> SUFFICES ASSUME NEW w \in output_files, status[w] # "VERIFIED_OK", w # cur
                   PROVE  recounted > 0
        BY DEF FilesMatch
      <3>1. CountedAgain # {}
        BY DEF CountedAgain, FilesMatch
      <3>2. Cardinality(CountedAgain) > 0
        BY <2>f, <3>1, FS_EmptySet
      <3> QED BY <2>f, <3>2 DEF FilesMatch
    <2>3. RowsWith(status, {"VERIFIED_OK"}) \subseteq output_files
      BY DEF FilesMatch, RowsWith, TypeInv, TypeOK
    <2> QED BY <2>1, <2>2, <2>3 DEF RelationsMatchFiles, FilesMatch
  <1> QED BY <1>1, <1>2, <1>3, PTL DEF Spec
===============================================================================
