---------------------- MODULE ClientServerTaskRefinement ----------------------
(* ClientServerTask implements RangeLedger, for every value of the          *)
(* constants: each transaction of an actor is one action of the ledger, or  *)
(* none.                                                                    *)
EXTENDS ClientServerTaskProofs

-------------------------------------------------------------------------------
(* What the ledger needs to know beyond the invariants of the safety proofs. *)

Settled == {"CANCELLED", "VERIFIED_ERROR"}

(* OneLiveAttempt looks one attempt back, this one all the way: it is what   *)
(* makes the attempts of a range countable without induction.                *)
History ==
  /\ \A w, v \in WUs :
       status[w] # NoRow /\ v[1] = w[1] /\ v[2] < w[2] => status[v] \in Settled
  /\ \A w \in WUs : outcome[w] \in Outcomes \cup {"none"}
  /\ recounted \in 0 .. crashes

LedgerInv == TypeInv /\ Coherent /\ ResultKnown /\ FilesMatch /\ History

(* Nothing has happened yet. *)
LEMMA HistoryInit == Init => History
  BY DEF Init, History, NoRow

(* Only an interruption writes the history of interruptions. *)
LEMMA OnlyInterruptCounts ==
  ASSUME [Next]_vars
  PROVE  UNCHANGED <<crashes, recounted>> \/ Interrupt
  <1>1. CASE MainStep
    BY <1>1 DEF MainStep, submit_command, WaitForAvailable, TakeResult, NoResult,
      HandleGoodResult, Verify, HandleErrorResult, VerifyError, CreateRow,
      ResultRaises, CancelUnhandled, QueryTimedOut, SkipTimeoutCheck,
      CancelTimedOut, TooManyTimedOut, Dies, ghost
  <1>2. CASE UserStep
    BY <1>2 DEF UserStep, RequestMoreRelations, HaveEnoughRelations, Restart,
      RestartRaises, Expire, Dies, ghost
  <1>3. CASE OtherStep
    BY <1>3 DEF OtherStep, send_WU, Execute, do_upload, DropStale, ghost
  <1>4. CASE UNCHANGED vars
    BY <1>4 DEF vars, ghost
  <1> QED BY <1>1, <1>2, <1>3, <1>4 DEF Next, Terminated

(* A new attempt comes after one that is settled, and settled rows stay so. *)
LEMMA HistoryStep == TypeInv /\ Coherent /\ History /\ [Next]_vars => History'
  <1> SUFFICES ASSUME TypeInv, Coherent, History, [Next]_vars PROVE History'
    OBVIOUS
  <1>t. TypeInv' /\ Coherent'
    BY TypeStep, CoherentStep
  <1>f. \A w \in WUs : \/ RowMoves(status[w], status'[w])
                       \/ status[w] = "ASSIGNED" /\ status'[w] \in Received
    BY RowFate
  <1>s. \A w \in WUs : status[w] \in Settled => status'[w] = status[w]
    BY <1>f, StatusKinds DEF RowMoves, Settled, Open, Received, NoRow
  <1>n. \A w \in WUs : status[w] = NoRow => status'[w] \in {NoRow, "AVAILABLE"}
    BY <1>f, StatusKinds DEF RowMoves, Open, Received, NoRow
  <1>1. ASSUME NEW w \in WUs, NEW v \in WUs,
               status'[w] # NoRow, v[1] = w[1], v[2] < w[2]
        PROVE  status'[v] \in Settled
    <2>1. CASE status[w] # NoRow
      BY <1>1, <1>s, <2>1 DEF History
    <2>2. CASE status[w] = NoRow
      <3> DEFINE u == <<w[1], w[2] - 1>>
      <3>1. /\ w[1] \in Ranges /\ w[2] \in Nat \ {0} /\ v[2] \in Nat \ {0}
            /\ v = <<v[1], v[2]>>
        BY WUType
      <3>2. u \in WUs
        BY <1>1, <3>1, NeighbourType
      <3>3. status'[u] \in Settled
        BY <1>t, <1>1, <3>1 DEF Coherent, OneLiveAttempt, Settled
      <3>4. status[u] # NoRow
        BY <1>n, <3>2, <3>3 DEF Settled, NoRow
      <3>5. CASE v[2] < w[2] - 1
        BY <1>1, <1>s, <3>2, <3>4, <3>5 DEF History
      <3>6. CASE v[2] = w[2] - 1
        BY <1>1, <3>1, <3>3, <3>6
      <3> QED BY <1>1, <3>1, <3>5, <3>6
    <2> QED BY <2>1, <2>2
  <1>2. \A w \in WUs : outcome'[w] \in Outcomes \cup {"none"}
    <2>1. CASE outcome' = outcome
      BY <2>1 DEF History
    <2>2. ASSUME NEW w \in WUs, NEW out \in Outcomes, Accepted(w, out)
          PROVE  \A v \in WUs : outcome'[v] \in Outcomes \cup {"none"}
      BY <2>2, AcceptedRows DEF History
    <2> QED BY <2>1, <2>2, RowStep
  <1>3. recounted' \in 0 .. crashes'
    <2>0. recounted \in Nat /\ crashes \in Nat /\ recounted <= crashes
      BY DEF History, TypeInv, TypeOK
    <2>1. CASE UNCHANGED <<crashes, recounted>>
      BY <2>0, <2>1
    <2>2. CASE Interrupt
      BY <2>0, <2>2 DEF Interrupt
    <2> QED BY <2>1, <2>2, OnlyInterruptCounts
  <1> QED BY <1>1, <1>2, <1>3 DEF History

(* All of it is an invariant. *)
LEMMA LedgerInvStep == LedgerInv /\ [Next]_vars => LedgerInv'
  BY TypeStep, CoherentStep, KnownStep, FilesStep, HistoryStep DEF LedgerInv
LEMMA LedgerInvInit == Init => LedgerInv
  BY TypeInit, CoherentInit, KnownInit, FilesInit, HistoryInit DEF LedgerInv

-------------------------------------------------------------------------------
(* The attempts of a range.                                                 *)

(* What RangeState looks at.                                                *)
Filed(r) == AttemptsOf(r) \cap output_files # {}
Live(r) ==
  AttemptsOf(r) \cap RowsWith(status, Open) # {} \/ (pc = "create" /\ cur[1] = r)

LEMMA StateForm ==
  ASSUME NEW r
  PROVE  RangeState(r) = IF AttemptsMade(r) = {} THEN "todo"
                         ELSE IF Filed(r) THEN "done"
                         ELSE IF Live(r) THEN "pending" ELSE "abandoned"
  BY DEF RangeState, Filed, Live

LEMMA StateFormNext ==
  ASSUME NEW r
  PROVE  RangeState(r)' = IF AttemptsMade(r)' = {} THEN "todo"
                          ELSE IF Filed(r)' THEN "done"
                          ELSE IF Live(r)' THEN "pending" ELSE "abandoned"
  BY DEF RangeState, Filed, Live

(* Around a row that is not settled, earlier attempts are and later ones do *)
(* not exist: at most one attempt has a file, and then none is open.        *)
LEMMA OnlyAttempt ==
  ASSUME LedgerInv, NEW w \in WUs, status[w] \notin Settled, status[w] # NoRow,
         NEW v \in WUs, v[1] = w[1], v # w
  PROVE  status[v] \in Settled \cup {NoRow} /\ v \notin output_files
  <1>1. /\ w = <<w[1], w[2]>> /\ v = <<v[1], v[2]>>
        /\ w[2] \in Nat /\ v[2] \in Nat
    BY WUType
  <1>2. CASE v[2] < w[2]
    BY <1>2 DEF LedgerInv, History, FilesMatch, Settled
  <1>3. CASE w[2] < v[2]
    <2>1. status[v] = NoRow
      BY <1>3 DEF LedgerInv, History
    <2> QED BY <2>1 DEF LedgerInv, FilesMatch, NoRow
  <1> QED BY <1>1, <1>2, <1>3

(* A range with an open row has no file but that of the row, and counts as  *)
(* being in progress.                                                       *)
LEMMA OpenIsPending ==
  ASSUME LedgerInv, NEW w \in WUs, status[w] \in Open, w \notin output_files
  PROVE  /\ w[1] \in Ranges /\ AttemptsMade(w[1]) # {} /\ ~Filed(w[1])
         /\ RangeState(w[1]) = "pending"
  <1>1. w[1] \in Ranges /\ w \in AttemptsOf(w[1]) /\ w \in AttemptsMade(w[1])
    BY WUType, StatusKinds DEF AttemptsOf, AttemptsMade
  <1>2. ~Filed(w[1])
    <2>1. status[w] \notin Settled /\ status[w] # NoRow
      BY StatusKinds DEF Settled, Open, Received, NoRow
    <2> QED BY <2>1, OnlyAttempt DEF Filed, AttemptsOf
  <1>3. Live(w[1])
    BY <1>1 DEF Live, RowsWith, LedgerInv, TypeInv, TypeOK
  <1> QED BY <1>1, <1>2, <1>3, StateForm

(* So does a range whose row is cancelled or failed and not yet replaced.   *)
LEMMA CreateIsPending ==
  ASSUME LedgerInv, pc = "create"
  PROVE  /\ cur \in WUs /\ cur[1] \in Ranges /\ AttemptsMade(cur[1]) # {} /\ ~Filed(cur[1])
         /\ RangeState(cur[1]) = "pending"
         /\ Next1(cur) \in WUs /\ status[Next1(cur)] = NoRow
         /\ Next1(cur)[1] = cur[1]
         /\ \A v \in AttemptsOf(cur[1]) : status[v] \in Settled \cup {NoRow}
  <1>1. /\ cur \in WUs /\ status[cur] \in Settled /\ cur[2] < LastAttempt
        /\ status[Next1(cur)] = NoRow
    BY DEF LedgerInv, TypeInv, Holding, Coherent, MainHolds, Settled
  <1>2. /\ Next1(cur) \in WUs /\ Next1(cur)[1] = cur[1] /\ Next1(cur)[2] = cur[2] + 1
    BY <1>1, NeighbourType
  <1>3. \A v \in AttemptsOf(cur[1]) : status[v] \in Settled \cup {NoRow}
    <2> SUFFICES ASSUME NEW v \in WUs, v[1] = cur[1]
                 PROVE  status[v] \in Settled \cup {NoRow}
      BY DEF AttemptsOf
    <2>0. /\ v[2] \in Nat /\ cur[2] \in Nat /\ v = <<v[1], v[2]>> /\ cur = <<cur[1], cur[2]>>
      BY <1>1, WUType
    <2>1. CASE v[2] < cur[2]
      BY <1>1, <2>1, StatusKinds DEF LedgerInv, History, Settled, NoRow
    <2>2. CASE v[2] = cur[2]
      BY <1>1, <2>0, <2>2
    <2>3. CASE v[2] = cur[2] + 1
      BY <1>1, <2>0, <2>3 DEF Next1
    <2>4. CASE v[2] > cur[2] + 1
      BY <1>1, <1>2, <2>4 DEF LedgerInv, History, Settled, NoRow
    <2> QED BY <2>0, <2>1, <2>2, <2>3, <2>4
  <1>4. ~Filed(cur[1])
    BY <1>3 DEF Filed, LedgerInv, FilesMatch, Settled, NoRow
  <1>5. cur[1] \in Ranges /\ cur \in AttemptsMade(cur[1]) /\ Live(cur[1])
    BY <1>1, WUType DEF AttemptsMade, AttemptsOf, Settled, NoRow, Live
  <1> QED BY <1>1, <1>2, <1>3, <1>4, <1>5, StateForm

-------------------------------------------------------------------------------
(* Counting attempts.                                                       *)

LEMMA UpTo ==
  ASSUME NEW n \in Nat
  PROVE  IsFiniteSet(1 .. n) /\ Cardinality(1 .. n) = n
  <1>1. IsFiniteSet(1 .. n) /\ Cardinality(1 .. n) = IF 1 > n THEN 0 ELSE n - 1 + 1
    BY FS_Interval
  <1> QED BY <1>1

LEMMA AttemptsCount ==
  ASSUME NEW r \in Ranges
  PROVE  /\ IsFiniteSet(AttemptsOf(r)) /\ Cardinality(AttemptsOf(r)) = LastAttempt
         /\ IsFiniteSet(AttemptsMade(r)) /\ Cardinality(AttemptsMade(r)) \in Nat
  <1>1. AttemptsOf(r) = {r} \X Attempts
    BY DEF AttemptsOf, WUs
  <1>2. /\ IsFiniteSet(Attempts) /\ Cardinality(Attempts) = LastAttempt
        /\ IsFiniteSet({r}) /\ Cardinality({r}) = 1 /\ LastAttempt \in Nat
    BY Attempt1, UpTo, FS_Singleton DEF Attempts
  <1>3. Cardinality({r} \X Attempts) = 1 * LastAttempt
    BY <1>2, FS_Product
  <1>4. AttemptsOf(r) \in SUBSET WUs /\ AttemptsMade(r) \in SUBSET WUs
    BY DEF AttemptsOf, AttemptsMade
  <1> QED BY <1>1, <1>2, <1>3, <1>4, FiniteWUs

(* An attempt that has a row is one of at least as many as its number says. *)
LEMMA AtLeast ==
  ASSUME LedgerInv, NEW w \in WUs, status[w] # NoRow
  PROVE  w[2] <= Cardinality(AttemptsMade(w[1]))
  <1>1. /\ w[1] \in Ranges /\ w[2] \in Nat \ {0} /\ w[2] <= LastAttempt
        /\ w = <<w[1], w[2]>> /\ LastAttempt \in Nat
    BY WUType, Attempt1
  <1> DEFINE E == {w[1]} \X (1 .. w[2])
  <1>2. E \subseteq AttemptsMade(w[1])
    <2> SUFFICES ASSUME NEW k \in 1 .. w[2] PROVE <<w[1], k>> \in AttemptsMade(w[1])
      OBVIOUS
    <2>1. <<w[1], k>> \in WUs
      BY <1>1 DEF WUs, Attempts
    <2>2. CASE k = w[2]
      BY <1>1, <2>1, <2>2 DEF AttemptsMade, AttemptsOf
    <2>3. CASE k < w[2]
      <3>1. status[<<w[1], k>>] \in Settled
        BY <2>1, <2>3 DEF LedgerInv, History
      <3> QED BY <2>1, <3>1 DEF AttemptsMade, AttemptsOf, Settled, NoRow
    <2> QED BY <1>1, <2>2, <2>3
  <1>3. /\ IsFiniteSet(1 .. w[2]) /\ Cardinality(1 .. w[2]) = w[2]
        /\ IsFiniteSet({w[1]}) /\ Cardinality({w[1]}) = 1
    <2>1. IsFiniteSet(1 .. w[2]) /\ Cardinality(1 .. w[2]) = w[2]
      BY <1>1, UpTo
    <2>2. IsFiniteSet({w[1]}) /\ Cardinality({w[1]}) = 1
      BY FS_Singleton, Zenon
    <2> QED BY <2>1, <2>2
  <1>4. Cardinality(E) = 1 * w[2]
    <2>1. Cardinality(E) = Cardinality({w[1]}) * Cardinality(1 .. w[2])
      BY <1>3, FS_Product
    <2> QED BY <1>3, <2>1
  <1>5. Cardinality(E) <= Cardinality(AttemptsMade(w[1]))
    BY <1>1, <1>2, AttemptsCount, FS_Subset
  <1> QED BY <1>1, <1>4, <1>5

(* While an attempt has no row, fewer have one than there may be.           *)
LEMMA Fewer ==
  ASSUME NEW w \in WUs, status[w] = NoRow
  PROVE  /\ Cardinality(AttemptsMade(w[1])) < LastAttempt
         /\ w \notin AttemptsMade(w[1])
  <1>1. w[1] \in Ranges /\ w \in AttemptsOf(w[1])
    BY WUType DEF AttemptsOf
  <1>2. w \notin AttemptsMade(w[1]) /\ AttemptsMade(w[1]) \subseteq AttemptsOf(w[1])
    BY DEF AttemptsMade
  <1>3. /\ Cardinality(AttemptsMade(w[1])) <= LastAttempt
        /\ Cardinality(AttemptsMade(w[1])) # LastAttempt
    BY <1>1, <1>2, AttemptsCount, FS_Subset
  <1> QED BY <1>1, <1>2, <1>3, AttemptsCount, Attempt1

-------------------------------------------------------------------------------
(* The actions of the ledger, in terms of states and numbers of attempts.   *)

Tries(r) == Cardinality(AttemptsMade(r))
Simulated == [Ledger!Next]_(Ledger!ledger)

LEMMA NothingHappens ==
  ASSUME \A r \in Ranges : RangeState(r)' = RangeState(r) /\ Tries(r)' = Tries(r),
         UNCHANGED <<rels_found, crashes>>, pc' = "finished" <=> pc = "finished"
  PROVE  Simulated
  <1>1. [r \in Ranges |-> RangeState(r)]' = [r \in Ranges |-> RangeState(r)]
    OBVIOUS
  <1>2. [r \in Ranges |-> Cardinality(AttemptsMade(r))]'
          = [r \in Ranges |-> Cardinality(AttemptsMade(r))]
    BY DEF Tries
  <1>3. (pc = "finished")' = (pc = "finished")
    OBVIOUS
  <1> QED BY <1>1, <1>2, <1>3 DEF Simulated, Ledger!ledger

(* Submit, Accept and GiveUp move one range, Close moves some.              *)
LEMMA Moves ==
  ASSUME NEW R \in SUBSET Ranges, NEW s,
         \A r \in R : RangeState(r)' = s,
         \A r \in Ranges \ R : RangeState(r)' = RangeState(r)
  PROVE  Ledger!Move(R, s)
  BY DEF Ledger!Move

LEMMA SameTries ==
  ASSUME \A r \in Ranges : Tries(r)' = Tries(r)
  PROVE  [r \in Ranges |-> Cardinality(AttemptsMade(r))]'
           = [r \in Ranges |-> Cardinality(AttemptsMade(r))]
  BY DEF Tries

LEMMA Submits ==
  ASSUME NEW r \in Ranges, pc # "finished", pc' # "finished",
         RangeState(r) = "todo", \A q \in Ranges : RangeState(q) = "todo" => r <= q,
         RangeState(r)' = "pending", Tries(r)' = 1,
         \A q \in Ranges \ {r} : RangeState(q)' = RangeState(q) /\ Tries(q)' = Tries(q),
         UNCHANGED <<rels_found, crashes>>
  PROVE  Simulated
  <1>1. Ledger!Move({r}, "pending")
    BY Moves
  <1>2. [q \in Ranges |-> Cardinality(AttemptsMade(q))]'
          = [[q \in Ranges |-> Cardinality(AttemptsMade(q))] EXCEPT ![r] = 1]
    BY DEF Tries
  <1>3. (pc = "finished")' = (pc = "finished")
    OBVIOUS
  <1>4. Ledger!Submit(r)
    BY <1>1, <1>2, <1>3 DEF Ledger!Submit, Ledger!In
  <1> QED BY <1>4 DEF Simulated, Ledger!Next

LEMMA Retries ==
  ASSUME NEW r \in Ranges, pc # "finished", pc' # "finished",
         RangeState(r) = "pending", Tries(r) < LastAttempt, Tries(r)' = Tries(r) + 1,
         \A q \in Ranges : RangeState(q)' = RangeState(q),
         \A q \in Ranges \ {r} : Tries(q)' = Tries(q),
         UNCHANGED <<rels_found, crashes>>
  PROVE  Simulated
  <1>1. [q \in Ranges |-> RangeState(q)]' = [q \in Ranges |-> RangeState(q)]
    OBVIOUS
  <1>2. [q \in Ranges |-> Cardinality(AttemptsMade(q))]'
          = [[q \in Ranges |-> Cardinality(AttemptsMade(q))] EXCEPT ![r] = @ + 1]
    BY DEF Tries
  <1>3. (pc = "finished")' = (pc = "finished")
    OBVIOUS
  <1>4. Ledger!Retry(r)
    BY <1>1, <1>2, <1>3 DEF Ledger!Retry, Ledger!In, Tries
  <1> QED BY <1>4 DEF Simulated, Ledger!Next

LEMMA Accepts ==
  ASSUME NEW r \in Ranges, pc # "finished", pc' # "finished",
         RangeState(r) = "pending", RangeState(r)' = "done",
         \A q \in Ranges \ {r} : RangeState(q)' = RangeState(q),
         \A q \in Ranges : Tries(q)' = Tries(q),
         rels_found' = rels_found + 1, crashes' = crashes
  PROVE  Simulated
  <1>1. Ledger!Move({r}, "done")
    BY Moves
  <1>2. (pc = "finished")' = (pc = "finished")
    OBVIOUS
  <1>3. Ledger!Accept(r)
    BY <1>1, <1>2, SameTries DEF Ledger!Accept, Ledger!In
  <1> QED BY <1>3 DEF Simulated, Ledger!Next

FewestTries == IF MaxResubmit < MaxWuError THEN MaxResubmit ELSE MaxWuError
Unusable == Outcomes \cap {"corrupt", "nofile"} # {}

LEMMA GivesUp ==
  ASSUME NEW r \in Ranges, pc # "finished", pc' # "finished",
         Unusable \/ Tries(r) >= FewestTries,
         RangeState(r) = "pending", RangeState(r)' = "abandoned",
         \A q \in Ranges \ {r} : RangeState(q)' = RangeState(q),
         \A q \in Ranges : Tries(q)' = Tries(q),
         UNCHANGED <<rels_found, crashes>>
  PROVE  Simulated
  <1>1. Ledger!Move({r}, "abandoned")
    BY Moves
  <1>2. (pc = "finished")' = (pc = "finished")
    OBVIOUS
  <1>3. Ledger!GiveUp(r)
    BY <1>1, <1>2, SameTries DEF Ledger!GiveUp, Ledger!In, Tries, Unusable, FewestTries
  <1> QED BY <1>3 DEF Simulated, Ledger!Next

-------------------------------------------------------------------------------
(* What becomes of ranges when rows change.                                 *)

Creating(r) == pc = "create" /\ cur[1] = r

(* A range none of whose rows is created, settled or registered stays as    *)
(* it is.                                                                   *)
LEMMA RangeStays ==
  ASSUME status \in Table, status' \in Table, NEW r \in Ranges,
         \A v \in AttemptsOf(r) :
           /\ v \in output_files' <=> v \in output_files
           /\ status'[v] # NoRow <=> status[v] # NoRow
           /\ v \notin output_files => (status'[v] \in Open <=> status[v] \in Open),
         Creating(r)' <=> Creating(r)
  PROVE  RangeState(r)' = RangeState(r) /\ Tries(r)' = Tries(r)
  <1>1. AttemptsMade(r)' = AttemptsMade(r)
    BY DEF AttemptsMade, AttemptsOf
  <1>2. Filed(r)' <=> Filed(r)
    BY DEF Filed, AttemptsOf
  <1>3. ASSUME ~Filed(r) PROVE Live(r)' <=> Live(r)
    <2>1. \A v \in AttemptsOf(r) : status'[v] \in Open <=> status[v] \in Open
      BY <1>3 DEF Filed
    <2>2. DOMAIN status = WUs /\ DOMAIN status' = WUs
      BY DEF Table
    <2>3. AttemptsOf(r) \cap RowsWith(status', Open) = AttemptsOf(r) \cap RowsWith(status, Open)
      BY <2>1, <2>2 DEF AttemptsOf, RowsWith
    <2>4. AttemptsOf(r)' = AttemptsOf(r)
      BY DEF AttemptsOf
    <2> QED BY <2>3, <2>4 DEF Live, Creating
  <1>4. Tries(r)' = Tries(r)
    BY <1>1 DEF Tries
  <1> QED BY <1>1, <1>2, <1>3, <1>4, StateForm, StateFormNext

(* The steps that move rows between open statuses only.                     *)
LEMMA Quiet ==
  ASSUME status \in Table, status' \in Table,
         \A v \in WUs : status'[v] = status[v] \/ (status[v] \in Open /\ status'[v] \in Open),
         UNCHANGED <<output_files, rels_found, crashes>>,
         \/ UNCHANGED <<pc, cur>>
         \/ pc \notin {"create", "finished"} /\ pc' \notin {"create", "finished"}
  PROVE  Simulated
  <1>1. \A v \in WUs : /\ status'[v] # NoRow <=> status[v] # NoRow
                       /\ status'[v] \in Open <=> status[v] \in Open
    BY StatusKinds
  <1>2. \A r \in Ranges : Creating(r)' <=> Creating(r)
    BY DEF Creating
  <1>3. ASSUME NEW r \in Ranges
        PROVE  RangeState(r)' = RangeState(r) /\ Tries(r)' = Tries(r)
    <2>1. \A v \in AttemptsOf(r) :
            /\ status'[v] # NoRow <=> status[v] # NoRow
            /\ v \notin output_files => (status'[v] \in Open <=> status[v] \in Open)
      BY <1>1 DEF AttemptsOf
    <2> QED BY <1>2, <2>1, RangeStays
  <1> QED BY <1>3, NothingHappens

(* The range of an open row without a file is given up when the row is      *)
(* settled and nothing takes its place.                                     *)
LEMMA RangeGivenUp ==
  ASSUME LedgerInv, status' \in Table, NEW w \in WUs, status[w] \in Open,
         w \notin output_files, status'[w] \in Settled,
         \A v \in WUs : v # w => status'[v] = status[v],
         pc' # "create", UNCHANGED output_files
  PROVE  RangeState(w[1])' = "abandoned"
  <1>1. AttemptsMade(w[1]) # {} /\ ~Filed(w[1])
    BY OpenIsPending
  <1>2. AttemptsMade(w[1])' # {} /\ ~Filed(w[1])'
    <2>1. w \in AttemptsMade(w[1])'
      BY DEF AttemptsMade, AttemptsOf, Settled, NoRow
    <2> QED BY <1>1, <2>1 DEF Filed, AttemptsOf
  <1>3. \A v \in WUs : v[1] = w[1] => status'[v] \in Settled \cup {NoRow}
    <2>1. status[w] \notin Settled /\ status[w] # NoRow
      BY StatusKinds DEF Settled, Open, Received, NoRow
    <2> QED BY <2>1, OnlyAttempt
  <1>4. ~Live(w[1])'
    <2>1. (Settled \cup {NoRow}) \cap Open = {}
      BY DEF Settled, Open, Received, NoRow
    <2> QED BY <1>3, <2>1 DEF Live, AttemptsOf, RowsWith
  <1> QED BY <1>2, <1>4, StateFormNext

LEMMA RowGivenUp ==
  ASSUME LedgerInv, status' \in Table, NEW w \in WUs, status[w] \in Open,
         w \notin output_files, status'[w] \in Settled,
         \A v \in WUs : v # w => status'[v] = status[v],
         pc \notin {"create", "finished"}, pc' \notin {"create", "finished"},
         UNCHANGED <<output_files, rels_found, crashes>>,
         Unusable \/ w[2] >= FewestTries
  PROVE  Simulated
  <1>t. status \in Table
    BY DEF LedgerInv, TypeInv, TypeOK, Table
  <1>1. w[1] \in Ranges /\ RangeState(w[1]) = "pending" /\ RangeState(w[1])' = "abandoned"
    BY OpenIsPending, RangeGivenUp
  <1>2. status[w] # NoRow /\ status'[w] # NoRow
    BY StatusKinds DEF Settled, NoRow
  <1>3. ASSUME NEW r \in Ranges, r # w[1]
        PROVE  RangeState(r)' = RangeState(r) /\ Tries(r)' = Tries(r)
    <2>1. \A v \in AttemptsOf(r) : status'[v] = status[v]
      BY <1>3 DEF AttemptsOf
    <2> QED BY <1>t, <2>1, RangeStays DEF Creating
  <1>4. Tries(w[1])' = Tries(w[1])
    <2>1. AttemptsMade(w[1])' = AttemptsMade(w[1])
      BY <1>2 DEF AttemptsMade, AttemptsOf
    <2> QED BY <2>1 DEF Tries
  <1>5. Unusable \/ Tries(w[1]) >= FewestTries
    <2>1. w[2] <= Tries(w[1])
      BY <1>2, AtLeast DEF Tries
    <2>2. Tries(w[1]) \in Nat /\ w[2] \in Nat /\ FewestTries \in Nat
      BY <1>1, AttemptsCount, WUType, CSTAssumption DEF Tries, FewestTries, CSTAssumption
    <2> QED BY <2>1, <2>2
  <1> QED BY <1>1, <1>3, <1>4, <1>5, GivesUp

(* The range of an open row goes on being in progress if the row is settled *)
(* to be replaced in a second transaction.                                  *)
LEMMA RowToReplace ==
  ASSUME LedgerInv, status' \in Table, NEW w \in WUs, status[w] \in Open,
         w \notin output_files, status'[w] \in Settled,
         \A v \in WUs : v # w => status'[v] = status[v],
         pc \notin {"create", "finished"}, pc' = "create", cur' = w,
         UNCHANGED <<output_files, rels_found, crashes>>
  PROVE  Simulated
  <1>t. status \in Table
    BY DEF LedgerInv, TypeInv, TypeOK, Table
  <1>1. /\ w[1] \in Ranges /\ AttemptsMade(w[1]) # {} /\ ~Filed(w[1])
        /\ RangeState(w[1]) = "pending"
    BY OpenIsPending
  <1>2. status[w] # NoRow /\ status'[w] # NoRow
    BY StatusKinds DEF Settled, NoRow
  <1>3. AttemptsMade(w[1])' = AttemptsMade(w[1])
    BY <1>2 DEF AttemptsMade, AttemptsOf
  <1>4. ~Filed(w[1])' /\ Live(w[1])'
    BY <1>1 DEF Filed, Live, AttemptsOf
  <1>5. RangeState(w[1])' = RangeState(w[1]) /\ Tries(w[1])' = Tries(w[1])
    BY <1>1, <1>3, <1>4, StateFormNext DEF Tries
  <1>6. ASSUME NEW r \in Ranges, r # w[1]
        PROVE  RangeState(r)' = RangeState(r) /\ Tries(r)' = Tries(r)
    <2>1. \A v \in AttemptsOf(r) : status'[v] = status[v]
      BY <1>6 DEF AttemptsOf
    <2>2. Creating(r)' <=> Creating(r)
      BY <1>6 DEF Creating
    <2> QED BY <1>t, <2>1, <2>2, RangeStays
  <1> QED BY <1>5, <1>6, NothingHappens

(* A range in progress gets a further attempt.                              *)
LEMMA RangeRetried ==
  ASSUME LedgerInv, status' \in Table, NEW r \in Ranges,
         RangeState(r) = "pending", ~Filed(r),
         NEW n \in WUs, n[1] = r, status[n] = NoRow, status'[n] = "AVAILABLE",
         \A v \in WUs : v[1] = r /\ v # n => (status'[v] # NoRow <=> status[v] # NoRow),
         \A v \in WUs : v[1] # r => status'[v] = status[v],
         pc # "finished", pc' \notin {"create", "finished"}, pc = "create" => cur[1] = r,
         UNCHANGED <<output_files, rels_found, crashes>>
  PROVE  Simulated
  <1>t. status \in Table
    BY DEF LedgerInv, TypeInv, TypeOK, Table
  <1>1. n \in AttemptsOf(r) /\ n \notin AttemptsMade(r) /\ Tries(r) < LastAttempt
    BY Fewer DEF AttemptsOf, Tries
  <1>2. AttemptsMade(r)' = AttemptsMade(r) \cup {n}
    BY DEF AttemptsMade, AttemptsOf, NoRow
  <1>3. Tries(r)' = Tries(r) + 1
    <2>1. IsFiniteSet(AttemptsMade(r))
      BY AttemptsCount
    <2>2. Cardinality(AttemptsMade(r) \cup {n}) = Cardinality(AttemptsMade(r)) + 1
      BY <1>1, <2>1, FS_AddElement
    <2> QED BY <1>2, <2>2 DEF Tries
  <1>4. RangeState(r)' = "pending"
    <2>1. AttemptsMade(r)' # {} /\ ~Filed(r)'
      BY <1>2 DEF Filed, AttemptsOf
    <2>2. Live(r)'
      BY <1>1 DEF Live, RowsWith, AttemptsOf, Table, Open
    <2> QED BY <2>1, <2>2, StateFormNext
  <1>5. ASSUME NEW q \in Ranges, q # r
        PROVE  RangeState(q)' = RangeState(q) /\ Tries(q)' = Tries(q)
    <2>1. \A v \in AttemptsOf(q) : status'[v] = status[v]
      BY <1>5 DEF AttemptsOf
    <2>2. Creating(q)' <=> Creating(q)
      BY <1>5 DEF Creating
    <2> QED BY <1>t, <2>1, <2>2, RangeStays
  <1> QED BY <1>1, <1>3, <1>4, <1>5, Retries

(* resubmit_one_wu() gives the range up, tries it again or leaves that to   *)
(* the next transaction.                                                    *)
LEMMA ResubmitSimulates ==
  ASSUME LedgerInv, TypeInv', NEW w \in WUs, status[w] \in Open, w \notin output_files,
         NEW st \in Settled, NEW limit \in Nat, limit >= FewestTries, limit <= LastAttempt,
         resubmit_one_wu(SetStatus(status, {w}, st), w, limit),
         pc \notin {"create", "finished"},
         UNCHANGED <<output_files, rels_found, crashes>>
  PROVE  Simulated
  <1> DEFINE tab == SetStatus(status, {w}, st)
  <1>t. status \in Table /\ status' \in Table /\ rels_found' \in Nat /\ rels_wanted' \in Nat
    BY DEF LedgerInv, TypeInv, TypeOK, Table
  <1>1. st \in WuStatus
    BY DEF Settled, WuStatus
  <1>2. /\ tab \in Table /\ tab[w] = st
        /\ \A v \in WUs : v # w => tab[v] = status[v]
    BY <1>t, <1>1, SetStatusRows
  <1>e. EndOfWait => pc' \notin {"create", "finished"}
    BY <1>t, EndOfWaitType DEF Between
  <1>n. w[2] \in Nat /\ FewestTries \in Nat
    BY WUType, CSTAssumption DEF FewestTries, CSTAssumption
  <1> HIDE DEF tab
  <1>3. CASE w[2] + 1 > limit /\ status' = tab /\ EndOfWait
    <2>1. w[2] >= FewestTries
      BY <1>n, <1>3
    <2> QED BY <1>t, <1>2, <1>3, <1>e, <2>1, RowGivenUp
  <1>4. CASE /\ w[2] + 1 <= limit /\ CanCreate(tab, Next1(w))
             /\ status' = Created(tab, Next1(w)) /\ EndOfWait
    <2>1. w[2] < LastAttempt
      BY <1>n, <1>4, Attempt1
    <2>2. Next1(w) \in WUs /\ Next1(w) # w /\ Next1(w)[1] = w[1]
      BY <2>1, NeighbourType
    <2>3. status'[Next1(w)] = "AVAILABLE" /\ \A v \in WUs : v # Next1(w) => status'[v] = tab[v]
      BY <1>2, <1>4, <2>2, SetStatusRows DEF Created, WuStatus
    <2>4. status[Next1(w)] = NoRow
      BY <1>2, <1>4, <2>2 DEF CanCreate
    <2>5. w[1] \in Ranges /\ RangeState(w[1]) = "pending" /\ ~Filed(w[1])
      BY OpenIsPending
    <2>6. st # NoRow /\ status[w] # NoRow
      BY StatusKinds DEF Settled, NoRow
    <2>7. \A v \in WUs : v # Next1(w) => (status'[v] # NoRow <=> status[v] # NoRow)
      BY <1>2, <2>3, <2>6
    <2>8. \A v \in WUs : v[1] # w[1] => status'[v] = status[v]
      BY <1>2, <2>2, <2>3
    <2> QED BY <1>t, <1>4, <1>e, <2>2, <2>3, <2>4, <2>5, <2>7, <2>8, RangeRetried
  <1>5. CASE status' = tab /\ cur' = w /\ pc' = "create"
    BY <1>t, <1>2, <1>5, RowToReplace
  <1> QED BY <1>3, <1>4, <1>5 DEF resubmit_one_wu, tab

(* The second transaction of a resubmission.                                *)
LEMMA CreateRowSimulates ==
  ASSUME LedgerInv, TypeInv', CreateRow
  PROVE  Simulated
  <1>t. status \in Table /\ status' \in Table /\ rels_found' \in Nat /\ rels_wanted' \in Nat
    BY DEF LedgerInv, TypeInv, TypeOK, Table
  <1>1. /\ pc = "create" /\ status' = Created(status, Next1(cur)) /\ EndOfWait
        /\ UNCHANGED <<output_files, rels_found, crashes>>
    BY DEF CreateRow, ghost
  <1>2. /\ cur[1] \in Ranges /\ RangeState(cur[1]) = "pending" /\ ~Filed(cur[1])
        /\ Next1(cur) \in WUs /\ status[Next1(cur)] = NoRow /\ Next1(cur)[1] = cur[1]
    BY <1>1, CreateIsPending
  <1>3. /\ status'[Next1(cur)] = "AVAILABLE"
        /\ \A v \in WUs : v # Next1(cur) => status'[v] = status[v]
    BY <1>t, <1>1, <1>2, SetStatusRows DEF Created, WuStatus
  <1>4. pc' \notin {"create", "finished"}
    BY <1>t, <1>1, EndOfWaitType DEF Between
  <1> QED BY <1>t, <1>1, <1>2, <1>3, <1>4, RangeRetried

-------------------------------------------------------------------------------
(* Results.                                                                 *)

(* A file is that of one range, and of no other.                            *)
LEMMA FilesAreRanges ==
  ASSUME LedgerInv
  PROVE  Cardinality(output_files)
           <= Cardinality({r \in Ranges : RangeState(r) = "done"})
  <1> DEFINE D == {r \in Ranges : RangeState(r) = "done"}
             f == [w \in output_files |-> w[1]]
  <1>1. IsFiniteSet(D)
    <2>1. IsFiniteSet(Ranges)
      BY FS_Interval, CSTAssumption DEF Ranges, CSTAssumption
    <2> QED BY <2>1, FS_Subset
  <1>2. \A w \in output_files :
          /\ w \in WUs /\ status[w] \notin Settled /\ status[w] # NoRow
    BY DEF LedgerInv, TypeInv, TypeOK, FilesMatch, Settled, NoRow
  <1>3. ASSUME NEW w \in output_files PROVE w[1] \in D
    <2>1. w[1] \in Ranges /\ w \in AttemptsMade(w[1]) /\ Filed(w[1])
      BY <1>2, WUType DEF AttemptsMade, AttemptsOf, Filed
    <2> QED BY <2>1, StateForm
  <1>4. \A w, v \in output_files : w[1] = v[1] => w = v
    BY <1>2, OnlyAttempt
  <1>5. f \in Injection(output_files, D)
    BY <1>3, <1>4 DEF Injection, IsInjective
  <1> QED BY <1>1, <1>5, FS_Injection

(* A result whose verification was interrupted is counted again.            *)
LEMMA CountsAgain ==
  ASSUME LedgerInv, pc = "observe", NEW w \in output_files, status[w] = "RECEIVED_OK",
         \A r \in Ranges : RangeState(r)' = RangeState(r) /\ Tries(r)' = Tries(r),
         rels_found' = rels_found + 1, crashes' = crashes, pc' # "finished"
  PROVE  Simulated
  <1> DEFINE D == {r \in Ranges : RangeState(r) = "done"}
  <1>1. w \in CountedAgain
    BY DEF CountedAgain
  <1>2. /\ Cardinality(CountedAgain) \in Nat /\ Cardinality(CountedAgain) # 0
        /\ Cardinality(output_files) \in Nat /\ rels_found \in Nat /\ recounted \in Nat
        /\ crashes \in Nat
    <2>1. /\ IsFiniteSet(CountedAgain) /\ Cardinality(CountedAgain) \in Nat
          /\ Cardinality(output_files) \in Nat /\ rels_found \in Nat /\ recounted \in Nat
      BY FilesFinite DEF LedgerInv
    <2>2. Cardinality(CountedAgain) # 0
      BY <1>1, <2>1, FS_EmptySet
    <2> QED BY <2>1, <2>2 DEF LedgerInv, TypeInv, TypeOK
  <1>3. rels_found + Cardinality(CountedAgain) <= recounted + Cardinality(output_files)
    BY DEF LedgerInv, FilesMatch
  <1>4. recounted <= crashes
    BY <1>2 DEF LedgerInv, History
  <1>5. Cardinality(D) \in Nat /\ IsFiniteSet(D)
    <2>1. IsFiniteSet(Ranges)
      BY FS_Interval, CSTAssumption DEF Ranges, CSTAssumption
    <2> QED BY <2>1, FS_Subset, FS_CardinalityType
  <1>6. rels_found - Cardinality(D) < crashes
    BY <1>2, <1>3, <1>4, <1>5, FilesAreRanges
  <1>7. D # {}
    <2>1. w \in WUs /\ status[w] # NoRow
      BY DEF LedgerInv, TypeInv, TypeOK, NoRow
    <2>2. w[1] \in Ranges /\ w \in AttemptsMade(w[1]) /\ Filed(w[1])
      BY <2>1, WUType DEF AttemptsMade, AttemptsOf, Filed
    <2> QED BY <2>2, StateForm
  <1>8. Ledger!In("done") = D
    BY DEF Ledger!In
  <1>9. [r \in Ranges |-> RangeState(r)]' = [r \in Ranges |-> RangeState(r)]
    OBVIOUS
  <1>10. (pc = "finished")' = (pc = "finished")
    OBVIOUS
  <1>11. Ledger!Cardinality(D) = Cardinality(D)
    BY DEF Ledger!Cardinality, Cardinality
  <1> HIDE DEF D
  <1>12. Ledger!CountAgain
    BY <1>6, <1>7, <1>8, <1>9, <1>10, <1>11, SameTries DEF Ledger!CountAgain
  <1> QED BY <1>12 DEF Simulated, Ledger!Next

(* updateObserver(): a good file is accepted, or counted again; a file that *)
(* cannot be parsed is the end of the range.                                *)
LEMMA GoodResultSimulates ==
  ASSUME LedgerInv, TypeInv', HandleGoodResult
  PROVE  Simulated
  <1>t. status \in Table /\ status' \in Table /\ rels_found' \in Nat /\ rels_wanted' \in Nat
    BY DEF LedgerInv, TypeInv, TypeOK, Table
  <1>1. /\ cur \in WUs /\ status[cur] \in Open /\ pc = "observe"
        /\ outcome[cur] \in {"ok", "corrupt"} /\ crashes' = crashes
    BY CurRow DEF HandleGoodResult, LedgerInv, ghost
  <1>2. status[cur] = "RECEIVED_OK"
    <2>1. status[cur] \in Received
      BY <1>1 DEF LedgerInv, Coherent, MainHolds, RowsWith
    <2> QED BY <1>1, <2>1 DEF LedgerInv, ResultKnown, Received
  <1>3. \/ pc' = "verify" /\ cur' = cur /\ status' = status
        \/ pc' \in Between /\ status' = Verification(status, cur, outcome[cur] = "ok")
    BY <1>t, EndOfWaitType DEF HandleGoodResult
  <1>4. pc' \notin {"create", "finished"}
    BY <1>3 DEF Between
  <1>5. \A v \in WUs : v # cur => status'[v] = status[v]
    BY <1>t, <1>1, <1>3, SetStatusRows DEF Verification, WuStatus
  <1>6. status'[cur] # NoRow
    BY <1>t, <1>1, <1>2, <1>3, SetStatusRows DEF Verification, WuStatus, NoRow
  <1>7. CASE outcome[cur] = "corrupt"
    <2>1. UNCHANGED <<rels_found, output_files, crashes>>
      BY <1>1, <1>7 DEF HandleGoodResult
    <2>2. cur \notin output_files
      BY <1>7 DEF LedgerInv, FilesMatch
    <2>3. CASE status' = status
      BY <1>t, <1>1, <1>4, <2>1, <2>3, Quiet
    <2>4. CASE status' = Verification(status, cur, outcome[cur] = "ok")
      <3>1. status'[cur] \in Settled
        BY <1>t, <1>1, <1>7, <2>4, SetStatusRows DEF Verification, WuStatus, Settled
      <3>2. Unusable
        BY <1>1, <1>7 DEF LedgerInv, History, Unusable
      <3> QED BY <1>t, <1>1, <1>4, <1>5, <2>1, <2>2, <3>1, <3>2, RowGivenUp
    <2> QED BY <1>3, <2>3, <2>4
  <1>8. CASE outcome[cur] = "ok"
    <2>1. /\ rels_found' = rels_found + 1 /\ output_files' = output_files \cup {cur}
      BY <1>8 DEF HandleGoodResult
    <2>2. ASSUME NEW r \in Ranges, r # cur[1] \/ cur \in output_files
          PROVE  RangeState(r)' = RangeState(r) /\ Tries(r)' = Tries(r)
      <3>1. \A v \in AttemptsOf(r) :
              /\ v \in output_files' <=> v \in output_files
              /\ status'[v] # NoRow <=> status[v] # NoRow
              /\ v \notin output_files => (status'[v] \in Open <=> status[v] \in Open)
        BY <1>2, <1>5, <1>6, <2>1, <2>2 DEF AttemptsOf, NoRow
      <3>2. Creating(r)' <=> Creating(r)
        BY <1>1, <1>4 DEF Creating
      <3> QED BY <1>t, <3>1, <3>2, RangeStays
    <2>3. CASE cur \in output_files
      BY <1>1, <1>2, <1>4, <2>1, <2>2, <2>3, CountsAgain
    <2>4. CASE cur \notin output_files
      <3>1. /\ cur[1] \in Ranges /\ AttemptsMade(cur[1]) # {}
            /\ RangeState(cur[1]) = "pending"
        BY <1>1, <2>4, OpenIsPending
      <3>2. PICK r \in Ranges : r = cur[1]
        BY <3>1
      <3>3. AttemptsMade(r)' = AttemptsMade(r)
        BY <1>2, <1>5, <1>6 DEF AttemptsMade, AttemptsOf, NoRow
      <3>4. Filed(r)'
        BY <1>1, <2>1, <3>2 DEF Filed, AttemptsOf
      <3>5. RangeState(r)' = "done" /\ Tries(r)' = Tries(r)
        BY <3>1, <3>2, <3>3, <3>4, StateFormNext DEF Tries
      <3> QED BY <1>1, <1>4, <2>1, <2>2, <3>1, <3>2, <3>5, Accepts
    <2> QED BY <2>3, <2>4
  <1> QED BY <1>1, <1>7, <1>8

(* The second transaction of a verification: the file is registered, so     *)
(* that nothing changes for a good one.                                     *)
LEMMA VerifySimulates ==
  ASSUME LedgerInv, TypeInv', Verify
  PROVE  Simulated
  <1>t. status \in Table /\ status' \in Table /\ rels_found' \in Nat /\ rels_wanted' \in Nat
    BY DEF LedgerInv, TypeInv, TypeOK, Table
  <1>1. /\ cur \in WUs /\ status[cur] \in Open /\ pc = "verify"
        /\ outcome[cur] \in {"ok", "corrupt"}
        /\ status' = Verification(status, cur, outcome[cur] = "ok")
        /\ UNCHANGED <<rels_found, output_files, crashes>> /\ EndOfWait
    BY CurRow DEF Verify, LedgerInv, ResultKnown, dict, ghost
  <1>2. pc' \notin {"create", "finished"}
    BY <1>t, <1>1, EndOfWaitType DEF Between
  <1>3. /\ \A v \in WUs : v # cur => status'[v] = status[v]
        /\ status'[cur] = IF outcome[cur] = "ok" THEN "VERIFIED_OK" ELSE "VERIFIED_ERROR"
    BY <1>t, <1>1, SetStatusRows DEF Verification, WuStatus
  <1>4. CASE outcome[cur] = "corrupt"
    <2>1. cur \notin output_files /\ Unusable
      BY <1>1, <1>4 DEF LedgerInv, FilesMatch, History, Unusable
    <2> QED BY <1>t, <1>1, <1>2, <1>3, <1>4, <2>1, RowGivenUp DEF Settled
  <1>5. CASE outcome[cur] = "ok"
    <2>1. cur \in output_files
      BY <1>1, <1>5 DEF LedgerInv, FilesMatch
    <2>2. status[cur] # NoRow /\ status'[cur] # NoRow
      BY <1>1, <1>3, <1>5, StatusKinds DEF NoRow
    <2>3. ASSUME NEW r \in Ranges
          PROVE  RangeState(r)' = RangeState(r) /\ Tries(r)' = Tries(r)
      <3>1. \A v \in AttemptsOf(r) :
              /\ v \in output_files' <=> v \in output_files
              /\ status'[v] # NoRow <=> status[v] # NoRow
              /\ v \notin output_files => (status'[v] \in Open <=> status[v] \in Open)
        BY <1>1, <1>3, <2>1, <2>2 DEF AttemptsOf
      <3>2. Creating(r)' <=> Creating(r)
        BY <1>1, <1>2 DEF Creating
      <3> QED BY <1>t, <3>1, <3>2, RangeStays
    <2> QED BY <1>1, <1>2, <2>3, NothingHappens
  <1> QED BY <1>1, <1>4, <1>5

(* verification() of an error, in the transaction of the counters or after  *)
(* an interruption could have come.                                         *)
LEMMA ErrorResultSimulates ==
  ASSUME LedgerInv, TypeInv', HandleErrorResult \/ VerifyError
  PROVE  Simulated
  <1>t. status \in Table /\ status' \in Table /\ rels_found' \in Nat /\ rels_wanted' \in Nat
    BY DEF LedgerInv, TypeInv, TypeOK, Table
  <1>1. /\ cur \in WUs /\ status[cur] \in Open /\ outcome[cur] = "error"
        /\ pc \in {"observe", "everify"}
        /\ UNCHANGED <<rels_found, output_files, crashes>>
    BY CurRow DEF HandleErrorResult, VerifyError, LedgerInv, ResultKnown, ghost
  <1>2. cur \notin output_files
    BY <1>1 DEF LedgerInv, FilesMatch
  <1>3. \/ pc' = "everify" /\ cur' = cur /\ status' = status
        \/ resubmit_one_wu(SetStatus(status, {cur}, "VERIFIED_ERROR"), cur, MaxWuError)
    BY DEF HandleErrorResult, VerifyError, Verification
  <1>4. CASE pc' = "everify" /\ cur' = cur /\ status' = status
    BY <1>t, <1>1, <1>4, Quiet
  <1>5. CASE resubmit_one_wu(SetStatus(status, {cur}, "VERIFIED_ERROR"), cur, MaxWuError)
    <2>1. MaxWuError \in Nat /\ MaxWuError >= FewestTries /\ MaxWuError <= LastAttempt
      BY Limits, CSTAssumption DEF FewestTries, CSTAssumption
    <2>2. PICK st \in Settled : st = "VERIFIED_ERROR"
      BY DEF Settled
    <2> QED BY <1>1, <1>2, <1>5, <2>1, <2>2, ResubmitSimulates
  <1> QED BY <1>3, <1>4, <1>5

(* cancel_wu() and resubmit_one_wu() of a row that was found timed out.     *)
LEMMA TimedOutSimulates ==
  ASSUME LedgerInv, TypeInv', CancelTimedOut
  PROVE  Simulated
  <1>1. PICK w \in todo : resubmit_one_wu(SetStatus(status, {w}, "CANCELLED"), w, MaxResubmit)
    BY DEF CancelTimedOut, Cancel
  <1>2. w \in WUs /\ status[w] \in Open /\ w \notin output_files
    BY <1>1 DEF LedgerInv, TypeInv, TypeOK, Coherent, MainHolds, OpenRows, RowsWith, FilesMatch
  <1>3. pc = "timeouts" /\ UNCHANGED <<rels_found, output_files, crashes>>
    BY DEF CancelTimedOut, ghost
  <1>4. MaxResubmit \in Nat /\ MaxResubmit >= FewestTries /\ MaxResubmit <= LastAttempt
    BY Limits, CSTAssumption DEF FewestTries, CSTAssumption
  <1>5. PICK st \in Settled : st = "CANCELLED"
    BY DEF Settled
  <1> QED BY <1>1, <1>2, <1>3, <1>4, <1>5, ResubmitSimulates

(* A result without its file is the end of its range.                       *)
LEMMA UnhandledSimulates ==
  ASSUME LedgerInv, TypeInv', CancelUnhandled
  PROVE  Simulated
  <1>t. status \in Table /\ status' \in Table
    BY DEF LedgerInv, TypeInv, TypeOK, Table
  <1>1. /\ cur \in WUs /\ status[cur] \in Open /\ outcome[cur] = "nofile"
        /\ pc = "observe" /\ pc' = "check" /\ status' = SetStatus(status, {cur}, "CANCELLED")
        /\ UNCHANGED <<rels_found, output_files, crashes>>
    BY CurRow DEF CancelUnhandled, LedgerInv, dict, Cancel
  <1>2. cur \notin output_files /\ Unusable
    BY <1>1 DEF LedgerInv, FilesMatch, History, Unusable
  <1>3. /\ status'[cur] \in Settled
        /\ \A v \in WUs : v # cur => status'[v] = status[v]
    BY <1>t, <1>1, SetStatusRows DEF WuStatus, Settled
  <1> QED BY <1>t, <1>1, <1>2, <1>3, RowGivenUp

-------------------------------------------------------------------------------
(* The beginning and the end of sieving, and interruptions.                 *)

(* submit_command() takes up the first range that nobody has begun.         *)
LEMMA SubmitSimulates ==
  ASSUME LedgerInv, TypeInv', submit_command
  PROVE  Simulated
  <1>t. status \in Table /\ status' \in Table
    BY DEF LedgerInv, TypeInv, TypeOK, Table
  <1>1. /\ pc = "submit" /\ status' = Created(status, <<qnext, 1>>)
        /\ UNCHANGED <<rels_found, output_files, crashes>>
    BY DEF submit_command, ghost
  <1>2. pc' \in Between
    BY LoopTypes DEF submit_command, LedgerInv, TypeInv, TypeOK
  <1>3. PICK q \in Ranges : q = qnext
    BY <1>1, CSTAssumption DEF LedgerInv, TypeInv, TypeOK, Ranges, CSTAssumption
  <1>4. \A r \in Ranges : <<r, 1>> \in WUs /\ r \in Nat
    BY Attempt1, CSTAssumption DEF WUs, Attempts, Ranges, CSTAssumption
  <1>5. \A r \in Ranges : status[<<r, 1>>] # NoRow <=> r < q
    BY <1>3 DEF LedgerInv, Coherent, RangesSubmitted
  <1>6. AttemptsMade(q) = {}
    <2> SUFFICES ASSUME NEW v \in WUs, v[1] = q, status[v] # NoRow PROVE FALSE
      BY DEF AttemptsMade, AttemptsOf
    <2>1. v[2] \in Nat \ {0} /\ v = <<v[1], v[2]>>
      BY WUType
    <2>2. status[<<q, 1>>] = NoRow
      BY <1>4, <1>5
    <2>3. v[2] > 1
      BY <2>1, <2>2
    <2>4. status[<<q, 1>>] \in Settled
      BY <1>4, <2>3 DEF LedgerInv, History
    <2> QED BY <2>2, <2>4 DEF Settled, NoRow
  <1>7. \A r \in Ranges : RangeState(r) = "todo" => q <= r
    <2>1. ASSUME NEW r \in Ranges, r < q PROVE RangeState(r) # "todo"
      <3>1. <<r, 1>> \in AttemptsMade(r)
        BY <1>4, <1>5, <2>1 DEF AttemptsMade, AttemptsOf
      <3> QED BY <3>1, StateForm
    <2>2. \A r \in Ranges : r < q \/ q <= r
      <3>1. \A r \in Ranges : r \in Nat
        BY <1>4
      <3> QED BY <3>1
    <2> QED BY <2>1, <2>2
  <1>8. /\ status'[<<q, 1>>] = "AVAILABLE"
        /\ \A v \in WUs : v # <<q, 1>> => status'[v] = status[v]
    BY <1>t, <1>1, <1>3, <1>4, SetStatusRows DEF Created, WuStatus
  <1>9. AttemptsMade(q)' = {<<q, 1>>}
    BY <1>4, <1>6, <1>8 DEF AttemptsMade, AttemptsOf, NoRow
  <1>10. RangeState(q)' = "pending"
    <2>1. ~Filed(q)'
      <3>1. \A v \in output_files : v \in WUs /\ status[v] # NoRow
        BY DEF LedgerInv, TypeInv, TypeOK, FilesMatch, NoRow
      <3> QED BY <1>1, <1>6, <3>1 DEF Filed, AttemptsMade, AttemptsOf
    <2>2. Live(q)'
      <3>1. <<q, 1>> \in AttemptsOf(q) /\ <<q, 1>> \in RowsWith(status', Open)
        BY <1>t, <1>4, <1>8 DEF AttemptsOf, RowsWith, Table, Open
      <3>2. AttemptsOf(q)' = AttemptsOf(q)
        BY DEF AttemptsOf
      <3> QED BY <3>1, <3>2 DEF Live
    <2> QED BY <1>9, <2>1, <2>2, StateFormNext
  <1>11. Tries(q)' = 1 /\ RangeState(q) = "todo"
    BY <1>6, <1>9, FS_Singleton, StateForm DEF Tries
  <1>12. ASSUME NEW r \in Ranges, r # q
         PROVE  RangeState(r)' = RangeState(r) /\ Tries(r)' = Tries(r)
    <2>1. \A v \in AttemptsOf(r) : status'[v] = status[v]
      BY <1>8, <1>12 DEF AttemptsOf
    <2>2. Creating(r)' <=> Creating(r)
      BY <1>1, <1>2 DEF Creating, Between
    <2> QED BY <1>t, <1>1, <2>1, <2>2, RangeStays
  <1>13. pc # "finished" /\ pc' # "finished"
    BY <1>1, <1>2 DEF Between
  <1> QED BY <1>1, <1>7, <1>10, <1>11, <1>12, <1>13, Submits

(* HAVE_ENOUGH_RELATIONS: the ranges that nobody works on are given up.     *)
LEMMA EnoughSimulates ==
  ASSUME LedgerInv, TypeInv', HaveEnoughRelations
  PROVE  Simulated
  <1>t. status \in Table /\ status' \in Table
    BY DEF LedgerInv, TypeInv, TypeOK, Table
  <1>1. /\ pc = "done" /\ pc' = "finished" /\ status' = SetStatus(status, Available, "CANCELLED")
        /\ UNCHANGED <<rels_found, output_files, crashes>>
    BY DEF HaveEnoughRelations, Cancel, dict
  <1>2. \A v \in WUs : /\ v \in Available => status'[v] = "CANCELLED"
                       /\ v \notin Available => status'[v] = status[v]
    BY <1>t, <1>1, SetStatusRows DEF WuStatus
  <1>3. \A v \in WUs : v \in Available <=> status[v] = "AVAILABLE"
    BY <1>t DEF Available, RowsWith, Table
  <1> DEFINE R == {r \in Ranges : \E v \in Available : v[1] = r}
  <1>4. \A v \in WUs : status'[v] # NoRow <=> status[v] # NoRow
    BY <1>2, <1>3 DEF NoRow
  <1>5. ASSUME NEW r \in Ranges PROVE Tries(r)' = Tries(r)
    <2>1. AttemptsMade(r)' = AttemptsMade(r)
      BY <1>4 DEF AttemptsMade, AttemptsOf
    <2> QED BY <2>1 DEF Tries
  <1>6. ASSUME NEW r \in R PROVE RangeState(r) = "pending" /\ RangeState(r)' = "abandoned"
    <2>1. PICK w \in WUs : status[w] = "AVAILABLE" /\ w[1] = r
      BY <1>3, <1>t DEF Available, RowsWith, Table
    <2>2. w \notin output_files /\ status[w] \in Open /\ status[w] \notin Settled
          /\ status[w] # NoRow
      BY <2>1 DEF LedgerInv, FilesMatch, Open, Settled, NoRow
    <2>3. RangeState(r) = "pending" /\ AttemptsMade(r) # {} /\ ~Filed(r)
      BY <2>1, <2>2, OpenIsPending
    <2>4. AttemptsMade(r)' # {} /\ ~Filed(r)'
      BY <1>1, <1>4, <2>3 DEF AttemptsMade, AttemptsOf, Filed
    <2>5. \A v \in WUs : v[1] = r => status'[v] \in Settled \cup {NoRow}
      BY <1>2, <1>3, <2>1, <2>2, OnlyAttempt DEF Settled
    <2>6. ~Live(r)'
      <3>1. (Settled \cup {NoRow}) \cap Open = {}
        BY DEF Settled, Open, Received, NoRow
      <3> QED BY <1>1, <2>5, <3>1 DEF Live, AttemptsOf, RowsWith
    <2> QED BY <2>3, <2>4, <2>6, StateFormNext
  <1>7. ASSUME NEW r \in Ranges \ R PROVE RangeState(r)' = RangeState(r)
    <2>1. \A v \in AttemptsOf(r) : status'[v] = status[v]
      BY <1>2, <1>7 DEF AttemptsOf
    <2> QED BY <1>t, <1>1, <2>1, RangeStays DEF Creating
  <1>8. R \in SUBSET Ranges
    OBVIOUS
  <1> HIDE DEF R
  <1>9. Ledger!Move(R, "abandoned")
    BY <1>6, <1>7, <1>8, Moves
  <1>10. R \in SUBSET Ledger!In("pending")
    BY <1>6, <1>8 DEF Ledger!In
  <1>11. Ledger!Close
    BY <1>1, <1>5, <1>9, <1>10, SameTries DEF Ledger!Close
  <1> QED BY <1>11 DEF Simulated, Ledger!Next

(* An interruption loses a range that is between two attempts.              *)
LEMMA InterruptSimulates ==
  ASSUME LedgerInv, TypeInv', Interrupt
  PROVE  Simulated
  <1>t. status \in Table /\ status' = status
    BY DEF LedgerInv, TypeInv, TypeOK, Table, Interrupt
  <1>1. /\ pc' = "down" /\ UNCHANGED <<rels_found, output_files>> /\ crashes' = crashes + 1
    BY DEF Interrupt, dict
  <1>2. ASSUME NEW r \in Ranges PROVE Tries(r)' = Tries(r)
    BY <1>t DEF Tries, AttemptsMade, AttemptsOf
  <1>3. ASSUME NEW r \in Ranges, ~Creating(r) PROVE RangeState(r)' = RangeState(r)
    <2>1. ~Creating(r)'
      BY <1>1 DEF Creating
    <2> QED BY <1>t, <1>1, <1>3, <2>1, RangeStays
  <1>4. CASE pc # "create"
    <2>1. [r \in Ranges |-> RangeState(r)]' = [r \in Ranges |-> RangeState(r)]
      BY <1>3, <1>4 DEF Creating
    <2>2. (pc = "finished")' = FALSE
      BY <1>1
    <2>3. Ledger!Interrupt
      BY <1>1, <1>2, <2>1, <2>2, SameTries DEF Ledger!Interrupt
    <2> QED BY <2>3 DEF Simulated, Ledger!Next
  <1>5. CASE pc = "create"
    <2>1. PICK r \in Ranges : r = cur[1]
      BY <1>5, CreateIsPending
    <2>2. /\ RangeState(r) = "pending" /\ AttemptsMade(r) # {} /\ ~Filed(r)
          /\ \A v \in AttemptsOf(r) : status[v] \in Settled \cup {NoRow}
      BY <1>5, <2>1, CreateIsPending
    <2>3. AttemptsMade(r)' # {} /\ ~Filed(r)'
      BY <1>t, <1>1, <2>2 DEF AttemptsMade, AttemptsOf, Filed
    <2>4. ~Live(r)'
      <3>1. (Settled \cup {NoRow}) \cap Open = {}
        BY DEF Settled, Open, Received, NoRow
      <3> QED BY <1>t, <1>1, <2>2, <3>1 DEF Live, AttemptsOf, RowsWith
    <2>5. RangeState(r)' = "abandoned"
      BY <2>3, <2>4, StateFormNext
    <2>6. \A q \in Ranges \ {r} : RangeState(q)' = RangeState(q)
      BY <1>3, <2>1 DEF Creating
    <2>7. Ledger!Move({r}, "abandoned")
      BY <2>5, <2>6, Moves
    <2>8. r \in Ledger!In("pending")
      BY <2>2 DEF Ledger!In
    <2>9. (pc = "finished")' = (pc = "finished")
      BY <1>1, <1>5
    <2>10. Ledger!Interrupt
      BY <1>1, <1>2, <2>7, <2>8, <2>9, SameTries DEF Ledger!Interrupt
    <2> QED BY <2>10 DEF Simulated, Ledger!Next
  <1> QED BY <1>4, <1>5

-------------------------------------------------------------------------------
(* Every step, and the specification.                                       *)

(* The steps of the main thread that settle no row and end no program.      *)
LEMMA MainQuiet ==
  ASSUME LedgerInv, TypeInv',
         \/ WaitForAvailable \/ TakeResult \/ NoResult
         \/ ResultRaises \/ TooManyTimedOut \/ SkipTimeoutCheck
         \/ \E old \in SUBSET RowsWith(status, {"ASSIGNED"}) : QueryTimedOut(old)
  PROVE  Simulated
  <1>1. /\ status \in Table /\ status' = status
        /\ UNCHANGED <<output_files, rels_found, crashes>>
        /\ rels_found' \in Nat /\ rels_wanted' \in Nat
    BY DEF LedgerInv, TypeInv, TypeOK, Table, dict, ghost, WaitForAvailable, TakeResult,
      NoResult, ResultRaises, TooManyTimedOut, SkipTimeoutCheck, QueryTimedOut, Dies
  <1>2. pc \notin {"create", "finished"}
    BY DEF WaitForAvailable, TakeResult, NoResult, ResultRaises, TooManyTimedOut,
      SkipTimeoutCheck, QueryTimedOut
  <1>3. pc' \notin {"create", "finished"}
    <2>1. CASE WaitForAvailable \/ TakeResult \/ NoResult
      BY <2>1 DEF WaitForAvailable, TakeResult, NoResult
    <2>2. CASE ResultRaises \/ TooManyTimedOut
      BY <2>2 DEF ResultRaises, TooManyTimedOut, Dies
    <2>3. CASE \/ SkipTimeoutCheck
               \/ \E old \in SUBSET RowsWith(status, {"ASSIGNED"}) : QueryTimedOut(old)
      <3>1. EndOfWait
        BY <2>3 DEF SkipTimeoutCheck, QueryTimedOut
      <3> QED BY <1>1, <3>1, EndOfWaitType DEF Between
    <2> QED BY <2>1, <2>2, <2>3
  <1> QED BY <1>1, <1>2, <1>3, Quiet

(* Going on after filtering or after an interruption, and what the user     *)
(* does to the table.                                                       *)
LEMMA UserQuiet ==
  ASSUME LedgerInv, TypeInv', RequestMoreRelations \/ Restart \/ RestartRaises \/ Expire
  PROVE  Simulated
  <1>1. /\ status \in Table /\ status' \in Table
        /\ UNCHANGED <<output_files, rels_found, crashes>>
    BY DEF LedgerInv, TypeInv, TypeOK, Table, dict, ghost, RequestMoreRelations,
      Restart, RestartRaises, Expire, Dies
  <1>2. CASE RequestMoreRelations
    <2>1. status' = status /\ pc = "done" /\ pc' \in Between
      BY <1>2, LoopTypes DEF RequestMoreRelations, LedgerInv, TypeInv, TypeOK
    <2> QED BY <1>1, <2>1, Quiet DEF Between
  <1>3. CASE Restart
    <2>1. status' = status /\ pc \in {"down", "dead", "short"} /\ pc' \in Between
      BY <1>3, LoopTypes, CSTAssumption
      DEF Restart, Up, LedgerInv, TypeInv, TypeOK, CSTAssumption
    <2> QED BY <1>1, <2>1, Quiet DEF Between
  <1>4. CASE RestartRaises
    <2>1. status' = status /\ pc \in {"down", "dead", "short"} /\ pc' = "dead"
      BY <1>4 DEF RestartRaises, Up, Dies
    <2> QED BY <1>1, <2>1, Quiet
  <1>5. CASE Expire
    <2>1. PICK w \in WUs : status[w] = "ASSIGNED" /\ status' = SetStatus(status, {w}, "NEED_RESUBMIT")
      BY <1>1, <1>5 DEF Expire, RowsWith, Table
    <2>2. \A v \in WUs : status'[v] = status[v] \/ (status[v] \in Open /\ status'[v] \in Open)
      BY <1>1, <2>1, SetStatusRows DEF WuStatus, Open
    <2>3. UNCHANGED <<pc, cur>>
      BY <1>5 DEF Expire, main
    <2> QED BY <1>1, <2>2, <2>3, Quiet
  <1> QED BY <1>2, <1>3, <1>4, <1>5

(* No request and no client settles a row.                                  *)
LEMMA OtherQuiet ==
  ASSUME LedgerInv, TypeInv', OtherStep
  PROVE  Simulated
  <1>1. /\ status \in Table /\ status' \in Table
        /\ UNCHANGED <<output_files, rels_found, crashes, pc, cur>>
    BY DEF LedgerInv, TypeInv, TypeOK, Table, dict, main, ghost, OtherStep,
      send_WU, Execute, do_upload, DropStale
  <1> DEFINE Same == \A v \in WUs :
               status'[v] = status[v] \/ (status[v] \in Open /\ status'[v] \in Open)
  <1>2. ASSUME NEW c \in Clients, send_WU(c) PROVE Same
    <2>1. PICK w \in WUs : status[w] = "AVAILABLE" /\ status' = SetStatus(status, {w}, "ASSIGNED")
      BY <1>2 DEF send_WU, CanAssign, Assign
    <2> QED BY <1>1, <2>1, SetStatusRows DEF WuStatus, Open
  <1>3. ASSUME NEW c \in Clients, Execute(c) PROVE Same
    BY <1>3 DEF Execute
  <1>4. ASSUME NEW u \in uploads, do_upload(u) PROVE Same
    <2>1. u.wu \in WUs
      BY DEF LedgerInv, TypeInv, TypeOK, Uploads
    <2>2. CASE status' = status
      BY <2>2
    <2>3. CASE status' # status
      <3>1. PICK s \in Received : status[u.wu] = "ASSIGNED" /\ status' = SetStatus(status, {u.wu}, s)
        BY <1>4, <2>3 DEF do_upload, CanResult, Result, Received
      <3> QED BY <1>1, <2>1, <3>1, SetStatusRows DEF WuStatus, Open, Received
    <2> QED BY <2>2, <2>3
  <1>5. ASSUME NEW u \in uploads, DropStale(u) PROVE Same
    BY <1>5 DEF DropStale
  <1>6. Same
    BY <1>2, <1>3, <1>4, <1>5 DEF OtherStep
  <1> QED BY <1>1, <1>6, Quiet

(* Each transaction is one action of the ledger, or none.                   *)
LEMMA StepSimulates == LedgerInv /\ [Next]_vars => Simulated
  <1> SUFFICES ASSUME LedgerInv, [Next]_vars PROVE Simulated
    OBVIOUS
  <1>t. TypeInv'
    BY LedgerInvStep DEF LedgerInv
  <1>1. CASE MainStep
    BY <1>1, <1>t, SubmitSimulates, GoodResultSimulates, VerifySimulates,
      ErrorResultSimulates, CreateRowSimulates, UnhandledSimulates,
      TimedOutSimulates, MainQuiet DEF MainStep
  <1>2. CASE UserStep
    BY <1>2, <1>t, EnoughSimulates, InterruptSimulates, UserQuiet DEF UserStep
  <1>3. CASE OtherStep
    BY <1>3, <1>t, OtherQuiet
  <1>4. CASE UNCHANGED vars
    <2>1. status \in Table /\ status' = status /\ UNCHANGED <<output_files, rels_found, crashes, pc, cur>>
      BY <1>4 DEF vars, dict, main, ghost, LedgerInv, TypeInv, TypeOK, Table
    <2> QED BY <2>1, Quiet
  <1> QED BY <1>1, <1>2, <1>3, <1>4 DEF Next, Terminated

(* At the start no range has been taken up.                                 *)
LEMMA InitSimulates == Init => Ledger!Init
  <1> SUFFICES ASSUME Init PROVE Ledger!Init
    OBVIOUS
  <1>1. \A r \in Ranges : AttemptsMade(r) = {}
    BY DEF Init, AttemptsMade, AttemptsOf
  <1>2. \A r \in Ranges : RangeState(r) = "todo"
    BY <1>1, StateForm
  <1>3. \A r \in Ranges : Cardinality(AttemptsMade(r)) = 0
    BY <1>1, FS_EmptySet
  <1>4. pc # "finished"
    <2>1. pc \in Between
      BY LoopTypes, CSTAssumption DEF Init, CSTAssumption
    <2> QED BY <2>1 DEF Between
  <1>5. (pc = "finished") = FALSE
    BY <1>4
  <1>6. [r \in Ranges |-> RangeState(r)] = [r \in Ranges |-> "todo"]
    BY <1>2
  <1>7. [r \in Ranges |-> Cardinality(AttemptsMade(r))] = [r \in Ranges |-> 0]
    BY <1>3
  <1>8. rels_found = 0 /\ crashes = 0
    BY DEF Init
  <1> QED BY <1>5, <1>6, <1>7, <1>8 DEF Ledger!Init

(* However uploads, timeouts, retries and restarts interleave with          *)
(* submit_command(), resubmit_one_wu(), updateObserver() and the end of     *)
(* run(), a range is tried one attempt at a time and no more often than     *)
(* maxresubmit and maxwuerror allow, its relations are counted once, and it *)
(* is given up only for one of the reasons the ledger admits.               *)
THEOREM LedgerKept == Spec => LedgerSpec
  <1>1. Spec => []LedgerInv
    BY LedgerInvInit, LedgerInvStep, PTL DEF Spec
  <1>2. LedgerInv /\ [Next]_vars => [Ledger!Next]_(Ledger!ledger)
    BY StepSimulates DEF Simulated
  <1> QED BY InitSimulates, <1>1, <1>2, PTL DEF Spec, LedgerSpec, Ledger!Spec
================================================================================
