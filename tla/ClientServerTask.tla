--------------------------- MODULE ClientServerTask ---------------------------
(***************************************************************************)
(* The distribution of sieving workunits: the main thread of cado-nfs.py   *)
(* (SievingTask, a ClientServerTask, of scripts/cadofactor/cadotask.py),   *)
(* the threads of its HTTP server (wuserver.py, upload.py), the workunit   *)
(* database all of them share (wudb.py), and the clients                   *)
(* (cado-nfs-client.py).                                                   *)
(*                                                                         *)
(* One action is one database transaction of one actor.  Uncommitted       *)
(* statements are invisible to the other connections (BEGIN EXCLUSIVE) and *)
(* vanish in a crash, so nothing finer can be observed; where the code     *)
(* commits in the middle of an operation, the operation is two actions.    *)
(***************************************************************************)
EXTENDS Integers, FiniteSets, WuAccess

CONSTANTS
  Clients,      \* client ids
  NRanges,      \* number of ranges of length qrange between qmin and qmax
  RelsWanted,   \* parameter rels_wanted
  MaxWanted,    \* bound: rels_wanted never grows beyond it
  MaxWu,        \* parameter maxwu
  MaxResubmit,  \* parameter maxresubmit
  MaxWuError,   \* parameter maxwuerror
  MaxTimedOut,  \* parameter maxtimedout
  MaxFailed,    \* parameter maxfailed
  Outcomes,     \* what an execution of a workunit may produce
  Operator,     \* TRUE if somebody may run "wudb.py -assigned -expire"
  MaxCrashes,   \* bound: how often the server process is interrupted
  NoWU, NoClient

AllOutcomes == {"ok", "corrupt", "nofile", "error"}

ASSUME CSTAssumption ==
  /\ NRanges \in Nat /\ RelsWanted \in Nat \ {0} /\ MaxWanted \in Nat
  /\ MaxWu \in Nat /\ MaxResubmit \in Nat /\ MaxWuError \in Nat
  /\ MaxTimedOut \in Nat /\ MaxFailed \in Nat /\ MaxCrashes \in Nat
  /\ Outcomes \subseteq AllOutcomes
  /\ Operator \in BOOLEAN
  /\ NoClient \notin Clients

(* A workunit id is project_task_identifier#attempt. *)
Ranges   == 1 .. NRanges
LastAttempt ==
  IF MaxResubmit > MaxWuError /\ MaxResubmit > 1 THEN MaxResubmit
  ELSE IF MaxWuError > 1 THEN MaxWuError ELSE 1
Attempts == 1 .. LastAttempt
WUs      == Ranges \X Attempts
Next1(w) == <<w[1], w[2] + 1>>

ASSUME NoWUAssumption == NoWU \notin WUs

VARIABLES
  \* The database: table WORKUNITS and FILES ...
  status,          \* status of each row
  assignedclient,  \* client a row was assigned to
  outcome,         \* what the uploaded files of a row contain
  \* ... and the dictionaries of the task, which it mirrors in memory
  wu_submitted, wu_received, wu_timedout, wu_failed,
  rels_found, rels_wanted, qnext,
  start_real_time,   \* TRUE once the start time of this run is recorded
  start_achievement, \* TRUE once the start achievement is recorded
  output_files,      \* rows whose output file is registered
  \* The main thread, and the flag of the HTTP server
  pc, ret, cur, todo, serving,
  \* The clients
  work,            \* the workunit each client is executing
  uploads,         \* results that wait for an acknowledged upload
  \* History, never read by an action
  crashes,
  recounted,       \* times a workunit was counted in wu_received again
  uncounted        \* rows cancelled without being counted in wu_timedout

dict   == <<wu_submitted, wu_received, wu_timedout, wu_failed, rels_found,
            rels_wanted, qnext, start_real_time, start_achievement,
            output_files>>
main   == <<pc, ret, cur, todo, serving>>
client == <<work, uploads>>
ghost  == <<crashes, recounted, uncounted>>
vars   == <<status, assignedclient, outcome, dict, main, client, ghost>>

Uploads == [client : Clients, wu : WUs]

-------------------------------------------------------------------------------
(* What the main loop decides on. *)

get_number_outstanding_wus == wu_submitted - wu_received - wu_timedout
Available == RowsWith(status, {"AVAILABLE"})
Outstanding(sub, rcv, tmo) == sub - rcv - tmo

(* The process that owns the database connections is running. *)
Up == pc \notin {"down", "dead", "short"}

(* run(): where the loops over should_schedule_more_work() and over        *)
(* get_number_outstanding_wus() go next, for given counters.               *)
DrainPc(rels, wanted, out) ==
  IF rels >= wanted THEN "done" ELSE IF out > 0 THEN "wait" ELSE "short"
LoopPc(rels, wanted, q, out) ==
  IF q > NRanges THEN DrainPc(rels, wanted, out)
  ELSE IF rels >= wanted THEN "done" ELSE "submit"
LoopRet(q) == IF q > NRanges THEN "drain" ELSE "submit"

(* wait() returns to the loop that called it, which reads the counters as  *)
(* they are after the step.                                                *)
Return ==
  pc' = IF ret = "submit" THEN "submit"
        ELSE DrainPc(rels_found', rels_wanted',
                     Outstanding(wu_submitted', wu_received', wu_timedout'))

Init ==
  /\ status = [w \in WUs |-> NoRow]
  /\ assignedclient = [w \in WUs |-> NoClient]
  /\ outcome = [w \in WUs |-> "none"]
  /\ wu_submitted = 0 /\ wu_received = 0 /\ wu_timedout = 0 /\ wu_failed = 0
  /\ rels_found = 0 /\ rels_wanted = RelsWanted /\ qnext = 1
  /\ start_real_time = FALSE /\ start_achievement = FALSE
  /\ output_files = {}
  /\ pc = LoopPc(0, RelsWanted, 1, 0) /\ ret = LoopRet(1)
  /\ cur = NoWU /\ todo = {} /\ serving = TRUE
  /\ work = [c \in Clients |-> NoWU] /\ uploads = {}
  /\ crashes = 0 /\ recounted = 0 /\ uncounted = {}
-------------------------------------------------------------------------------
(* The main thread: submitting new ranges. *)

(* submit_command() from run(): row, counter and qnext in one transaction. *)
submit_command ==
  /\ pc = "submit" /\ Cardinality(Available) < MaxWu
  /\ CanCreate(status, <<qnext, 1>>)
  /\ status' = Created(status, <<qnext, 1>>)
  /\ wu_submitted' = wu_submitted + 1
  /\ start_real_time' = TRUE
  /\ qnext' = qnext + 1
  /\ pc' = LoopPc(rels_found, rels_wanted, qnext',
                  Outstanding(wu_submitted', wu_received, wu_timedout))
  /\ ret' = LoopRet(qnext')
  /\ UNCHANGED <<assignedclient, outcome, wu_received, wu_timedout,
                 wu_failed, rels_found, rels_wanted, start_achievement,
                 output_files, cur, todo, serving, client, ghost>>

(* submit_command() calls wait() while maxwu workunits are available. *)
WaitForAvailable ==
  /\ pc = "submit" /\ Cardinality(Available) >= MaxWu
  /\ pc' = "wait"
  /\ UNCHANGED <<status, assignedclient, outcome, dict, ret, cur,
                 todo, serving, client, ghost>>

-------------------------------------------------------------------------------
(* The main thread: wait(), and the results it finds. *)

(* DbListener.send_result(): the record is read, then handed to the task. *)
TakeResult ==
  /\ pc = "wait"
  /\ \E w \in ResultRows(status) : cur' = w
  /\ pc' = "observe"
  /\ UNCHANGED <<status, assignedclient, outcome, dict, ret, todo,
                 serving, client, ghost>>

NoResult ==
  /\ pc = "wait" /\ ResultRows(status) = {}
  /\ pc' = "check"
  /\ UNCHANGED <<status, assignedclient, outcome, dict, ret, cur,
                 todo, serving, client, ghost>>

(* verification() commits early when it prints an ETA for the first time   *)
(* in this run: get_eta() stores start_achievement with __setitem__, which *)
(* commits whatever the connection has pending.                            *)
CommitsInGetEta == rels_found' > 0 /\ ~start_achievement

(* resubmit_one_wu(): ends the transaction that turned the table into tab. *)
(* submit_wu() commits before it creates the row if it is the first of     *)
(* this run to record start_real_time; then the row follows in CreateRow.  *)
EndOfWait ==
  /\ cur' = NoWU
  /\ IF todo' = {} THEN Return ELSE pc' = "timeouts"

resubmit_one_wu_once_too_few(tab, w, limit) ==
  \/ /\ w[2] + 2 > limit
     /\ status' = tab
     /\ UNCHANGED <<wu_submitted, start_real_time>>
     /\ EndOfWait
  \/ /\ w[2] + 2 <= limit
     /\ status' = Created(tab, Next1(w))
     /\ wu_submitted' = wu_submitted + 1
     /\ UNCHANGED start_real_time
     /\ EndOfWait

resubmit_one_wu(tab, w, limit) ==
  \/ /\ w[2] + 1 > limit
     /\ status' = tab
     /\ UNCHANGED <<wu_submitted, start_real_time>>
     /\ EndOfWait
  \/ /\ w[2] + 1 <= limit /\ start_real_time
     /\ CanCreate(tab, Next1(w))
     /\ status' = Created(tab, Next1(w))
     /\ wu_submitted' = wu_submitted + 1
     /\ UNCHANGED start_real_time
     /\ EndOfWait
  \/ /\ w[2] + 1 <= limit /\ ~start_real_time
     /\ status' = tab
     /\ start_real_time' = TRUE
     /\ UNCHANGED wu_submitted
     /\ cur' = w /\ pc' = "create"

CreateRow_uncounted ==
  /\ pc = "create"
  /\ status' = Created(status, Next1(cur))
  /\ UNCHANGED <<assignedclient, outcome, dict, ret, todo, serving, client,
                 ghost>>
  /\ EndOfWait

CreateRow ==
  /\ pc = "create" /\ CanCreate(status, Next1(cur))
  /\ status' = Created(status, Next1(cur))
  /\ wu_submitted' = wu_submitted + 1
  /\ UNCHANGED <<assignedclient, outcome, wu_received, wu_timedout,
                 wu_failed, rels_found, rels_wanted, qnext, start_real_time,
                 start_achievement, output_files, ret, todo, serving, client,
                 ghost>>
  /\ EndOfWait

(* updateObserver() for a result with exit code 0 and one output file: a   *)
(* file that cannot be parsed adds nothing and verifies as not ok.         *)
HandleGoodResult ==
  LET ok == outcome[cur] = "ok"
  IN  /\ pc = "observe" /\ outcome[cur] \in {"ok", "corrupt"}
      /\ get_number_outstanding_wus >= 1
      /\ rels_found' = IF ok THEN rels_found + 1 ELSE rels_found
      /\ output_files' = IF ok THEN output_files \cup {cur} ELSE output_files
      /\ wu_received' = wu_received + 1
      /\ UNCHANGED <<assignedclient, outcome, wu_submitted,
                     wu_timedout, wu_failed, rels_wanted, qnext,
                     start_real_time, ret, todo, serving, client, ghost>>
      /\ \/ /\ CommitsInGetEta
            /\ start_achievement' = TRUE
            /\ pc' = "verify"
            /\ UNCHANGED <<status, cur>>
         \/ /\ ~CommitsInGetEta
            /\ UNCHANGED start_achievement
            /\ status' = Verification(status, cur, ok)
            /\ EndOfWait

Verify_as_not_ok ==
  /\ pc = "verify"
  /\ status' = Verification(status, cur, FALSE)
  /\ UNCHANGED <<assignedclient, outcome, dict, ret, todo, serving,
                 client, ghost>>
  /\ EndOfWait

Verify ==
  /\ pc = "verify" /\ CanVerify(status, cur)
  /\ status' = Verification(status, cur, outcome[cur] = "ok")
  /\ UNCHANGED <<assignedclient, outcome, dict, ret, todo, serving,
                 client, ghost>>
  /\ EndOfWait

(* handle_error_result() *)
HandleErrorResult ==
  /\ pc = "observe" /\ outcome[cur] = "error"
  /\ wu_failed < MaxFailed /\ get_number_outstanding_wus >= 1
  /\ wu_failed' = wu_failed + 1
  /\ wu_received' = wu_received + 1
  /\ UNCHANGED <<assignedclient, outcome, wu_timedout, rels_found,
                 rels_wanted, qnext, output_files, ret, todo, serving, client,
                 ghost>>
  /\ \/ /\ CommitsInGetEta
        /\ start_achievement' = TRUE
        /\ pc' = "everify"
        /\ UNCHANGED <<status, wu_submitted, start_real_time, cur>>
     \/ /\ ~CommitsInGetEta
        /\ UNCHANGED start_achievement
        /\ resubmit_one_wu(Verification(status, cur, FALSE), cur, MaxWuError)

VerifyError ==
  /\ pc = "everify" /\ CanVerify(status, cur)
  /\ UNCHANGED <<assignedclient, outcome, wu_received, wu_timedout,
                 wu_failed, rels_found, rels_wanted, qnext, start_achievement,
                 output_files, ret, todo, serving, client, ghost>>
  /\ resubmit_one_wu(Verification(status, cur, FALSE), cur, MaxWuError)

(* An exception ends the program; what was not committed is gone. *)
Dies ==
  /\ pc' = "dead" /\ cur' = NoWU /\ todo' = {}
  /\ UNCHANGED <<status, assignedclient, outcome, dict, ret, serving,
                 client, ghost>>

(* assert self.get_number_outstanding_wus() >= 1, or maxfailed exceeded *)
ResultRaises ==
  /\ pc = "observe" /\ outcome[cur] # "nofile"
  /\ \/ get_number_outstanding_wus < 1
     \/ outcome[cur] = "error" /\ wu_failed >= MaxFailed
  /\ Dies

(* updateObserver() returns False, so DbListener cancels the row.  Then    *)
(* wait() has seen no result and looks for timed out workunits.            *)
CancelUnhandled ==
  /\ pc = "observe" /\ outcome[cur] = "nofile"
  /\ status' = Cancel(status, {cur})
  /\ uncounted' = uncounted \cup {cur}
  /\ cur' = NoWU /\ pc' = "check"
  /\ UNCHANGED <<assignedclient, outcome, dict, ret, todo, serving,
                 client, crashes, recounted>>

-------------------------------------------------------------------------------
(* The main thread: resubmit_timed_out_wus(). *)

(* The queries; their result is a list in memory.  Which rows were assigned *)
(* more than wutimeout ago is a matter of time: it may be any of them.     *)
QueryTimedOut_expired_only(old) ==
  /\ pc = "check"
  /\ todo' = RowsWith(status, {"NEED_RESUBMIT"})
  /\ UNCHANGED <<status, assignedclient, outcome, dict, ret, serving,
                 client, ghost>>
  /\ EndOfWait

QueryTimedOut(old) ==
  /\ pc = "check"
  /\ todo' = old \cup RowsWith(status, {"NEED_RESUBMIT"})
  /\ UNCHANGED <<status, assignedclient, outcome, dict, ret, serving,
                 client, ghost>>
  /\ EndOfWait

(* Not yet check_every seconds since the last check. *)
SkipTimeoutCheck ==
  /\ pc = "check"
  /\ UNCHANGED <<status, assignedclient, outcome, dict, ret, todo,
                 serving, client, ghost>>
  /\ EndOfWait

(* cancel_wu() and resubmit_one_wu() for one entry of the list, whatever   *)
(* has happened to the row since the query.                                *)
CancelTimedOut ==
  /\ pc = "timeouts" /\ wu_timedout < MaxTimedOut
  /\ \E w \in todo :
       /\ todo' = todo \ {w}
       /\ wu_timedout' = wu_timedout + 1
       /\ UNCHANGED <<assignedclient, outcome, wu_received, wu_failed,
                      rels_found, rels_wanted, qnext, start_achievement,
                      output_files, ret, serving, client, ghost>>
       /\ resubmit_one_wu(Cancel(status, {w}), w, MaxResubmit)

TooManyTimedOut ==
  /\ pc = "timeouts" /\ wu_timedout >= MaxTimedOut
  /\ Dies

-------------------------------------------------------------------------------
(* The main thread: after run(), and across runs of the program. *)

(* request_more_relations(): an unsuccessful filtering try. *)
RequestMoreRelations ==
  /\ pc = "done"
  /\ \E target \in (rels_wanted + 1) .. MaxWanted :
       /\ rels_wanted' = target
       /\ pc' = LoopPc(rels_found, target, qnext, get_number_outstanding_wus)
       /\ ret' = LoopRet(qnext)
  /\ UNCHANGED <<status, assignedclient, outcome, wu_submitted,
                 wu_received, wu_timedout, wu_failed, rels_found, qnext,
                 start_real_time, start_achievement, output_files, cur, todo,
                 serving, client, ghost>>

(* HAVE_ENOUGH_RELATIONS: stop_serving_wus(), cancel_available_wus(). *)
HaveEnoughRelations ==
  /\ pc = "done"
  /\ serving' = FALSE
  /\ status' = Cancel(status, Available)
  /\ uncounted' = uncounted \cup Available
  /\ pc' = "finished"
  /\ UNCHANGED <<assignedclient, outcome, dict, ret, cur, todo, client,
                 crashes, recounted>>

(* Ctrl-C "or whatever unexpected event". *)
Interrupt ==
  /\ Up /\ crashes < MaxCrashes
  /\ crashes' = crashes + 1
  /\ recounted' = IF pc \in {"verify", "everify"} THEN recounted + 1 ELSE recounted
  /\ pc' = "down" /\ cur' = NoWU /\ todo' = {}
  /\ UNCHANGED <<status, assignedclient, outcome, dict, ret, serving,
                 client, uncounted>>

(* The constructors of the tasks and the server, then run(). *)
Restart_without_guess ==
  /\ ~Up /\ get_number_outstanding_wus >= 0
  /\ start_real_time' = FALSE /\ start_achievement' = FALSE
  /\ rels_wanted' = 0
  /\ serving' = TRUE
  /\ pc' = LoopPc(rels_found, 0, qnext, get_number_outstanding_wus)
  /\ ret' = LoopRet(qnext)
  /\ UNCHANGED <<status, assignedclient, outcome, wu_submitted,
                 wu_received, wu_timedout, wu_failed, rels_found, qnext,
                 output_files, cur, todo, client, ghost>>

Restart ==
  /\ ~Up /\ get_number_outstanding_wus >= 0
  /\ start_real_time' = FALSE /\ start_achievement' = FALSE
  /\ rels_wanted' = RelsWanted
  /\ serving' = TRUE
  /\ pc' = LoopPc(rels_found, RelsWanted, qnext, get_number_outstanding_wus)
  /\ ret' = LoopRet(qnext)
  /\ UNCHANGED <<status, assignedclient, outcome, wu_submitted,
                 wu_received, wu_timedout, wu_failed, rels_found, qnext,
                 output_files, cur, todo, client, ghost>>

(* assert self.get_number_outstanding_wus() >= 0 *)
RestartRaises == ~Up /\ get_number_outstanding_wus < 0 /\ Dies

-------------------------------------------------------------------------------
(* The server threads, the clients and the operator. *)

(* send_WU(): the row is committed as ASSIGNED before the answer is sent,  *)
(* and the answer may be lost.                                             *)
send_WU(c) ==
  /\ Up /\ serving /\ work[c] = NoWU
  /\ \E w \in WUs, delivered \in BOOLEAN :
       /\ CanAssign(status, w)
       /\ status' = Assign(status, w)
       /\ assignedclient' = [assignedclient EXCEPT ![w] = c]
       /\ work' = IF delivered THEN [work EXCEPT ![c] = w] ELSE work
  /\ UNCHANGED <<outcome, dict, main, uploads, ghost>>

(* A client executes its workunit and queues the result. *)
Execute(c) ==
  /\ work[c] # NoWU
  /\ uploads' = uploads \cup {[client |-> c, wu |-> work[c]]}
  /\ work' = [work EXCEPT ![c] = NoWU]
  /\ UNCHANGED <<status, assignedclient, outcome, dict, main, ghost>>

(* do_upload(): answered with status 200 whether or not the row was        *)
(* ASSIGNED.  A client that does not see the answer uploads again.  What   *)
(* the result is, is seen when it is accepted for the first time.          *)
do_upload(u) ==
  /\ Up
  /\ \/ /\ CanResult(status, u.wu)
        /\ \E out \in Outcomes :
             /\ status' = Result(status, u.wu, out = "error")
             /\ outcome' = [outcome EXCEPT ![u.wu] = out]
     \/ /\ ~CanResult(status, u.wu)
        /\ UNCHANGED <<status, outcome>>
  /\ \E answered \in BOOLEAN :
       uploads' = IF answered THEN uploads \ {u} ELSE uploads
  /\ UNCHANGED <<assignedclient, dict, main, work, ghost>>

(* process_uploads(): the client drops a result past its deadline. *)
DropStale(u) ==
  /\ uploads' = uploads \ {u}
  /\ UNCHANGED <<status, assignedclient, outcome, dict, main, work, ghost>>

(* wudb.py -assigned -expire *)
Expire_any_row ==
  /\ Operator
  /\ \E w \in RowsWith(status, Open) :
       status' = SetStatus(status, {w}, "NEED_RESUBMIT")
  /\ UNCHANGED <<assignedclient, outcome, dict, main, client, ghost>>

Expire ==
  /\ Operator
  /\ \E w \in RowsWith(status, {"ASSIGNED"}) :
       status' = SetStatus(status, {w}, "NEED_RESUBMIT")
  /\ UNCHANGED <<assignedclient, outcome, dict, main, client, ghost>>

-------------------------------------------------------------------------------
MainStep ==
  \/ submit_command \/ WaitForAvailable \/ TakeResult \/ NoResult
  \/ HandleGoodResult \/ Verify \/ HandleErrorResult \/ VerifyError
  \/ CreateRow \/ ResultRaises \/ CancelUnhandled
  \/ \E old \in SUBSET RowsWith(status, {"ASSIGNED"}) : QueryTimedOut(old)
  \/ SkipTimeoutCheck \/ CancelTimedOut \/ TooManyTimedOut

UserStep ==
  \/ RequestMoreRelations \/ HaveEnoughRelations \/ Interrupt \/ Restart
  \/ RestartRaises \/ Expire

OtherStep ==
  \/ \E c \in Clients : send_WU(c) \/ Execute(c)
  \/ \E u \in uploads : do_upload(u) \/ DropStale(u)

(* Sieving is over and every result was acknowledged. *)
Terminated == pc = "finished" /\ UNCHANGED vars

Next == MainStep \/ UserStep \/ OtherStep \/ Terminated

Spec == Init /\ [][Next]_vars
-------------------------------------------------------------------------------
(* Types. *)

MaybeWU == WUs \cup {NoWU}
Pcs     == {"submit", "wait", "check", "observe", "verify", "everify", "create",
            "timeouts", "done", "short", "dead", "down", "finished"}

(* Every variable has the type its use in the code gives it. *)
TypeOK ==
  /\ status \in [WUs -> WuStatus \cup {NoRow}]
  /\ assignedclient \in [WUs -> Clients \cup {NoClient}]
  /\ outcome \in [WUs -> AllOutcomes \cup {"none"}]
  /\ wu_submitted \in Nat /\ wu_received \in Nat
  /\ wu_timedout \in Nat /\ wu_failed \in Nat
  /\ rels_found \in Nat /\ rels_wanted \in Nat \ {0}
  /\ qnext \in 1 .. (NRanges + 1)
  /\ start_real_time \in BOOLEAN /\ start_achievement \in BOOLEAN
  /\ output_files \subseteq WUs
  /\ pc \in Pcs /\ ret \in {"submit", "drain"}
  /\ cur \in MaybeWU /\ todo \subseteq WUs /\ serving \in BOOLEAN
  /\ work \in [Clients -> MaybeWU] /\ uploads \subseteq Uploads
  /\ crashes \in Nat /\ recounted \in Nat /\ uncounted \subseteq WUs

-------------------------------------------------------------------------------
(* Safety. *)

OpenRows == RowsWith(status, Open)
Settling == IF pc \in {"verify", "everify"} THEN 1 ELSE 0

(* get_number_outstanding_wus() is what the waiting loops of every client/ *)
(* server task trust.  It is the number of rows the task still has to hear *)
(* of, except for exactly two things: rows cancelled behind the back of    *)
(* cancel_wu() stay outstanding for ever, and a workunit whose             *)
(* verification was interrupted after get_eta() committed is counted as    *)
(* received twice.                                                         *)
OutstandingExact ==
  get_number_outstanding_wus + recounted + Settling
    = Cardinality(OpenRows \cup uncounted)

(* resubmit_one_wu() gives a range a new attempt only when the previous    *)
(* one is settled: however results, timeouts, retries of uploads and       *)
(* restarts interleave, a range never has two attempts in progress, and no *)
(* second attempt is made of one whose result was accepted.                *)
OneLiveAttempt ==
  \A w \in WUs :
    w[2] > 1 /\ status[w] # NoRow
      => status[<<w[1], w[2] - 1>>] \in {"CANCELLED", "VERIFIED_ERROR"}

(* Every range below qnext has been made a workunit and none beyond it:    *)
(* the transaction of submit_command() survives a crash as a whole.        *)
RangesSubmitted ==
  \A r \in Ranges : (status[<<r, 1>>] # NoRow) <=> (r < qnext)

(* rels_found is the number of relations in the files registered, and the  *)
(* files registered are those of the workunits verified as ok, except for  *)
(* the one being verified; each interruption of a verification may count   *)
(* one file again.                                                         *)
RelationsMatchFiles ==
  /\ rels_found - recounted <= Cardinality(output_files)
  /\ Cardinality(output_files) <= rels_found
  /\ RowsWith(status, {"VERIFIED_OK"}) \subseteq output_files
  /\ \A w \in output_files :
       status[w] # "VERIFIED_OK" =>
         status[w] = "RECEIVED_OK" /\ (w = cur \/ recounted > 0)

(* assign() hands a row to one client: nobody executes or uploads a        *)
(* workunit that was assigned to somebody else.                            *)
HeldByAssignee ==
  /\ \A c \in Clients : work[c] # NoWU => assignedclient[work[c]] = c
  /\ \A u \in uploads : assignedclient[u.wu] = u.client

(* What a client sent is what the task finds: a row is RECEIVED_ERROR      *)
(* exactly when the upload reported an error, so handle_error_result()     *)
(* finds the status it asserts.                                            *)
ResultMatchesUpload ==
  pc \in {"observe", "verify", "everify"} =>
    status[cur] = IF outcome[cur] = "error" THEN "RECEIVED_ERROR" ELSE "RECEIVED_OK"

(* The inductive strengthening of the above: what the main thread holds in *)
(* memory agrees with the table although others write to it in between.    *)
MainHolds ==
  /\ pc \in {"observe", "verify", "everify", "create"} <=> cur # NoWU
  /\ pc \notin {"timeouts", "create"} => todo = {}
  /\ pc \in {"observe", "verify", "everify"} => cur \in RowsWith(status, Received)
  /\ pc = "create" =>
       /\ status[cur] \in {"CANCELLED", "VERIFIED_ERROR"}
       /\ cur[2] < LastAttempt
       /\ status[Next1(cur)] = NoRow
       /\ cur \notin todo
  /\ todo \subseteq OpenRows
  /\ pc = "submit" \/ ret = "submit" => qnext <= NRanges

UncountedCancelled == uncounted \subseteq RowsWith(status, {"CANCELLED"})

(* The inductive invariant the proofs of ClientServerTaskProofs rest on. *)
IInv ==
  /\ TypeOK /\ MainHolds /\ UncountedCancelled
  /\ RangesSubmitted /\ OneLiveAttempt /\ OutstandingExact

-------------------------------------------------------------------------------
(* What a step may never do. *)

(* A row is created once, a final status is final, and a row never becomes *)
(* AVAILABLE again: no late, duplicated or repeated upload, no retry and   *)
(* no restart brings a workunit back to life.                              *)
StatusIsFinal ==
  [][\A w \in WUs :
       /\ status[w] \in Closed => status'[w] = status[w]
       /\ status'[w] = "AVAILABLE" => status[w] \in {NoRow, "AVAILABLE"}
       /\ status[w] # NoRow => status'[w] # NoRow]_status

-------------------------------------------------------------------------------
(* The abstract specification. *)

AttemptsOf(r)   == {w \in WUs : w[1] = r}
AttemptsMade(r) == {w \in AttemptsOf(r) : status[w] # NoRow}
RangeState(r) ==
  IF AttemptsMade(r) = {} THEN "todo"
  ELSE IF AttemptsOf(r) \cap output_files # {} THEN "done"
  ELSE IF \/ AttemptsOf(r) \cap RowsWith(status, Open) # {}
          \/ pc = "create" /\ cur[1] = r
       THEN "pending"
  ELSE "abandoned"

Ledger == INSTANCE RangeLedger WITH
  FewestTries   <- IF MaxResubmit < MaxWuError THEN MaxResubmit ELSE MaxWuError,
  MostTries     <- LastAttempt,
  Unusable      <- Outcomes \cap {"corrupt", "nofile"} # {},
  state         <- [r \in Ranges |-> RangeState(r)],
  tries         <- [r \in Ranges |-> Cardinality(AttemptsMade(r))],
  found         <- rels_found,
  closed        <- pc = "finished",
  interruptions <- crashes

(* However uploads, timeouts, retries and restarts interleave, a range is  *)
(* tried one attempt at a time, its relations are counted once, and it is  *)
(* abandoned only for one of the reasons the ledger admits.                *)
LedgerSpec == Ledger!Spec

-------------------------------------------------------------------------------
(* Liveness. *)

(* The main thread runs, time passes, the timeout check is made from time  *)
(* to time, and the clients keep asking for work and executing it.  Nobody *)
(* promises that an answer or an upload ever arrives.                      *)
Fairness ==
  /\ WF_vars(MainStep)
  /\ \A w \in WUs : SF_vars(\E old \in SUBSET RowsWith(status, {"ASSIGNED"}) :
                           w \in old /\ QueryTimedOut(old))
  /\ \A c \in Clients : WF_vars(send_WU(c)) /\ WF_vars(Execute(c))

FairSpec == Spec /\ Fairness

(* run() comes to an end whatever the network does with answers and        *)
(* uploads: timed out workunits are resubmitted at most maxresubmit times. *)
RunEnds == <>(pc \in {"done", "short", "dead", "down", "finished"})

-------------------------------------------------------------------------------
(* Statements of the code that its behaviour does not keep. *)

(* verification(): assert self.get_number_outstanding_wus() >= 1           *)
VerificationAssertion ==
  pc = "observe" /\ outcome[cur] # "nofile" => get_number_outstanding_wus >= 1

(* resubmit_timed_out_wus(): "Check for any timed out workunits and        *)
(* resubmit them": a workunit whose result has arrived is not timed out.   *)
OnlyTimedOutCancelled ==
  [][\A w \in WUs :
       pc = "timeouts" /\ status'[w] = "CANCELLED" =>
         status[w] \in {"ASSIGNED", "NEED_RESUBMIT", "CANCELLED"}]_vars

(* run(): while it waits it tells the user that "There are still %d        *)
(* outstanding WUs": some row is open.                                     *)
WaitsForSomething ==
  pc = "wait" /\ ret = "drain" => OpenRows # {}
===============================================================================
