---------------------------- MODULE ParallelClient ----------------------------
(***************************************************************************)
(* cado-nfs-client.py --parallel: one process with a thread for each       *)
(* client (ThreadedWorkunitClient), a thread that uploads the results of   *)
(* all of them (ResultUploaderThread, running a ResultUploader), and the   *)
(* main thread, which waits for the clients and handles signals.           *)
(*                                                                         *)
(* The threads share two deques, an Event and the files of the working     *)
(* directories.  One action is what a thread does between two accesses to  *)
(* them whose order another thread can notice.                             *)
(***************************************************************************)
EXTENDS Integers, Sequences, FiniteSets

CONSTANTS
  Clients,        \* the client threads
  Ranges,         \* the work the server has, each range with one result file
  MaxAttempt,     \* attempts the server makes for a range
  Deadlines,      \* TRUE if the server sends a DEADLINE with its workunits
  KeepOldResult,  \* option --keepoldresult
  ReadMayFail,    \* TRUE if an answer to an upload may break off
  FinalRetries,   \* uploads of what is left before the uploader gives up: 10
  MaxSignals,     \* bound: how often the user sends a signal
  Sigterm,        \* TRUE if the signal may be SIGTERM
  NoWU, NoClient

ASSUME PCAssumption ==
  /\ MaxAttempt \in Nat \ {0} /\ FinalRetries \in Nat \ {0}
  /\ MaxSignals \in Nat
  /\ {Deadlines, KeepOldResult, ReadMayFail, Sigterm} \subseteq BOOLEAN
  /\ NoClient \notin Clients

WUs == Ranges \X (1 .. MaxAttempt)

ASSUME NoWUNotWU == NoWU \notin WUs

VARIABLES
  \* The server, as far as the client notices it
  holder,     \* the client thread a workunit was sent to
  late,       \* workunits that are past their time
  \* The client threads
  tpc,        \* what each is doing
  workunit,   \* the workunit each works on
  file,       \* per client: the workunit whose command wrote the result file
  answer,     \* what prepare_answer() put into the answer to a workunit
  should_quit, terminate_immediately,
  \* The uploader
  upload_backlog, to_retry, queue_event,
  upc, p,     \* what its thread is doing, and the result in its hands
  last_retry_count, uploader_quit,
  delivered,  \* results the server has acknowledged
  expired,    \* results dropped past their deadline
  \* The main thread
  mpc,        \* what it is doing
  untreated, target, \* the clients it has not told to terminate, and one it is
  signals

server   == <<holder, late>>
clients  == <<tpc, workunit, file, answer>>
flags    == <<should_quit, terminate_immediately>>
queues   == <<upload_backlog, to_retry, queue_event>>
uploader == <<upc, p, last_retry_count, delivered, expired>>
main     == <<mpc, untreated, target, signals>>

(* What the steps of each kind of thread mostly leave alone. *)
notClients  == <<server, flags, queues, uploader, uploader_quit, main>>
notUploader == <<server, flags, uploader_quit, main>>
notMain     == <<server, clients, queues, uploader>>
progress    == <<tpc, workunit, answer>>
uploads     == <<p, delivered, expired>>

vars     == <<server, clients, flags, queues, uploader, uploader_quit, main>>

InSeq(q) == {q[i] : i \in 1 .. Len(q)}

(* A client thread that has a child process: _current_process is not None. *)
HasProcess(c) == tpc[c] \in {"started", "writing"}

Init ==
  /\ holder = [w \in WUs |-> NoClient] /\ late = {}
  /\ tpc = [c \in Clients |-> "get"]
  /\ workunit = [c \in Clients |-> NoWU]
  /\ file = [c \in Clients |-> [r \in Ranges |-> NoWU]]
  /\ answer = [w \in WUs |-> "none"]
  /\ should_quit = FALSE
  /\ terminate_immediately = [c \in Clients |-> FALSE]
  /\ upload_backlog = <<>> /\ to_retry = <<>> /\ queue_event = FALSE
  /\ upc = "top" /\ p = NoWU /\ last_retry_count = 0 /\ uploader_quit = FALSE
  /\ delivered = {} /\ expired = {}
  /\ mpc = "join" /\ untreated = Clients /\ target = NoClient /\ signals = 0
-------------------------------------------------------------------------------
(* The server. *)

(* A first attempt, or a new one of a range whose last one is timed out.   *)
Offered(w) ==
  /\ holder[w] = NoClient
  /\ w[2] > 1 => <<w[1], w[2] - 1>> \in late

(* A result the server has is not timed out any more.  (Without a deadline *)
(* or a further attempt nothing in the client would tell the difference.)  *)
TimeOut(w) ==
  /\ Deadlines \/ w[2] < MaxAttempt
  /\ holder[w] # NoClient /\ w \notin late \cup delivered
  /\ late' = late \cup {w}
  /\ UNCHANGED <<clients, flags, queues, uploader, main, holder, uploader_quit>>

-------------------------------------------------------------------------------
(* ThreadedWorkunitClient: run() and process(). *)

At(c, from, to) == tpc[c] = from /\ tpc' = [tpc EXCEPT ![c] = to]

(* get_wu_full(): under the lock of the InputDownloader. *)
get_wu_full(c) ==
  /\ At(c, "get", "run")
  /\ \E w \in WUs :
       /\ Offered(w)
       /\ workunit' = [workunit EXCEPT ![c] = w]
       /\ holder' = [holder EXCEPT ![w] = c]
  /\ UNCHANGED <<flags, queues, uploader, main, late, file, answer, uploader_quit>>

(* The cancel_hook sees should_quit, and get_wu_full() returns None. *)
CancelGet(c) ==
  /\ At(c, "get", "exited") /\ should_quit
  /\ UNCHANGED <<notClients, workunit, file, answer>>

(* A workunit with TERMINATE, status 410, or no server that answers. *)
ServerGone(c) ==
  /\ At(c, "get", "exited")
  /\ UNCHANGED <<notClients, workunit, file, answer>>

SetFile(c, r, w) == file' = [file EXCEPT ![c][r] = w]

(* run_commands(): a result file that is there already is used as it is,   *)
(* or removed.                                                             *)
run_commands(c) ==
  LET r   == workunit[c][1]
      old == file[c][r] # NoWU /\ KeepOldResult
  IN  /\ At(c, "run", IF old THEN "answer" ELSE "started")
      /\ IF old THEN UNCHANGED file ELSE SetFile(c, r, NoWU)
      /\ UNCHANGED <<notClients, workunit, answer>>

(* The command opens its output file. *)
OpenResult(c) ==
  /\ At(c, "started", "writing")
  /\ SetFile(c, workunit[c][1], workunit[c])
  /\ UNCHANGED <<notClients, workunit, answer>>

(* run_command() returns, or raises KeyboardInterrupt, which ends the      *)
(* thread.  Only a command that fails may end without having written.      *)
CommandEnds(c) ==
  /\ HasProcess(c)
  /\ \E failed \in BOOLEAN :
       /\ tpc[c] = "started" => failed
       /\ tpc' = [tpc EXCEPT ![c] =
                    IF terminate_immediately[c] THEN "exited"
                    ELSE IF failed THEN "failed" ELSE "answer"]
  /\ UNCHANGED <<notClients, workunit, file, answer>>

(* prepare_answer(): a result file that cannot be read is left out. *)
prepare_answer(c) ==
  LET w == workunit[c]
  IN  /\ tpc[c] \in {"answer", "failed"}
      /\ tpc' = [tpc EXCEPT ![c] = "schedule"]
      /\ answer' = [answer EXCEPT ![w] =
                      IF tpc[c] = "failed" THEN "error"
                      ELSE IF file[c][w[1]] = NoWU THEN "nofile" ELSE "result"]
      /\ UNCHANGED <<notClients, workunit, file>>

(* schedule_upload(): append, ... *)
schedule_upload(c) ==
  /\ At(c, "schedule", "notify")
  /\ upload_backlog' = Append(upload_backlog, workunit[c])
  /\ UNCHANGED <<notUploader, uploader, workunit, file, answer, to_retry,
                 queue_event>>

(* ... then set the event; back to the loop of run(). *)
NotifyUploader(c) ==
  /\ At(c, "notify", IF should_quit THEN "exited" ELSE "get")
  /\ queue_event' = TRUE
  /\ workunit' = [workunit EXCEPT ![c] = NoWU]
  /\ UNCHANGED <<notUploader, uploader, file, answer, upload_backlog, to_retry>>

-------------------------------------------------------------------------------
(* ResultUploaderThread: run(), and process_uploads() of ResultUploader.   *)
(* The last rounds run the same process_uploads(): last_retry_count > 0.   *)

(* m is math.ceil(n ** 0.6): the least m with m^5 >= n^3. *)
RetryCount(m, n) == m ^ 5 >= n ^ 3 /\ \A k \in 0 .. m - 1 : k ^ 5 < n ^ 3

Uploader(from, to) == upc = from /\ upc' = to

(* The top of the loop: some of the failed uploads are queued again. *)
Requeue_newest ==
  LET n == Len(to_retry)
  IN  /\ ~uploader_quit /\ Uploader("top", "pop")
      /\ \E k \in 0 .. n :
           /\ RetryCount(k, n)
           /\ upload_backlog' = upload_backlog \o SubSeq(to_retry, n - k + 1, n)
           /\ to_retry' = SubSeq(to_retry, 1, n - k)
      /\ UNCHANGED <<notUploader, clients, uploads, queue_event, last_retry_count>>

Requeue ==
  LET n == Len(to_retry)
  IN  /\ ~uploader_quit /\ Uploader("top", "pop")
      /\ \E k \in 0 .. n :
           /\ RetryCount(k, n)
           /\ upload_backlog' = upload_backlog \o SubSeq(to_retry, 1, k)
           /\ to_retry' = SubSeq(to_retry, k + 1, n)
      /\ UNCHANGED <<notUploader, clients, uploads, queue_event, last_retry_count>>

LeaveLoop ==
  /\ uploader_quit /\ Uploader("top", "final")
  /\ UNCHANGED <<notUploader, clients, queues, uploads, last_retry_count>>

(* cleanup() of the processor of w: the result file of its range goes.     *)
cleanup_everywhere(w) ==
  file' = [c \in Clients |-> [file[c] EXCEPT ![w[1]] = NoWU]]
cleanup(w) == SetFile(holder[w], w[1], NoWU)

(* popleft(), and is_stale() by the clock of the client. *)
PopUpload ==
  /\ upload_backlog # <<>> /\ Uploader("pop", "attempt")
  /\ p' = Head(upload_backlog) /\ upload_backlog' = Tail(upload_backlog)
  /\ UNCHANGED <<notUploader, clients, to_retry, queue_event, last_retry_count,
                 delivered, expired>>

DropStale ==
  /\ upload_backlog # <<>> /\ Uploader("pop", "pop")
  /\ Deadlines /\ Head(upload_backlog) \in late
  /\ expired' = expired \cup {Head(upload_backlog)}
  /\ cleanup(Head(upload_backlog))
  /\ upload_backlog' = Tail(upload_backlog)
  /\ UNCHANGED <<notUploader, progress, to_retry, queue_event, p,
                 last_retry_count, delivered>>

UploadSucceeds ==
  /\ Uploader("attempt", "pop")
  /\ delivered' = delivered \cup {p} /\ cleanup(p) /\ p' = NoWU
  /\ UNCHANGED <<notUploader, queues, progress, last_retry_count, expired>>

UploadFails_dropped ==
  /\ Uploader("attempt", "pop") /\ p' = NoWU
  /\ UNCHANGED <<notUploader, clients, queues, last_retry_count, delivered,
                 expired>>

UploadFails ==
  /\ Uploader("attempt", "pop")
  /\ to_retry' = Append(to_retry, p) /\ p' = NoWU
  /\ UNCHANGED <<notUploader, clients, upload_backlog, queue_event,
                 last_retry_count, delivered, expired>>

(* conn.read() raises, or status 410 does: nothing catches it and the      *)
(* thread ends.                                                            *)
ReadFails ==
  /\ ReadMayFail /\ Uploader("attempt", "died")
  /\ UNCHANGED <<notUploader, clients, queues, uploads, last_retry_count>>

(* IndexError: process_uploads() returns. *)
BacklogEmpty ==
  /\ upload_backlog = <<>>
  /\ Uploader("pop", IF last_retry_count > 0 THEN "check_final" ELSE "clear")
  /\ UNCHANGED <<notUploader, clients, queues, uploads, last_retry_count>>

ClearEvent ==
  /\ Uploader("clear", "check") /\ queue_event' = FALSE
  /\ UNCHANGED <<notUploader, clients, uploads, upload_backlog, to_retry,
                 last_retry_count>>

(* A new upload has arrived, or it is time to quit, or there is nothing to *)
(* do but wait.                                                            *)
AfterCheck ==
  IF upload_backlog # <<>> THEN "top"
  ELSE IF uploader_quit THEN "final" ELSE "wait"

CheckBacklog_ignores_arrivals ==
  /\ Uploader("check", IF uploader_quit THEN "final" ELSE "wait")
  /\ UNCHANGED <<notUploader, clients, queues, uploads, last_retry_count>>

CheckBacklog ==
  /\ Uploader("check", AfterCheck)
  /\ UNCHANGED <<notUploader, clients, queues, uploads, last_retry_count>>

(* queue_event.wait() returns because of the event, or after a while. *)
WakeUp ==
  /\ Uploader("wait", "top")
  /\ UNCHANGED <<notUploader, clients, queues, uploads, last_retry_count>>

(* One of the last rounds: retry_all(), then process_uploads(). *)
FinalRound_uncounted ==
  /\ last_retry_count < FinalRetries /\ Uploader("final", "pop")
  /\ last_retry_count' = 1
  /\ upload_backlog' = upload_backlog \o to_retry /\ to_retry' = <<>>
  /\ UNCHANGED <<notUploader, clients, uploads, queue_event>>

FinalRound_too_often ==
  /\ last_retry_count <= FinalRetries /\ Uploader("final", "pop")
  /\ last_retry_count' = last_retry_count + 1
  /\ upload_backlog' = upload_backlog \o to_retry /\ to_retry' = <<>>
  /\ UNCHANGED <<notUploader, clients, uploads, queue_event>>

FinalRound ==
  /\ last_retry_count < FinalRetries /\ Uploader("final", "pop")
  /\ last_retry_count' = last_retry_count + 1
  /\ upload_backlog' = upload_backlog \o to_retry /\ to_retry' = <<>>
  /\ UNCHANGED <<notUploader, clients, uploads, queue_event>>

(* "Giving up on %d uploads": they stay in to_retry. *)
GiveUp ==
  /\ last_retry_count = FinalRetries /\ Uploader("final", "exited")
  /\ UNCHANGED <<notUploader, clients, queues, uploads, last_retry_count>>

(* assert len(upload_backlog) == 0, then on to the next round or the end. *)
CheckFinal ==
  /\ Uploader("check_final",
       IF upload_backlog # <<>> THEN "died"
       ELSE IF to_retry = <<>> THEN "exited" ELSE "final")
  /\ UNCHANGED <<notUploader, clients, queues, uploads, last_retry_count>>

-------------------------------------------------------------------------------
(* The main thread. *)

(* client.join() for each of the clients. *)
JoinClients_at_quit ==
  /\ mpc \in {"join", "rejoin"}
  /\ should_quit \/ \A c \in Clients : tpc[c] = "exited"
  /\ mpc' = "shutdown"
  /\ UNCHANGED <<notMain, flags, uploader_quit, untreated, target, signals>>

JoinClients ==
  /\ mpc \in {"join", "rejoin"} /\ \A c \in Clients : tpc[c] = "exited"
  /\ mpc' = "shutdown"
  /\ UNCHANGED <<notMain, flags, uploader_quit, untreated, target, signals>>

(* shutdown() of the uploader thread: the flag, then the event. *)
ShutdownUploader ==
  /\ mpc = "shutdown" /\ mpc' = "join_uploader"
  /\ uploader_quit' = TRUE /\ queue_event' = TRUE
  /\ UNCHANGED <<server, clients, flags, uploader, upload_backlog, to_retry,
                 untreated, target, signals>>

JoinUploader ==
  /\ mpc = "join_uploader" /\ upc \in {"exited", "died"}
  /\ mpc' = "exited"
  /\ UNCHANGED <<notMain, flags, uploader_quit, untreated, target, signals>>

(* KeyboardInterrupt: handled during the first join, else main is over. *)
Interrupted == mpc' = IF mpc = "join" THEN "terminate" ELSE "raised"

(* SIGINT, the first time: on_sigint(). *)
FirstSigint ==
  /\ mpc \notin {"exited", "raised"} /\ signals < MaxSignals /\ ~should_quit
  /\ signals' = signals + 1
  /\ should_quit' = TRUE
  /\ UNCHANGED <<notMain, terminate_immediately, uploader_quit, mpc, untreated,
                 target>>

(* SIGINT once the original handler is restored; SIGTERM at any time. *)
KeyboardInterrupt ==
  /\ mpc \notin {"exited", "raised"} /\ signals < MaxSignals
  /\ should_quit \/ Sigterm
  /\ signals' = signals + 1
  /\ Interrupted
  /\ UNCHANGED <<notMain, flags, uploader_quit, untreated, target>>

(* For each client: if client._current_process is not None, ... *)
CheckProcess ==
  /\ mpc = "terminate"
  /\ \E c \in untreated :
       /\ untreated' = untreated \ {c}
       /\ IF HasProcess(c) THEN mpc' = "flag" /\ target' = c
          ELSE UNCHANGED <<mpc, target>>
  /\ UNCHANGED <<notMain, flags, uploader_quit, signals>>

(* ... client._terminate_immediately = True, ... *)
FlagClient ==
  /\ mpc = "flag" /\ mpc' = "kill"
  /\ terminate_immediately' = [terminate_immediately EXCEPT ![target] = TRUE]
  /\ UNCHANGED <<notMain, should_quit, uploader_quit, untreated, target, signals>>

(* ... and client._current_process.terminate(), an AttributeError if the   *)
(* process has ended since it was looked at.                               *)
KillProcess ==
  /\ mpc = "kill" /\ target' = NoClient
  /\ mpc' = IF HasProcess(target) THEN "terminate" ELSE "raised"
  /\ UNCHANGED <<notMain, flags, uploader_quit, untreated, signals>>

JoinAgain ==
  /\ mpc = "terminate" /\ untreated = {} /\ mpc' = "rejoin"
  /\ UNCHANGED <<notMain, flags, uploader_quit, untreated, target, signals>>

-------------------------------------------------------------------------------
ClientStep(c) ==
  \/ run_commands(c) \/ OpenResult(c) \/ CommandEnds(c) \/ prepare_answer(c)
  \/ schedule_upload(c) \/ NotifyUploader(c)

UploaderStep ==
  \/ Requeue \/ LeaveLoop \/ PopUpload \/ DropStale \/ UploadSucceeds
  \/ UploadFails \/ ReadFails \/ BacklogEmpty \/ ClearEvent \/ CheckBacklog
  \/ WakeUp \/ FinalRound \/ GiveUp \/ CheckFinal

MainStep ==
  \/ JoinClients \/ ShutdownUploader \/ JoinUploader \/ CheckProcess
  \/ FlagClient \/ KillProcess \/ JoinAgain

Signal == FirstSigint \/ KeyboardInterrupt

(* The process is gone when its last thread is. *)
Exited ==
  /\ mpc \in {"exited", "raised"} /\ upc \in {"exited", "died"}
  /\ \A c \in Clients : tpc[c] = "exited"

Next ==
  \/ \E c \in Clients :
       get_wu_full(c) \/ CancelGet(c) \/ ServerGone(c) \/ ClientStep(c)
  \/ \E w \in WUs : TimeOut(w)
  \/ UploaderStep \/ MainStep \/ Signal
  \/ Exited /\ UNCHANGED vars

Spec == Init /\ [][Next]_vars

-------------------------------------------------------------------------------
(* Types. *)

MaybeWU  == WUs \cup {NoWU}
TPcs     == {"get", "run", "started", "writing", "answer", "failed", "schedule",
             "notify", "exited"}
UPcs     == {"top", "pop", "attempt", "clear", "check", "wait", "final",
             "check_final", "exited", "died"}
MPcs     == {"join", "terminate", "flag", "kill", "rejoin", "shutdown",
             "join_uploader", "exited", "raised"}

(* Every variable has the type its use in the code gives it. *)
TypeOK ==
  /\ holder \in [WUs -> Clients \cup {NoClient}] /\ late \subseteq WUs
  /\ tpc \in [Clients -> TPcs] /\ workunit \in [Clients -> MaybeWU]
  /\ file \in [Clients -> [Ranges -> MaybeWU]]
  /\ answer \in [WUs -> {"none", "result", "nofile", "error"}]
  /\ should_quit \in BOOLEAN /\ terminate_immediately \in [Clients -> BOOLEAN]
  /\ upload_backlog \in Seq(WUs) /\ to_retry \in Seq(WUs)
  /\ queue_event \in BOOLEAN /\ uploader_quit \in BOOLEAN
  /\ upc \in UPcs /\ p \in MaybeWU /\ last_retry_count \in 0 .. FinalRetries
  /\ delivered \subseteq WUs /\ expired \subseteq WUs
  /\ mpc \in MPcs /\ untreated \subseteq Clients
  /\ target \in Clients \cup {NoClient} /\ signals \in 0 .. MaxSignals

-------------------------------------------------------------------------------
(* Safety. *)

Times(w, q) == Cardinality({i \in 1 .. Len(q) : q[i] = w})
Counted(P)  == IF P THEN 1 ELSE 0
Places(w) ==
  Cardinality({c \in Clients : tpc[c] = "schedule" /\ workunit[c] = w})
    + Times(w, upload_backlog) + Times(w, to_retry) + Counted(p = w)
    + Counted(w \in delivered) + Counted(w \in expired)

(* "Transfer ownership of processor": from prepare_answer() on, a result   *)
(* is in exactly one place, the hands of one thread, one place of one      *)
(* queue, or it was acknowledged, or dropped past its deadline.  Two       *)
(* threads append to and take from the queues, and no step loses a result  *)
(* or uploads one twice.                                                   *)
ResultInOnePlace ==
  \A w \in WUs : Places(w) = Counted(answer[w] # "none")

(* The uploader never goes to sleep on a result: one that arrives after    *)
(* process_uploads() found the queue empty is seen by the check after      *)
(* clear(), or its event is set, or about to be.                           *)
ArrivalNoticed ==
  upc = "wait" /\ upload_backlog # <<>> =>
    queue_event \/ \E c \in Clients : tpc[c] = "notify"

(* run(): "we shouldn't receive any new jobs at this point", and           *)
(* assert len(self.uploader.upload_backlog) == 0.                          *)
FinalAssertion ==
  /\ upc = "final" \/ last_retry_count > 0 => \A c \in Clients : tpc[c] = "exited"
  /\ upc = "check_final" => upload_backlog = <<>>

(* A result of a command that did not fail is uploaded with its file,      *)
(* unless the same client thread had another attempt of the same range:    *)
(* then the cleanup of one may remove the file of the other.               *)
AnswerHasFile ==
  \A w \in WUs :
    answer[w] = "nofile" =>
      \E v \in WUs \ {w} : v[1] = w[1] /\ holder[v] = holder[w]

-------------------------------------------------------------------------------
(* Liveness. *)

(* The threads run and commands end; wait() returns after a while.  That   *)
(* the server has work, or that an upload ever succeeds, is not assumed.   *)
Fairness ==
  /\ \A c \in Clients : WF_vars(ClientStep(c)) /\ WF_vars(CancelGet(c))
  /\ WF_vars(UploaderStep) /\ WF_vars(MainStep)

FairSpec == Spec /\ Fairness

(* "SIGINT received, exiting upon WU completion": one SIGINT ends the      *)
(* process even if no upload succeeds any more.                            *)
QuitsAfterSigint == should_quit ~> Exited

(* A failed upload is tried again, or given up with the whole process,     *)
(* however many others fail with it: the few that are queued again each    *)
(* time are those that have waited longest.                                *)
RetriesGoRound ==
  \A w \in WUs :
    w \in InSeq(to_retry) ~> p = w \/ w \in expired \/ upc = "exited"

-------------------------------------------------------------------------------
(* Statements of the code that its behaviour does not keep. *)

(* cleanup(): "Delete uploaded result files".  The file the uploader       *)
(* thread removes is that of the result it has just uploaded or dropped.   *)
OnlyOwnFilesDeleted ==
  [][\A c \in Clients, r \in Ranges :
       file[c][r] # NoWU /\ file'[c][r] = NoWU /\ tpc' = tpc =>
         file[c][r] \in delivered' \cup expired']_vars

(* on_sigint(): "hit ^C again to exit"; and for a SIGTERM, "SIGINT         *)
(* received, terminating immediately".                                     *)
ExitsWhenInterrupted == mpc = "terminate" ~> Exited
===============================================================================
