-------------------------- MODULE ParallelClientProofs --------------------------
(* Proofs about ParallelClient, for every value of its constants.          *)
EXTENDS ParallelClient, FunctionTheorems, FiniteSetTheorems, SequenceTheorems, TLAPS

Working    == TPcs \ {"get", "exited"}
Unanswered == {"run", "started", "writing", "answer", "failed"}

(* A thread that works has a workunit, and it is the one to whom the server *)
(* gave it. *)
HandsInv ==
  /\ \A c \in Clients : tpc[c] \in Working =>
       workunit[c] \in WUs /\ holder[workunit[c]] = c
  /\ upc = "attempt" => p \in WUs

PCType == TypeOK /\ HandsInv

(* The uploader's queues stay sequences of workunits. *)
LEMMA QueueType ==
  ASSUME NEW s \in Seq(WUs), NEW t \in Seq(WUs), NEW k \in 0 .. Len(t), NEW w \in WUs
  PROVE  /\ s \o t \in Seq(WUs) /\ Append(s, w) \in Seq(WUs)
         /\ SubSeq(t, 1, k) \in Seq(WUs) /\ SubSeq(t, k + 1, Len(t)) \in Seq(WUs)
         /\ s # <<>> => Head(s) \in WUs /\ Tail(s) \in Seq(WUs)
  OBVIOUS

(* Removing or writing a result file changes one entry of one client.      *)
LEMMA FileType ==
  ASSUME TypeOK, NEW c, NEW r, NEW w \in MaybeWU, SetFile(c, r, w)
  PROVE  /\ file' \in [Clients -> [Ranges -> MaybeWU]]
         /\ \A d \in Clients, q \in Ranges : d # c \/ q # r => file'[d][q] = file[d][q]
         /\ c \in Clients /\ r \in Ranges => file'[c][r] = w
  <1>1. file \in [Clients -> [Ranges -> MaybeWU]] /\ file' = [file EXCEPT ![c][r] = w]
    BY DEF TypeOK, SetFile
  <1> QED BY <1>1

(* The first state has the types. *)
LEMMA TypeInit == Init => PCType
  <1> SUFFICES ASSUME Init PROVE PCType
    OBVIOUS
  <1>1. /\ holder \in [WUs -> Clients \cup {NoClient}] /\ late \subseteq WUs
        /\ tpc \in [Clients -> TPcs] /\ workunit \in [Clients -> MaybeWU]
        /\ file \in [Clients -> [Ranges -> MaybeWU]]
        /\ answer \in [WUs -> {"none", "result", "nofile", "error"}]
    <2>1. holder \in [WUs -> Clients \cup {NoClient}] /\ late \subseteq WUs
          /\ workunit \in [Clients -> MaybeWU]
      BY DEF Init, MaybeWU
    <2>2. file \in [Clients -> [Ranges -> MaybeWU]]
      BY DEF Init, MaybeWU
    <2>3. tpc \in [Clients -> TPcs] /\ answer \in [WUs -> {"none", "result", "nofile", "error"}]
      BY DEF Init, TPcs
    <2> QED BY <2>1, <2>2, <2>3
  <1>2. /\ should_quit \in BOOLEAN /\ terminate_immediately \in [Clients -> BOOLEAN]
        /\ upload_backlog \in Seq(WUs) /\ to_retry \in Seq(WUs)
        /\ queue_event \in BOOLEAN /\ uploader_quit \in BOOLEAN
        /\ upc \in UPcs /\ p \in MaybeWU
    <2>1. terminate_immediately \in [Clients -> BOOLEAN]
      BY Zenon DEF Init
    <2>2. /\ should_quit \in BOOLEAN /\ queue_event \in BOOLEAN /\ uploader_quit \in BOOLEAN
      BY DEF Init
    <2>3. upload_backlog \in Seq(WUs) /\ to_retry \in Seq(WUs)
      BY DEF Init
    <2>4. upc \in UPcs /\ p \in MaybeWU
      BY DEF Init, UPcs, MaybeWU
    <2> QED BY <2>1, <2>2, <2>3, <2>4
  <1>3. /\ last_retry_count \in 0 .. FinalRetries /\ signals \in 0 .. MaxSignals
    BY PCAssumption DEF Init, PCAssumption
  <1>4. /\ delivered \subseteq WUs /\ expired \subseteq WUs
        /\ mpc \in MPcs /\ untreated \subseteq Clients
        /\ target \in Clients \cup {NoClient}
    BY DEF Init, MPcs
  <1>5. HandsInv
    BY DEF Init, HandsInv, Working
  <1> QED BY <1>1, <1>2, <1>3, <1>4, <1>5 DEF PCType, TypeOK

(* A step of the server or of a client keeps the types. *)
LEMMA ClientTypes ==
  ASSUME PCType, NEW c \in Clients,
         get_wu_full(c) \/ CancelGet(c) \/ ServerGone(c) \/ ClientStep(c)
  PROVE  PCType'
  <1> USE DEF PCType
  <1>1. CASE get_wu_full(c)
    <2>1. PICK w \in WUs :
            /\ Offered(w)
            /\ workunit' = [workunit EXCEPT ![c] = w]
            /\ holder' = [holder EXCEPT ![w] = c]
      BY <1>1 DEF get_wu_full
    <2>2. tpc[c] = "get" /\ tpc' = [tpc EXCEPT ![c] = "run"]
      BY <1>1 DEF get_wu_full, At
    <2>3. TypeOK'
      BY <1>1, <2>1, <2>2 DEF get_wu_full, TypeOK, flags, queues, uploader, main, TPcs, MaybeWU
    <2>4. HandsInv'
      BY <1>1, <2>1, <2>2, PCAssumption DEF get_wu_full, TypeOK, HandsInv, uploader, Working,
            Offered, PCAssumption
    <2> QED BY <2>3, <2>4
  <1>2. CASE CancelGet(c) \/ ServerGone(c)
    <2>1. tpc[c] = "get" /\ tpc' = [tpc EXCEPT ![c] = "exited"]
      BY <1>2 DEF CancelGet, ServerGone, At
    <2>2. UNCHANGED <<notClients, workunit, file, answer>>
      BY <1>2 DEF CancelGet, ServerGone
    <2> QED
      BY <2>1, <2>2 DEF TypeOK, HandsInv, notClients, server, flags, queues, uploader, main,
                        TPcs, Working
  <1>3. CASE run_commands(c) \/ OpenResult(c) \/ CommandEnds(c) \/ prepare_answer(c)
    <2>1. UNCHANGED notClients /\ UNCHANGED workunit /\ tpc[c] \in Working
      BY <1>3 DEF run_commands, OpenResult, CommandEnds, prepare_answer, At, HasProcess, Working, TPcs
    <2>2. \E x \in TPcs : tpc' = [tpc EXCEPT ![c] = x]
      BY <1>3 DEF run_commands, OpenResult, CommandEnds, prepare_answer, At, TPcs
    <2>3. workunit[c] \in WUs /\ workunit[c][1] \in Ranges
      BY <2>1 DEF HandsInv, WUs
    <2>4. file' \in [Clients -> [Ranges -> MaybeWU]]
      <3>1. \/ file' = file
            \/ \E r \in Ranges : \E w \in MaybeWU : SetFile(c, r, w)
        BY <1>3, <2>3 DEF run_commands, OpenResult, CommandEnds, prepare_answer, MaybeWU
      <3> QED BY <3>1, FileType DEF TypeOK
    <2>5. answer' \in [WUs -> {"none", "result", "nofile", "error"}]
      BY <1>3 DEF run_commands, OpenResult, CommandEnds, prepare_answer, TypeOK
    <2>6. tpc' \in [Clients -> TPcs]
      BY <2>2 DEF TypeOK
    <2>7. TypeOK'
      BY <2>1, <2>4, <2>5, <2>6 DEF TypeOK, notClients, server, flags, queues, uploader, main
    <2>8. \A d \in Clients : tpc'[d] \in Working => tpc[d] \in Working
      BY <2>1, <2>2 DEF TypeOK
    <2> QED BY <2>1, <2>7, <2>8 DEF HandsInv, notClients, server, uploader
  <1>4. CASE schedule_upload(c)
    <2>1. tpc[c] = "schedule" /\ tpc' = [tpc EXCEPT ![c] = "notify"] /\ workunit[c] \in WUs
      BY <1>4 DEF schedule_upload, At, HandsInv, Working, TPcs
    <2>2. upload_backlog' \in Seq(WUs)
      BY <1>4, <2>1, QueueType DEF schedule_upload, TypeOK
    <2> QED
      BY <1>4, <2>1, <2>2 DEF schedule_upload, TypeOK, HandsInv, notUploader, server, flags,
                              uploader, main, TPcs, Working
  <1>5. CASE NotifyUploader(c)
    <2>1. tpc[c] = "notify" /\ workunit' = [workunit EXCEPT ![c] = NoWU]
          /\ \E x \in {"get", "exited"} : tpc' = [tpc EXCEPT ![c] = x]
      BY <1>5 DEF NotifyUploader, At
    <2>2. TypeOK'
      BY <1>5, <2>1 DEF NotifyUploader, TypeOK, notUploader, server, flags,
                        uploader, main, TPcs, MaybeWU
    <2>3. \A d \in Clients : tpc'[d] \in Working => d # c /\ tpc[d] \in Working
      BY <2>1 DEF TypeOK, Working
    <2>4. HandsInv'
      BY <1>5, <2>1, <2>3 DEF NotifyUploader, HandsInv, TypeOK, notUploader, server, uploader
    <2> QED BY <2>2, <2>4
  <1> QED BY <1>1, <1>2, <1>3, <1>4, <1>5 DEF ClientStep

(* A step of the uploader keeps the types. *)
LEMMA UploaderTypes ==
  ASSUME PCType, UploaderStep
  PROVE  PCType'
  <1> USE DEF PCType
  <1>0. ASSUME UNCHANGED notUploader, UNCHANGED progress,
               file' \in [Clients -> [Ranges -> MaybeWU]],
               upload_backlog' \in Seq(WUs), to_retry' \in Seq(WUs), queue_event' \in BOOLEAN,
               upc' \in UPcs, p' \in MaybeWU, last_retry_count' \in 0 .. FinalRetries,
               delivered' \subseteq WUs, expired' \subseteq WUs,
               upc' = "attempt" => p' \in WUs
        PROVE  PCType'
    BY <1>0 DEF TypeOK, HandsInv, notUploader, server, flags, main, progress
  <1>1. ASSUME UNCHANGED notUploader, UNCHANGED clients, UNCHANGED uploads,
               UNCHANGED last_retry_count, UNCHANGED queues, upc' \in UPcs \ {"attempt"}
        PROVE  PCType'
    BY <1>0, <1>1 DEF TypeOK, clients, progress, uploads, queues
  <1>2. CASE Requeue
    <2> DEFINE n == Len(to_retry)
    <2>1. PICK k \in 0 .. n :
            /\ upload_backlog' = upload_backlog \o SubSeq(to_retry, 1, k)
            /\ to_retry' = SubSeq(to_retry, k + 1, n)
      BY <1>2 DEF Requeue
    <2>2. upload_backlog' \in Seq(WUs) /\ to_retry' \in Seq(WUs)
      BY <2>1 DEF TypeOK
    <2>3. upc' = "pop" /\ upc' \in UPcs
      BY <1>2 DEF Requeue, Uploader, UPcs
    <2> QED BY <1>0, <1>2, <2>2, <2>3 DEF Requeue, TypeOK, clients, progress, uploads
  <1>3. CASE LeaveLoop \/ ReadFails \/ BacklogEmpty \/ CheckBacklog \/ WakeUp \/ GiveUp \/ CheckFinal
    <2>1. upc' \in UPcs \ {"attempt"}
      BY <1>3 DEF LeaveLoop, ReadFails, BacklogEmpty, CheckBacklog, AfterCheck, WakeUp, GiveUp,
                  CheckFinal, Uploader, UPcs
    <2> QED
      BY <1>1, <1>3, <2>1 DEF LeaveLoop, ReadFails, BacklogEmpty, CheckBacklog, WakeUp, GiveUp,
                              CheckFinal
  <1>4. CASE PopUpload
    <2>1. p' \in WUs /\ upload_backlog' \in Seq(WUs)
      BY <1>4 DEF PopUpload, TypeOK
    <2>2. upc' \in UPcs
      BY <1>4 DEF PopUpload, Uploader, UPcs
    <2> QED BY <1>0, <1>4, <2>1, <2>2 DEF PopUpload, TypeOK, clients, progress, MaybeWU
  <1>5. CASE DropStale
    <2>1. Head(upload_backlog) \in WUs /\ upload_backlog' \in Seq(WUs)
      BY <1>5 DEF DropStale, TypeOK
    <2>2. file' \in [Clients -> [Ranges -> MaybeWU]]
      BY <1>5, FileType DEF DropStale, cleanup, MaybeWU
    <2>3. upc' = "pop" /\ upc' \in UPcs
      BY <1>5 DEF DropStale, Uploader, UPcs
    <2> QED BY <1>0, <1>5, <2>1, <2>2, <2>3 DEF DropStale, TypeOK
  <1>6. CASE UploadSucceeds
    <2>1. p \in WUs /\ p' = NoWU /\ delivered' = delivered \cup {p}
      BY <1>6 DEF UploadSucceeds, HandsInv, Uploader
    <2>2. file' \in [Clients -> [Ranges -> MaybeWU]]
      BY <1>6, FileType DEF UploadSucceeds, cleanup, MaybeWU
    <2>3. upc' = "pop" /\ upc' \in UPcs
      BY <1>6 DEF UploadSucceeds, Uploader, UPcs
    <2> QED BY <1>0, <1>6, <2>1, <2>2, <2>3 DEF UploadSucceeds, TypeOK, queues, MaybeWU
  <1>7. CASE UploadFails
    <2>1. p \in WUs /\ p' = NoWU /\ to_retry' \in Seq(WUs)
      BY <1>7 DEF UploadFails, HandsInv, Uploader, TypeOK
    <2>2. upc' = "pop" /\ upc' \in UPcs
      BY <1>7 DEF UploadFails, Uploader, UPcs
    <2> QED BY <1>0, <1>7, <2>1, <2>2 DEF UploadFails, TypeOK, clients, progress, MaybeWU
  <1>8. CASE ClearEvent
    <2>1. upc' = "check" /\ upc' \in UPcs
      BY <1>8 DEF ClearEvent, Uploader, UPcs
    <2> QED BY <1>0, <1>8, <2>1 DEF ClearEvent, TypeOK, clients, progress, uploads
  <1>9. CASE FinalRound
    <2>1. upload_backlog' \in Seq(WUs) /\ to_retry' \in Seq(WUs)
      BY <1>9 DEF FinalRound, TypeOK
    <2>2. last_retry_count' \in 0 .. FinalRetries
      BY <1>9, PCAssumption DEF FinalRound, TypeOK, PCAssumption
    <2>3. upc' = "pop" /\ upc' \in UPcs
      BY <1>9 DEF FinalRound, Uploader, UPcs
    <2> QED BY <1>0, <1>9, <2>1, <2>2, <2>3 DEF FinalRound, TypeOK, clients, progress, uploads
  <1> QED BY <1>2, <1>3, <1>4, <1>5, <1>6, <1>7, <1>8, <1>9 DEF UploaderStep

(* A step of the main thread, a signal or a timeout keeps the types. *)
LEMMA MainTypes ==
  ASSUME PCType, MainStep \/ Signal \/ \E w \in WUs : TimeOut(w)
  PROVE  PCType'
  <1> USE DEF PCType
  <1>1. ASSUME NEW w \in WUs, TimeOut(w) PROVE PCType'
    BY <1>1 DEF TimeOut, TypeOK, HandsInv, clients, flags, queues, uploader, main
  <1>2. ASSUME UNCHANGED notMain,
               mpc' \in MPcs, untreated' \subseteq Clients, target' \in Clients \cup {NoClient},
               signals' \in 0 .. MaxSignals, should_quit' \in BOOLEAN,
               uploader_quit' \in BOOLEAN, terminate_immediately' \in [Clients -> BOOLEAN]
        PROVE  PCType'
    BY <1>2 DEF TypeOK, HandsInv, notMain, server, clients, queues, uploader
  <1>3. CASE JoinClients \/ JoinUploader \/ JoinAgain
    <2>1. mpc' \in MPcs
      BY <1>3 DEF JoinClients, JoinUploader, JoinAgain, MPcs
    <2> QED BY <1>2, <1>3, <2>1 DEF JoinClients, JoinUploader, JoinAgain, TypeOK, flags
  <1>4. CASE ShutdownUploader
    BY <1>4 DEF ShutdownUploader, TypeOK, HandsInv, server, clients, flags, uploader, MPcs
  <1>5. CASE CheckProcess
    <2>1. PICK c \in untreated :
            /\ untreated' = untreated \ {c}
            /\ IF HasProcess(c) THEN mpc' = "flag" /\ target' = c
               ELSE UNCHANGED <<mpc, target>>
      BY <1>5 DEF CheckProcess
    <2>2. mpc' \in MPcs /\ target' \in Clients \cup {NoClient} /\ untreated' \subseteq Clients
      BY <2>1 DEF TypeOK, MPcs
    <2> QED BY <1>2, <1>5, <2>2 DEF CheckProcess, TypeOK, flags
  <1>6. CASE FlagClient
    <2>1. mpc' \in MPcs /\ terminate_immediately' \in [Clients -> BOOLEAN]
      BY <1>6 DEF FlagClient, TypeOK, MPcs
    <2> QED BY <1>2, <1>6, <2>1 DEF FlagClient, TypeOK
  <1>7. CASE KillProcess
    <2>1. mpc' \in MPcs /\ target' = NoClient
      BY <1>7 DEF KillProcess, MPcs
    <2> QED BY <1>2, <1>7, <2>1 DEF KillProcess, TypeOK, flags
  <1>8. CASE Signal
    <2>1. signals' \in 0 .. MaxSignals
      BY <1>8, PCAssumption DEF Signal, FirstSigint, KeyboardInterrupt, TypeOK, PCAssumption
    <2>2. mpc' \in MPcs /\ should_quit' \in BOOLEAN
      BY <1>8 DEF Signal, FirstSigint, KeyboardInterrupt, Interrupted, TypeOK, MPcs, flags
    <2> QED
      BY <1>2, <1>8, <2>1, <2>2 DEF Signal, FirstSigint, KeyboardInterrupt, TypeOK, flags
  <1> QED BY <1>1, <1>3, <1>4, <1>5, <1>6, <1>7, <1>8 DEF MainStep

(* Any step keeps the types. *)
LEMMA TypeStep == PCType /\ [Next]_vars => PCType'
  <1>1. ASSUME PCType, UNCHANGED vars PROVE PCType'
    BY <1>1 DEF PCType, TypeOK, HandsInv, vars, server, clients, flags, queues, uploader, main
  <1> QED BY <1>1, ClientTypes, UploaderTypes, MainTypes DEF Next

(* Every run has the types. *)
LEMMA TypesAlways == Spec => []PCType
  BY TypeInit, TypeStep, PTL DEF Spec

(* Every variable keeps the type its use in the code gives it. *)
THEOREM ClientTypesKept == Spec => []TypeOK
  <1>1. PCType => TypeOK
    BY DEF PCType
  <1> QED BY <1>1, TypesAlways, PTL

-------------------------------------------------------------------------------
(* Which of the variables a step can change. *)

(* Each step is one of a client thread, of the uploader, of the main thread *)
(* or of nobody. *)
LEMMA StepBy ==
  ASSUME [Next]_vars
  PROVE  \/ /\ \E c \in Clients :
                 get_wu_full(c) \/ CancelGet(c) \/ ServerGone(c) \/ ClientStep(c)
            /\ UNCHANGED <<mpc, uploader_quit, upc, last_retry_count, p, to_retry, delivered,
                           expired>>
         \/ /\ UploaderStep
            /\ UNCHANGED <<mpc, uploader_quit, tpc, workunit, answer, holder>>
         \/ /\ MainStep
            /\ UNCHANGED <<upc, last_retry_count, p, upload_backlog, to_retry, delivered, expired,
                           tpc, workunit, answer, holder, file>>
         \/ /\ mpc' \in {mpc, "terminate", "raised"}
            /\ UNCHANGED <<uploader_quit, upc, last_retry_count, p, upload_backlog, to_retry,
                           queue_event, delivered, expired, tpc, workunit, answer, holder, file>>
  <1>1. ASSUME NEW c \in Clients,
               get_wu_full(c) \/ CancelGet(c) \/ ServerGone(c) \/ ClientStep(c)
        PROVE  UNCHANGED <<mpc, uploader_quit, upc, last_retry_count, p, to_retry, delivered,
                           expired>>
    BY <1>1 DEF get_wu_full, CancelGet, ServerGone, ClientStep, run_commands, OpenResult,
                CommandEnds, prepare_answer, schedule_upload, NotifyUploader, notClients,
                notUploader, queues, uploader, main
  <1>2. ASSUME UploaderStep
        PROVE  UNCHANGED <<mpc, uploader_quit, tpc, workunit, answer, holder>>
    BY <1>2 DEF UploaderStep, Requeue, LeaveLoop, PopUpload, DropStale, UploadSucceeds,
                UploadFails, ReadFails, BacklogEmpty, ClearEvent, CheckBacklog, WakeUp,
                FinalRound, GiveUp, CheckFinal, notUploader, clients, progress, server, main
  <1>3. ASSUME MainStep
        PROVE  UNCHANGED <<upc, last_retry_count, p, upload_backlog, to_retry, delivered, expired,
                           tpc, workunit, answer, holder, file>>
    BY <1>3 DEF MainStep, JoinClients, ShutdownUploader, JoinUploader, CheckProcess, FlagClient,
                KillProcess, JoinAgain, notMain, server, clients, queues, uploader
  <1>4. ASSUME Signal
        PROVE  /\ mpc' \in {mpc, "terminate", "raised"}
               /\ UNCHANGED <<uploader_quit, upc, last_retry_count, p, upload_backlog, to_retry,
                           queue_event, delivered, expired, tpc, workunit, answer, holder, file>>
    BY <1>4 DEF Signal, FirstSigint, KeyboardInterrupt, Interrupted, notMain, flags, server,
                clients, queues, uploader
  <1>5. ASSUME NEW w \in WUs, TimeOut(w)
        PROVE  /\ mpc' \in {mpc, "terminate", "raised"}
               /\ UNCHANGED <<uploader_quit, upc, last_retry_count, p, upload_backlog, to_retry,
                           queue_event, delivered, expired, tpc, workunit, answer, holder, file>>
    BY <1>5 DEF TimeOut, clients, flags, queues, uploader, main
  <1>6. ASSUME UNCHANGED vars
        PROVE  /\ mpc' \in {mpc, "terminate", "raised"}
               /\ UNCHANGED <<uploader_quit, upc, last_retry_count, p, upload_backlog, to_retry,
                           queue_event, delivered, expired, tpc, workunit, answer, holder, file>>
    BY <1>6 DEF vars, server, clients, flags, queues, uploader, main
  <1> QED BY <1>1, <1>2, <1>3, <1>4, <1>5, <1>6 DEF Next

(* How a client thread moves. *)
LEMMA ThreadMoves ==
  ASSUME TypeOK, NEW c \in Clients,
         get_wu_full(c) \/ CancelGet(c) \/ ServerGone(c) \/ ClientStep(c)
  PROVE  /\ tpc[c] # "exited"
         /\ \A d \in Clients : d # c => tpc'[d] = tpc[d]
  BY DEF get_wu_full, CancelGet, ServerGone, ClientStep, run_commands, OpenResult,
         CommandEnds, prepare_answer, schedule_upload, NotifyUploader, HasProcess, At, TypeOK

-------------------------------------------------------------------------------
(* The uploader and the end of the program. *)

(* The uploader is told to quit when all clients are joined, and reaches   *)
(* its last rounds only after that. *)
QuitInv ==
  /\ mpc \in {"shutdown", "join_uploader"} \/ uploader_quit =>
       \A c \in Clients : tpc[c] = "exited"
  /\ upc \in {"final", "check_final"} \/ last_retry_count > 0 => uploader_quit
  /\ upc = "check_final" => upload_backlog = <<>>

(* Any step keeps that. *)
LEMMA QuitStep ==
  ASSUME TypeOK, QuitInv, [Next]_vars
  PROVE  QuitInv'
  <1>1. ASSUME NEW c \in Clients,
               get_wu_full(c) \/ CancelGet(c) \/ ServerGone(c) \/ ClientStep(c),
               UNCHANGED <<mpc, uploader_quit, upc, last_retry_count>>
        PROVE  QuitInv'
    <2>1. tpc[c] # "exited"
      BY <1>1, ThreadMoves
    <2>2. ~uploader_quit /\ mpc \notin {"shutdown", "join_uploader"}
      BY <2>1 DEF QuitInv
    <2>3. upc \notin {"final", "check_final"} /\ ~(last_retry_count > 0)
      BY <2>2 DEF QuitInv
    <2> QED BY <1>1, <2>2, <2>3 DEF QuitInv
  <1>2. CASE UploaderStep /\ UNCHANGED <<mpc, uploader_quit, tpc>>
    <2>1. /\ upc' \in {"final", "check_final"} \/ last_retry_count' > 0 => uploader_quit
          /\ upc' = "check_final" => upload_backlog' = <<>>
      <3>1. CASE FinalRound
        BY <3>1 DEF FinalRound, Uploader, QuitInv
      <3>2. CASE Requeue \/ PopUpload \/ DropStale \/ UploadSucceeds \/ UploadFails \/ ReadFails
                 \/ ClearEvent \/ WakeUp \/ GiveUp
        BY <3>2 DEF Requeue, PopUpload, DropStale, UploadSucceeds, UploadFails, ReadFails,
                    ClearEvent, WakeUp, GiveUp, Uploader, QuitInv
      <3>3. CASE LeaveLoop \/ CheckBacklog
        BY <3>3 DEF LeaveLoop, CheckBacklog, AfterCheck, Uploader, QuitInv, queues
      <3>4. CASE BacklogEmpty
        BY <3>4 DEF BacklogEmpty, Uploader, QuitInv, queues
      <3>5. CASE CheckFinal
        BY <3>5 DEF CheckFinal, Uploader, QuitInv, queues
      <3> QED BY <1>2, <3>1, <3>2, <3>3, <3>4, <3>5 DEF UploaderStep
    <2> QED BY <1>2, <2>1 DEF QuitInv
  <1>3. CASE /\ MainStep
             /\ UNCHANGED <<upc, last_retry_count, upload_backlog, tpc>>
    <2>1. mpc' \in {"shutdown", "join_uploader"} \/ uploader_quit' =>
            \A c \in Clients : tpc[c] = "exited"
      BY <1>3 DEF MainStep, JoinClients, ShutdownUploader, JoinUploader, CheckProcess, FlagClient,
                  KillProcess, JoinAgain, QuitInv
    <2>2. uploader_quit => uploader_quit'
      BY <1>3 DEF MainStep, JoinClients, ShutdownUploader, JoinUploader, CheckProcess, FlagClient,
                  KillProcess, JoinAgain
    <2> QED BY <1>3, <2>1, <2>2 DEF QuitInv
  <1>4. CASE /\ mpc' \in {mpc, "terminate", "raised"}
             /\ UNCHANGED <<uploader_quit, upc, last_retry_count, upload_backlog, tpc>>
    BY <1>4 DEF QuitInv
  <1> QED BY <1>1, <1>2, <1>3, <1>4, StepBy

(* run(): no client can add a result any more when the uploader begins its *)
(* last rounds, so each of them ends with an empty queue. *)
THEOREM AssertionHolds == Spec => []FinalAssertion
  <1>1. Init => QuitInv
    BY DEF Init, QuitInv
  <1>2. PCType /\ QuitInv /\ [Next]_vars => QuitInv'
    BY QuitStep DEF PCType
  <1>3. QuitInv => FinalAssertion
    BY DEF QuitInv, FinalAssertion
  <1> QED BY <1>1, <1>2, <1>3, TypesAlways, PTL DEF Spec

(* A result that comes while the uploader is about to wait is noticed: the *)
(* check comes after clear(), and a client sets the event after it has     *)
(* appended. *)
LEMMA ArrivalStep ==
  ASSUME TypeOK, ArrivalNoticed, [Next]_vars
  PROVE  ArrivalNoticed'
  <1>1. ASSUME NEW c \in Clients,
               get_wu_full(c) \/ CancelGet(c) \/ ServerGone(c) \/ ClientStep(c), upc' = upc
        PROVE  ArrivalNoticed'
    <2>1. CASE schedule_upload(c)
      <3>1. tpc'[c] = "notify"
        BY <2>1 DEF schedule_upload, At, TypeOK
      <3> QED BY <3>1 DEF ArrivalNoticed
    <2>2. CASE NotifyUploader(c)
      BY <2>2 DEF NotifyUploader, ArrivalNoticed
    <2>3. CASE /\ upload_backlog' = upload_backlog /\ queue_event' = queue_event
               /\ tpc[c] # "notify"
      <3>1. \A d \in Clients : tpc[d] = "notify" => tpc'[d] = "notify"
        BY <1>1, <2>3, ThreadMoves
      <3> QED BY <1>1, <2>3, <3>1 DEF ArrivalNoticed
    <2>4. CASE get_wu_full(c) \/ CancelGet(c) \/ ServerGone(c) \/ run_commands(c) \/ OpenResult(c)
               \/ CommandEnds(c) \/ prepare_answer(c)
      BY <2>3, <2>4 DEF get_wu_full, CancelGet, ServerGone, run_commands, OpenResult, CommandEnds,
                        prepare_answer, HasProcess, At, notClients, queues
    <2> QED BY <1>1, <2>1, <2>2, <2>4 DEF ClientStep
  <1>2. CASE UploaderStep
    <2>1. upc' = "wait" => upload_backlog' = <<>>
      BY <1>2 DEF UploaderStep, Requeue, LeaveLoop, PopUpload, DropStale, UploadSucceeds,
                UploadFails, ReadFails, BacklogEmpty, ClearEvent, CheckBacklog, AfterCheck, WakeUp,
                FinalRound, GiveUp, CheckFinal, Uploader, queues
    <2> QED BY <2>1 DEF ArrivalNoticed
  <1>3. CASE MainStep /\ UNCHANGED <<upc, upload_backlog, tpc>>
    <2>1. queue_event => queue_event'
      BY <1>3 DEF MainStep, JoinClients, ShutdownUploader, JoinUploader, CheckProcess, FlagClient,
                  KillProcess, JoinAgain, notMain, queues
    <2> QED BY <1>3, <2>1 DEF ArrivalNoticed
  <1>4. CASE UNCHANGED <<upc, upload_backlog, queue_event, tpc>>
    BY <1>4 DEF ArrivalNoticed
  <1> QED BY <1>1, <1>2, <1>3, <1>4, StepBy

(* No result is left lying because of a lost wakeup: schedule_upload()     *)
(* appends and then sets, process_uploads() empties, then the uploader     *)
(* clears and looks again. *)
THEOREM NoArrivalMissed == Spec => []ArrivalNoticed
  <1>1. Init => ArrivalNoticed
    BY DEF Init, ArrivalNoticed
  <1>2. PCType /\ ArrivalNoticed /\ [Next]_vars => ArrivalNoticed'
    BY ArrivalStep DEF PCType
  <1> QED BY <1>1, <1>2, TypesAlways, PTL DEF Spec

-------------------------------------------------------------------------------
(* Counting a workunit in the queues. *)

(* The count is a number, and a sequence of one element has it once or not *)
(* at all. *)
LEMMA TimesType ==
  ASSUME NEW w, NEW s \in Seq(WUs)
  PROVE  Times(w, s) \in Nat /\ IsFiniteSet({i \in 1 .. Len(s) : s[i] = w})
  <1>1. IsFiniteSet(1 .. Len(s)) /\ {i \in 1 .. Len(s) : s[i] = w} \in SUBSET (1 .. Len(s))
    BY FS_Interval
  <1> QED BY <1>1, FS_Subset, FS_CardinalityType DEF Times

LEMMA TimesOfOne ==
  ASSUME NEW w, NEW x \in WUs
  PROVE  Times(w, <<x>>) = Counted(x = w) /\ Times(w, <<>>) = 0
  <1>0. Times(w, <<>>) = 0
    <2>1. {i \in 1 .. Len(<<>>) : <<>>[i] = w} = {}
      OBVIOUS
    <2> QED BY <2>1, FS_EmptySet DEF Times
  <1>1. Len(<<x>>) = 1 /\ <<x>>[1] = x
    OBVIOUS
  <1>2. CASE x = w
    <2>1. {i \in 1 .. Len(<<x>>) : <<x>>[i] = w} = {1}
      BY <1>1, <1>2
    <2>2. Times(w, <<x>>) = 1
      BY <2>1, FS_Singleton DEF Times
    <2>3. Counted(x = w) = 1
      BY <1>2 DEF Counted
    <2> QED BY <2>2, <2>3, <1>0
  <1>3. CASE x # w
    <2>1. {i \in 1 .. Len(<<x>>) : <<x>>[i] = w} = {}
      BY <1>1, <1>3
    <2>2. Times(w, <<x>>) = 0
      BY <2>1, FS_EmptySet DEF Times
    <2>3. Counted(x = w) = 0
      BY <1>3 DEF Counted
    <2> QED BY <2>2, <2>3, <1>0
  <1> QED BY <1>2, <1>3

(* Two sequences, one after the other, have it as often as both together.  *)
LEMMA TimesConcat ==
  ASSUME NEW w, NEW s \in Seq(WUs), NEW t \in Seq(WUs)
  PROVE  Times(w, s \o t) = Times(w, s) + Times(w, t)
  <1> DEFINE m == Len(s)
             n == Len(t)
             A == {i \in 1 .. m : s[i] = w}
             B == {i \in 1 .. n : t[i] = w}
             C == {i \in m + 1 .. m + n : t[i - m] = w}
             shift == [i \in B |-> i + m]
  <1>1. m \in Nat /\ n \in Nat
    OBVIOUS
  <1>2. {i \in 1 .. Len(s \o t) : (s \o t)[i] = w} = A \cup C
    <2>1. /\ Len(s \o t) = m + n
          /\ \A i \in 1 .. m + n : (s \o t)[i] = IF i <= m THEN s[i] ELSE t[i - m]
      BY ConcatProperties
    <2> HIDE DEF m, n
    <2>2. \A i \in 1 .. m + n : (s \o t)[i] = w <=> i \in A \cup C
      BY <1>1, <2>1
    <2>3. A \cup C \subseteq 1 .. m + n
      BY <1>1
    <2> QED BY <2>1, <2>2, <2>3
  <1>3. IsFiniteSet(A) /\ IsFiniteSet(B) /\ Cardinality(A) \in Nat
    BY TimesType DEF Times
  <1>4. shift \in Bijection(B, C)
    <2> HIDE DEF m, n
    <2>1. shift \in [B -> C]
      BY <1>1
    <2>2. \A a, b \in B : shift[a] = shift[b] => a = b
      BY <1>1
    <2>3. \A j \in C : \E i \in B : shift[i] = j
      <3>1. ASSUME NEW j \in C PROVE j - m \in B /\ shift[j - m] = j
        BY <1>1
      <3> QED BY <3>1
    <2> HIDE DEF B, C, shift
    <2> QED BY <2>1, <2>2, <2>3, Fun_IsBij
  <1>5. IsFiniteSet(C) /\ Cardinality(C) = Cardinality(B)
    <2>1. ExistsBijection(B, C)
      BY <1>4 DEF ExistsBijection
    <2> QED BY <1>3, <2>1, FS_Bijection
  <1>6. A \cap C = {}
    <2> HIDE DEF m, n
    <2> QED BY <1>1
  <1>7. Cardinality(A \cup C) = Cardinality(A) + Cardinality(C)
    <2>1. Cardinality(C) \in Nat /\ Cardinality(A \cap C) = 0
      BY <1>5, <1>6, FS_EmptySet, FS_CardinalityType
    <2>2. Cardinality(A \cup C) = Cardinality(A) + Cardinality(C) - Cardinality(A \cap C)
      <3> HIDE DEF A, C
      <3> QED BY <1>3, <1>5, FS_Union
    <2> QED BY <1>3, <2>1, <2>2
  <1> QED BY <1>2, <1>5, <1>7 DEF Times

(* Adding to a queue, taking its first element and splitting it. *)
LEMMA TimesOfQueue ==
  ASSUME NEW w \in WUs, NEW s \in Seq(WUs)
  PROVE  /\ \A x \in WUs : Times(w, Append(s, x)) = Times(w, s) + Counted(x = w)
         /\ s # <<>> => Times(w, s) = Counted(Head(s) = w) + Times(w, Tail(s))
         /\ \A k \in 0 .. Len(s) :
              Times(w, s) = Times(w, SubSeq(s, 1, k)) + Times(w, SubSeq(s, k + 1, Len(s)))
  <1>1. ASSUME NEW x \in WUs PROVE Times(w, Append(s, x)) = Times(w, s) + Counted(x = w)
    <2>1. Append(s, x) = s \o <<x>> /\ <<x>> \in Seq(WUs)
      BY AppendIsConcat
    <2>2. Times(w, s \o <<x>>) = Times(w, s) + Times(w, <<x>>)
      BY <2>1, TimesConcat
    <2>3. Times(w, <<x>>) = Counted(x = w)
      BY TimesOfOne
    <2> QED BY <2>1, <2>2, <2>3, Zenon
  <1>2. ASSUME s # <<>> PROVE Times(w, s) = Counted(Head(s) = w) + Times(w, Tail(s))
    <2>1. /\ s = <<Head(s)>> \o Tail(s) /\ <<Head(s)>> \in Seq(WUs) /\ Tail(s) \in Seq(WUs)
          /\ Head(s) \in WUs
      BY <1>2
    <2>2. Times(w, <<Head(s)>> \o Tail(s)) = Times(w, <<Head(s)>>) + Times(w, Tail(s))
      BY <2>1, TimesConcat
    <2>3. Times(w, <<Head(s)>>) = Counted(Head(s) = w)
      BY <2>1, TimesOfOne
    <2>4. Times(w, s) = Times(w, <<Head(s)>> \o Tail(s))
      BY <2>1, Zenon
    <2> QED BY <2>2, <2>3, <2>4, Zenon
  <1>3. ASSUME NEW k \in 0 .. Len(s)
        PROVE  Times(w, s) = Times(w, SubSeq(s, 1, k)) + Times(w, SubSeq(s, k + 1, Len(s)))
    <2>1. SubSeq(s, 1, k) \o SubSeq(s, k + 1, Len(s)) = SubSeq(s, 1, Len(s))
      <3>1. 1 \in 1 .. Len(s) + 1 /\ k \in 1 - 1 .. Len(s) /\ Len(s) \in k .. Len(s)
        OBVIOUS
      <3> QED BY <3>1, ConcatAdjacentSubSeq
    <2>2. SubSeq(s, 1, Len(s)) = s
      BY SubSeqFull
    <2>3. SubSeq(s, 1, k) \in Seq(WUs) /\ SubSeq(s, k + 1, Len(s)) \in Seq(WUs)
      BY QueueType
    <2> QED BY <2>1, <2>2, <2>3, TimesConcat
  <1> QED BY <1>1, <1>2, <1>3

(* The client threads that are about to append w. *)
Scheduling(w) == {c \in Clients : tpc[c] = "schedule" /\ workunit[c] = w}

LEMMA SchedulingType ==
  ASSUME PCType, NEW w \in WUs
  PROVE  IsFiniteSet(Scheduling(w)) /\ Cardinality(Scheduling(w)) \in Nat
  <1>1. Scheduling(w) \in SUBSET {holder[w]}
    BY DEF PCType, HandsInv, Scheduling, Working, TPcs
  <1> QED BY <1>1, FS_Singleton, FS_Subset, FS_CardinalityType

(* A client thread becomes one of them, ... *)
LEMMA SchedulingMoves ==
  ASSUME PCType, NEW w \in WUs, NEW c \in Clients, NEW x,
         tpc' = [tpc EXCEPT ![c] = x]
  PROVE  /\ tpc[c] # "schedule" /\ x # "schedule"
              /\ (\A d \in Clients \ {c} : workunit'[d] = workunit[d]) =>
            Scheduling(w)' = Scheduling(w)
         /\ tpc[c] # "schedule" /\ x = "schedule" /\ workunit' = workunit =>
            Cardinality(Scheduling(w)') = Cardinality(Scheduling(w)) + Counted(workunit[c] = w)
  <1>0. tpc'[c] = x /\ \A d \in Clients \ {c} : tpc'[d] = tpc[d]
    BY DEF PCType, TypeOK
  <1>1. ASSUME tpc[c] # "schedule", x # "schedule",
               \A d \in Clients \ {c} : workunit'[d] = workunit[d]
        PROVE  Scheduling(w)' = Scheduling(w)
    BY <1>0, <1>1 DEF Scheduling
  <1>2. ASSUME tpc[c] # "schedule", x = "schedule", workunit' = workunit
        PROVE  Cardinality(Scheduling(w)')
                 = Cardinality(Scheduling(w)) + Counted(workunit[c] = w)
    <2>1. CASE workunit[c] = w
      <3>1. Scheduling(w)' = Scheduling(w) \cup {c} /\ c \notin Scheduling(w)
        BY <1>0, <1>2, <2>1 DEF Scheduling
      <3> QED BY <2>1, <3>1, SchedulingType, FS_AddElement DEF Counted
    <2>2. CASE workunit[c] # w
      <3>1. Scheduling(w)' = Scheduling(w)
        BY <1>0, <1>2, <2>2 DEF Scheduling
      <3> QED BY <2>2, <3>1, SchedulingType DEF Counted
    <2> QED BY <2>1, <2>2
  <1> QED BY <1>1, <1>2

(* ... or stops to be one. *)
LEMMA SchedulingLeft ==
  ASSUME PCType, NEW w \in WUs, NEW c \in Clients, tpc[c] = "schedule",
         tpc' = [tpc EXCEPT ![c] = "notify"], workunit' = workunit
  PROVE  Cardinality(Scheduling(w)') = Cardinality(Scheduling(w)) - Counted(workunit[c] = w)
  <1>0. tpc'[c] = "notify" /\ \A d \in Clients \ {c} : tpc'[d] = tpc[d]
    BY DEF PCType, TypeOK
  <1>1. CASE workunit[c] = w
    <2>1. Scheduling(w)' = Scheduling(w) \ {c} /\ c \in Scheduling(w)
      BY <1>0, <1>1 DEF Scheduling
    <2> QED BY <1>1, <2>1, SchedulingType, FS_RemoveElement DEF Counted
  <1>2. CASE workunit[c] # w
    <2>1. Scheduling(w)' = Scheduling(w)
      BY <1>0, <1>2 DEF Scheduling
    <2> QED BY <1>2, <2>1, SchedulingType DEF Counted
  <1> QED BY <1>1, <1>2

(* No answer is prepared twice, and the uploader's hands are empty but     *)
(* during an upload. *)
AnswerInv ==
  /\ \A c \in Clients : tpc[c] \in Unanswered => answer[workunit[c]] = "none"
  /\ \A w \in WUs : answer[w] # "none" => holder[w] # NoClient
  /\ upc \notin {"attempt", "died"} => p = NoWU

(* Any step keeps that. *)
LEMMA AnswerStep ==
  ASSUME PCType, AnswerInv, [Next]_vars
  PROVE  AnswerInv'
  <1>1. ASSUME NEW c \in Clients,
               get_wu_full(c) \/ CancelGet(c) \/ ServerGone(c) \/ ClientStep(c),
               UNCHANGED <<upc, p>>
        PROVE  AnswerInv'
    <2>1. CASE get_wu_full(c)
      <3>1. PICK w \in WUs :
              /\ Offered(w)
              /\ workunit' = [workunit EXCEPT ![c] = w]
              /\ holder' = [holder EXCEPT ![w] = c]
        BY <2>1 DEF get_wu_full
      <3>2. answer' = answer /\ answer[w] = "none"
        BY <2>1, <3>1 DEF get_wu_full, Offered, AnswerInv
      <3>3. \A d \in Clients \ {c} : tpc'[d] = tpc[d] /\ workunit'[d] = workunit[d]
        BY <2>1, <3>1 DEF get_wu_full, At, PCType, TypeOK
      <3>4. workunit'[c] = w /\ \A v \in WUs : v # w => holder'[v] = holder[v]
        BY <3>1 DEF PCType, TypeOK
      <3> QED BY <1>1, <3>2, <3>3, <3>4 DEF AnswerInv
    <2>2. CASE CancelGet(c) \/ ServerGone(c) \/ schedule_upload(c) \/ NotifyUploader(c)
      <3>1. answer' = answer /\ holder' = holder /\ tpc'[c] \notin Unanswered
        BY <2>2 DEF CancelGet, ServerGone, schedule_upload, NotifyUploader, At, notClients,
                    notUploader, server, PCType, TypeOK, Unanswered
      <3>2. \A d \in Clients \ {c} : tpc'[d] = tpc[d] /\ workunit'[d] = workunit[d]
        BY <2>2 DEF CancelGet, ServerGone, schedule_upload, NotifyUploader, At, PCType, TypeOK
      <3> QED BY <1>1, <3>1, <3>2 DEF AnswerInv
    <2>3. CASE run_commands(c) \/ OpenResult(c) \/ CommandEnds(c)
      <3>1. answer' = answer /\ holder' = holder /\ workunit' = workunit /\ tpc[c] \in Unanswered
        BY <2>3 DEF run_commands, OpenResult, CommandEnds, At, HasProcess, notClients, server,
                    Unanswered
      <3>2. \A d \in Clients \ {c} : tpc'[d] = tpc[d]
        BY <2>3, ThreadMoves DEF ClientStep, PCType
      <3> QED BY <1>1, <3>1, <3>2 DEF AnswerInv
    <2>4. CASE prepare_answer(c)
      <3>1. /\ holder' = holder /\ workunit' = workunit /\ tpc'[c] \notin Unanswered
            /\ tpc[c] \in Working
        BY <2>4 DEF prepare_answer, notClients, server, PCType, TypeOK, Working, TPcs, Unanswered
      <3>2. \A d \in Clients \ {c} : tpc'[d] = tpc[d]
        BY <2>4, ThreadMoves DEF ClientStep, PCType
      <3>3. holder[workunit[c]] = c /\ workunit[c] \in WUs /\ c # NoClient
        BY <3>1, PCAssumption DEF PCType, HandsInv, PCAssumption
      <3>4. \A v \in WUs : v # workunit[c] => answer'[v] = answer[v]
        BY <2>4 DEF prepare_answer, PCType, TypeOK
      <3>5. \A d \in Clients : tpc'[d] \in Unanswered =>
              /\ d # c /\ tpc[d] \in Unanswered /\ workunit[d] \in WUs
              /\ workunit[d] # workunit[c]
        BY <3>1, <3>2, <3>3 DEF PCType, HandsInv, Working, Unanswered, TPcs
      <3> QED BY <1>1, <3>1, <3>3, <3>4, <3>5 DEF AnswerInv
    <2> QED BY <1>1, <2>1, <2>2, <2>3, <2>4 DEF ClientStep
  <1>2. ASSUME UploaderStep, UNCHANGED <<tpc, workunit, answer, holder>>
        PROVE  AnswerInv'
    <2>1. upc' \notin {"attempt", "died"} => p' = NoWU
      BY <1>2 DEF UploaderStep, Requeue, LeaveLoop, PopUpload, DropStale, UploadSucceeds,
                UploadFails, ReadFails, BacklogEmpty, ClearEvent, CheckBacklog, AfterCheck, WakeUp,
                FinalRound, GiveUp, CheckFinal, Uploader, uploads, AnswerInv
    <2> QED BY <1>2, <2>1 DEF AnswerInv
  <1>3. ASSUME UNCHANGED <<upc, p, tpc, workunit, answer, holder>>
        PROVE  AnswerInv'
    BY <1>3 DEF AnswerInv
  <1> QED BY <1>1, <1>2, <1>3, StepBy

(* What is added up in Places(w) are numbers. *)
LEMMA PlacesType ==
  ASSUME PCType, NEW w \in WUs
  PROVE  /\ Cardinality(Scheduling(w)) \in Nat
         /\ Times(w, upload_backlog) \in Nat /\ Times(w, to_retry) \in Nat
         /\ Places(w) = Cardinality(Scheduling(w)) + Times(w, upload_backlog)
                          + Times(w, to_retry) + Counted(p = w) + Counted(w \in delivered)
                          + Counted(w \in expired)
  BY SchedulingType, TimesType DEF PCType, TypeOK, Places, Scheduling

(* A client thread moves its result from its hands to the queue. *)
LEMMA PlacesOfClients ==
  ASSUME PCType, AnswerInv, ResultInOnePlace, NEW c \in Clients,
         get_wu_full(c) \/ CancelGet(c) \/ ServerGone(c) \/ ClientStep(c),
         UNCHANGED <<p, to_retry, delivered, expired>>, NEW w \in WUs
  PROVE  Places(w)' = Counted(answer'[w] # "none")
  <1>0. PICK x : tpc' = [tpc EXCEPT ![c] = x]
    BY DEF get_wu_full, CancelGet, ServerGone, ClientStep, run_commands, OpenResult,
           CommandEnds, prepare_answer, schedule_upload, NotifyUploader, At
  <1>1. Places(w)' = Cardinality(Scheduling(w)') + Times(w, upload_backlog') + Times(w, to_retry)
                       + Counted(p = w) + Counted(w \in delivered) + Counted(w \in expired)
    BY DEF Places, Scheduling
  <1>2. Places(w) = Counted(answer[w] # "none")
    BY DEF ResultInOnePlace
  <1>3. tpc'[c] = x
    BY <1>0 DEF PCType, TypeOK
  <1>4. CASE /\ tpc[c] # "schedule" /\ x # "schedule" /\ upload_backlog' = upload_backlog
             /\ answer' = answer /\ \A d \in Clients \ {c} : workunit'[d] = workunit[d]
    <2>1. Scheduling(w)' = Scheduling(w)
      BY <1>0, <1>4, SchedulingMoves
    <2> QED BY <1>1, <1>2, <1>4, <2>1, PlacesType
  <1>5. CASE \/ get_wu_full(c) \/ CancelGet(c) \/ ServerGone(c) \/ run_commands(c)
             \/ OpenResult(c) \/ CommandEnds(c) \/ NotifyUploader(c)
    <2>1. tpc[c] # "schedule" /\ tpc'[c] # "schedule"
      BY <1>5 DEF get_wu_full, CancelGet, ServerGone, run_commands, OpenResult,
                  CommandEnds, NotifyUploader, At, HasProcess, PCType, TypeOK
    <2>2. upload_backlog' = upload_backlog /\ answer' = answer
      BY <1>5 DEF get_wu_full, CancelGet, ServerGone, run_commands, OpenResult,
                  CommandEnds, NotifyUploader, notClients, queues
    <2>3. \A d \in Clients \ {c} : workunit'[d] = workunit[d]
      BY <1>5 DEF get_wu_full, CancelGet, ServerGone, run_commands, OpenResult,
                  CommandEnds, NotifyUploader, PCType, TypeOK
    <2> QED BY <1>3, <1>4, <2>1, <2>2, <2>3
  <1>6. CASE prepare_answer(c)
    <2>1. /\ tpc[c] \in Unanswered /\ tpc[c] # "schedule" /\ x = "schedule"
          /\ workunit' = workunit /\ upload_backlog' = upload_backlog
      BY <1>3, <1>6 DEF prepare_answer, Unanswered, notClients, queues, PCType, TypeOK
    <2>2. Cardinality(Scheduling(w)') = Cardinality(Scheduling(w)) + Counted(workunit[c] = w)
      BY <1>0, <2>1, SchedulingMoves
    <2>3. answer[workunit[c]] = "none"
      BY <2>1 DEF AnswerInv
    <2>4. CASE workunit[c] = w
      <3>1. answer'[w] # "none"
        BY <1>6, <2>4 DEF prepare_answer, PCType, TypeOK
      <3>2. Counted(answer[w] # "none") = 0 /\ Counted(answer'[w] # "none") = 1
            /\ Counted(workunit[c] = w) = 1
        BY <2>3, <2>4, <3>1 DEF Counted
      <3> QED BY <1>1, <1>2, <2>1, <2>2, <3>2, PlacesType DEF Counted
    <2>5. CASE workunit[c] # w
      <3>1. answer'[w] = answer[w] /\ Counted(workunit[c] = w) = 0
        BY <1>6, <2>5 DEF prepare_answer, Counted, PCType, TypeOK
      <3> QED BY <1>1, <1>2, <2>1, <2>2, <3>1, PlacesType
    <2> QED BY <2>4, <2>5
  <1>7. CASE schedule_upload(c)
    <2>1. /\ tpc[c] = "schedule" /\ workunit' = workunit /\ answer' = answer
          /\ tpc' = [tpc EXCEPT ![c] = "notify"]
          /\ upload_backlog' = Append(upload_backlog, workunit[c])
      BY <1>3, <1>7 DEF schedule_upload, At, PCType, TypeOK
    <2>2. Cardinality(Scheduling(w)') = Cardinality(Scheduling(w)) - Counted(workunit[c] = w)
      BY <2>1, SchedulingLeft
    <2>3. workunit[c] \in WUs /\ upload_backlog \in Seq(WUs)
      BY <2>1 DEF PCType, TypeOK, HandsInv, Working, TPcs
    <2>4. Times(w, upload_backlog') = Times(w, upload_backlog) + Counted(workunit[c] = w)
      BY <2>1, <2>3, TimesOfQueue
    <2> QED BY <1>1, <1>2, <2>1, <2>2, <2>4, PlacesType DEF Counted
  <1> QED BY <1>5, <1>6, <1>7 DEF ClientStep

(* The uploader moves a result from one of its places to another. *)
LEMMA PlacesOfUploader ==
  ASSUME PCType, AnswerInv, ResultInOnePlace, UploaderStep, UNCHANGED <<tpc, workunit, answer>>,
         NEW w \in WUs
  PROVE  Places(w)' = Counted(answer'[w] # "none")
  <1>1. Places(w)' = Cardinality(Scheduling(w)) + Times(w, upload_backlog') + Times(w, to_retry')
                       + Counted(p' = w) + Counted(w \in delivered') + Counted(w \in expired')
    BY DEF Places, Scheduling
  <1>2. Places(w) = Counted(answer[w] # "none") /\ Places(w) \in {0, 1} /\ answer' = answer
    BY DEF ResultInOnePlace, Counted
  <1>3. ASSUME \/ Times(w, upload_backlog') + Times(w, to_retry') + Counted(p' = w)
                    + Counted(w \in delivered') + Counted(w \in expired')
                  = Times(w, upload_backlog) + Times(w, to_retry) + Counted(p = w)
                    + Counted(w \in delivered) + Counted(w \in expired),
               Times(w, upload_backlog') \in Nat, Times(w, to_retry') \in Nat
        PROVE  Places(w)' = Counted(answer'[w] # "none")
    BY <1>1, <1>2, <1>3, PlacesType DEF Counted
  <1>4. upload_backlog \in Seq(WUs) /\ to_retry \in Seq(WUs)
    BY DEF PCType, TypeOK
  <1>5. CASE LeaveLoop \/ ReadFails \/ BacklogEmpty \/ ClearEvent \/ CheckBacklog \/ WakeUp
             \/ GiveUp \/ CheckFinal
    <2>1. UNCHANGED <<upload_backlog, to_retry, p, delivered, expired>>
      BY <1>5 DEF LeaveLoop, ReadFails, BacklogEmpty, ClearEvent, CheckBacklog, WakeUp,
                  GiveUp, CheckFinal, queues, uploads
    <2> QED BY <1>3, <2>1, PlacesType
  <1>6. CASE Requeue
    <2> DEFINE n == Len(to_retry)
    <2>1. PICK k \in 0 .. n :
            /\ upload_backlog' = upload_backlog \o SubSeq(to_retry, 1, k)
            /\ to_retry' = SubSeq(to_retry, k + 1, n)
      BY <1>6 DEF Requeue
    <2>2. SubSeq(to_retry, 1, k) \in Seq(WUs) /\ SubSeq(to_retry, k + 1, n) \in Seq(WUs)
      BY <1>4, QueueType
    <2>3. Times(w, upload_backlog')
            = Times(w, upload_backlog) + Times(w, SubSeq(to_retry, 1, k))
      BY <1>4, <2>1, <2>2, TimesConcat
    <2>4. Times(w, to_retry) = Times(w, SubSeq(to_retry, 1, k)) + Times(w, to_retry')
      BY <1>4, <2>1, TimesOfQueue
    <2>5. Times(w, SubSeq(to_retry, 1, k)) \in Nat /\ Times(w, to_retry') \in Nat
      BY <2>1, <2>2, TimesType
    <2>6. UNCHANGED <<p, delivered, expired>>
      BY <1>6 DEF Requeue, uploads
    <2> HIDE DEF n
    <2> QED BY <1>3, <2>3, <2>4, <2>5, <2>6, PlacesType DEF Counted
  <1>7. CASE PopUpload
    <2>1. /\ upload_backlog # <<>> /\ p' = Head(upload_backlog)
          /\ upload_backlog' = Tail(upload_backlog) /\ p = NoWU
          /\ UNCHANGED <<to_retry, delivered, expired>>
      BY <1>7 DEF PopUpload, Uploader, AnswerInv
    <2>2. Times(w, upload_backlog) = Counted(p' = w) + Times(w, upload_backlog')
      BY <1>4, <2>1, TimesOfQueue
    <2>3. Counted(p = w) = 0
      BY <2>1, NoWUNotWU DEF Counted
    <2>4. Times(w, upload_backlog') \in Nat
      <3>1. upload_backlog' \in Seq(WUs)
        BY <1>4, <2>1
      <3> QED BY <3>1, TimesType
    <2> QED BY <1>3, <2>1, <2>2, <2>3, <2>4, PlacesType DEF Counted
  <1>8. CASE DropStale
    <2>1. /\ upload_backlog # <<>> /\ upload_backlog' = Tail(upload_backlog)
          /\ expired' = expired \cup {Head(upload_backlog)}
          /\ UNCHANGED <<to_retry, p, delivered>>
      BY <1>8 DEF DropStale
    <2>2. Times(w, upload_backlog) = Counted(Head(upload_backlog) = w) + Times(w, upload_backlog')
      BY <1>4, <2>1, TimesOfQueue
    <2>4. Times(w, upload_backlog') \in Nat
      <3>1. upload_backlog' \in Seq(WUs)
        BY <1>4, <2>1
      <3> QED BY <3>1, TimesType
    <2>5. Counted(w \in expired') = Counted(Head(upload_backlog) = w) + Counted(w \in expired)
      <3>1. CASE Head(upload_backlog) = w
        <4>1. Counted(Head(upload_backlog) = w) = 1
          BY <3>1 DEF Counted
        <4>2. Counted(w \in expired) = 0
          BY <1>2, <2>2, <2>4, <4>1, PlacesType DEF Counted
        <4> QED BY <2>1, <3>1, <4>1, <4>2 DEF Counted
      <3>2. CASE Head(upload_backlog) # w
        BY <2>1, <3>2 DEF Counted
      <3> QED BY <3>1, <3>2
    <2> QED BY <1>3, <2>1, <2>2, <2>4, <2>5, PlacesType DEF Counted
  <1>9. CASE UploadSucceeds
    <2>1. /\ p' = NoWU /\ delivered' = delivered \cup {p}
          /\ UNCHANGED <<upload_backlog, to_retry, expired>>
      BY <1>9 DEF UploadSucceeds, queues
    <2>2. Counted(p' = w) = 0
      BY <2>1, NoWUNotWU DEF Counted
    <2>3. Counted(w \in delivered') = Counted(p = w) + Counted(w \in delivered)
      <3>1. CASE p = w
        <4>1. Counted(p = w) = 1
          BY <3>1 DEF Counted
        <4>2. Counted(w \in delivered) = 0
          BY <1>2, <4>1, PlacesType DEF Counted
        <4> QED BY <2>1, <3>1, <4>1, <4>2 DEF Counted
      <3>2. CASE p # w
        BY <2>1, <3>2 DEF Counted
      <3> QED BY <3>1, <3>2
    <2> QED BY <1>3, <2>1, <2>2, <2>3, PlacesType DEF Counted
  <1>10. CASE UploadFails
    <2>1. /\ p' = NoWU /\ to_retry' = Append(to_retry, p) /\ p \in WUs
          /\ UNCHANGED <<upload_backlog, delivered, expired>>
      BY <1>10 DEF UploadFails, Uploader, PCType, HandsInv
    <2>2. Counted(p' = w) = 0
      BY <2>1, NoWUNotWU DEF Counted
    <2>3. Times(w, to_retry') = Times(w, to_retry) + Counted(p = w)
      BY <1>4, <2>1, TimesOfQueue
    <2>4. Times(w, to_retry') \in Nat
      BY <2>3, PlacesType DEF Counted
    <2> QED BY <1>3, <2>1, <2>2, <2>3, <2>4, PlacesType DEF Counted
  <1>11. CASE FinalRound
    <2>1. /\ upload_backlog' = upload_backlog \o to_retry /\ to_retry' = <<>>
          /\ UNCHANGED <<p, delivered, expired>>
      BY <1>11 DEF FinalRound, uploads
    <2>2. Times(w, upload_backlog') = Times(w, upload_backlog) + Times(w, to_retry)
      BY <1>4, <2>1, TimesConcat
    <2>3. Times(w, to_retry') = 0
      BY <2>1, TimesOfOne
    <2> QED BY <1>3, <2>1, <2>2, <2>3, PlacesType DEF Counted
  <1> QED BY <1>5, <1>6, <1>7, <1>8, <1>9, <1>10, <1>11 DEF UploaderStep

(* "Transfer ownership of processor": the two queues, the hands of the     *)
(* threads, the server and the results that are too old share the results  *)
(* out among them; none is lost and none is in two places. *)
THEOREM OwnershipKept == Spec => []ResultInOnePlace
  <1> DEFINE Inv == PCType /\ AnswerInv /\ ResultInOnePlace
  <1>1. Init => AnswerInv
    BY DEF Init, AnswerInv, Unanswered
  <1>2. Init => ResultInOnePlace
    <2> SUFFICES ASSUME Init, NEW w \in WUs
                 PROVE  Places(w) = Counted(answer[w] # "none")
      BY DEF ResultInOnePlace
    <2>1. Scheduling(w) = {}
      BY DEF Init, Scheduling
    <2>2. Times(w, upload_backlog) = 0 /\ Times(w, to_retry) = 0
      BY TimesOfOne DEF Init
    <2>3. /\ Counted(p = w) = 0 /\ Counted(w \in delivered) = 0 /\ Counted(w \in expired) = 0
          /\ Counted(answer[w] # "none") = 0
      BY NoWUNotWU DEF Init, Counted
    <2>4. Cardinality(Scheduling(w)) = 0
      BY <2>1, FS_EmptySet
    <2> QED BY <2>2, <2>3, <2>4 DEF Places, Scheduling
  <1>3. ASSUME Inv, [Next]_vars PROVE ResultInOnePlace'
    <2> SUFFICES ASSUME NEW w \in WUs
                 PROVE  Places(w)' = Counted(answer'[w] # "none")
      BY DEF ResultInOnePlace
    <2>1. CASE UNCHANGED <<p, upload_backlog, to_retry, delivered, expired, tpc, workunit, answer>>
      BY <1>3, <2>1 DEF ResultInOnePlace, Places
    <2> QED BY <1>3, <2>1, StepBy, PlacesOfClients, PlacesOfUploader
  <1>4. PCType /\ AnswerInv /\ [Next]_vars => AnswerInv'
    BY AnswerStep
  <1> QED BY <1>1, <1>2, <1>3, <1>4, TypesAlways, PTL DEF Spec

-------------------------------------------------------------------------------
(* The result files. *)

(* The client of w was given another attempt of its range, too. *)
Again(w) == \E v \in WUs \ {w} : v[1] = w[1] /\ holder[v] = holder[w]

(* A client thread whose command has opened the result file finds it, or   *)
(* was given another attempt of the range before. *)
FileInv ==
  \A c \in Clients :
    tpc[c] \in {"writing", "answer"} /\ file[c][workunit[c][1]] = NoWU =>
      Again(workunit[c])

(* A workunit stays with the client it was given to. *)
LEMMA HolderStays ==
  ASSUME PCType, [Next]_vars, NEW v \in WUs, holder[v] # NoClient
  PROVE  holder'[v] = holder[v]
  <1>1. ASSUME NEW c \in Clients, get_wu_full(c) PROVE holder'[v] = holder[v]
    BY <1>1 DEF get_wu_full, Offered, PCType, TypeOK
  <1>2. ASSUME NEW c \in Clients, CancelGet(c) \/ ServerGone(c) \/ ClientStep(c)
        PROVE  holder' = holder
    BY <1>2 DEF CancelGet, ServerGone, ClientStep, run_commands, OpenResult, CommandEnds,
                prepare_answer, schedule_upload, NotifyUploader, notClients, notUploader, server
  <1> QED BY <1>1, <1>2, StepBy

LEMMA AgainStays ==
  ASSUME PCType, [Next]_vars, NEW w \in WUs, Again(w), holder[w] # NoClient
  PROVE  \E v \in WUs \ {w} : v[1] = w[1] /\ holder'[v] = holder'[w]
  <1>1. PICK v \in WUs \ {w} : v[1] = w[1] /\ holder[v] = holder[w]
    BY DEF Again
  <1>2. holder'[v] = holder[v] /\ holder'[w] = holder[w]
    BY <1>1, HolderStays
  <1> QED BY <1>1, <1>2

(* What is in the queue is in a place. *)
LEMMA QueuedIsPlaced ==
  ASSUME PCType, NEW w \in WUs, Times(w, upload_backlog) # 0
  PROVE  Places(w) # 0
  <1> DEFINE a == Cardinality(Scheduling(w))
             b == Times(w, upload_backlog)
             c == Times(w, to_retry)
             d == Counted(p = w)
             e == Counted(w \in delivered)
             f == Counted(w \in expired)
  <1>1. a \in Nat /\ b \in Nat /\ c \in Nat /\ Places(w) = a + b + c + d + e + f
    BY PlacesType
  <1>2. d \in Nat /\ e \in Nat /\ f \in Nat
    BY DEF Counted
  <1>3. b # 0
    OBVIOUS
  <1> HIDE DEF a, b, c, d, e, f
  <1> QED BY <1>1, <1>2, <1>3

(* The uploader removes only files of results that were prepared. *)
LEMMA CleanedUp ==
  ASSUME PCType, ResultInOnePlace, UploaderStep
  PROVE  \/ file' = file
         \/ \E x \in WUs : answer[x] # "none" /\ SetFile(holder[x], x[1], NoWU)
  <1>1. CASE UploadSucceeds
    <2>1. p \in WUs /\ cleanup(p)
      BY <1>1 DEF UploadSucceeds, Uploader, PCType, HandsInv
    <2>2. Counted(p = p) = 1
      BY DEF Counted
    <2>3. Places(p) # 0
      BY <2>1, <2>2, PlacesType DEF Counted
    <2>4. answer[p] # "none"
      BY <2>1, <2>3 DEF ResultInOnePlace, Counted
    <2> QED BY <2>1, <2>4 DEF cleanup
  <1>2. CASE DropStale
    <2> DEFINE x == Head(upload_backlog)
    <2>1. upload_backlog \in Seq(WUs) /\ upload_backlog # <<>> /\ cleanup(x)
      BY <1>2 DEF DropStale, PCType, TypeOK
    <2>2. x \in WUs /\ Tail(upload_backlog) \in Seq(WUs)
      BY <2>1
    <2> HIDE DEF x
    <2>3. Times(x, upload_backlog) = Counted(Head(upload_backlog) = x)
                                       + Times(x, Tail(upload_backlog))
      BY <2>1, <2>2, TimesOfQueue
    <2>4. /\ Counted(Head(upload_backlog) = x) = 1
          /\ Times(x, Tail(upload_backlog)) \in Nat
      BY <2>2, TimesType DEF Counted, x
    <2>5. Places(x) # 0
      <3>1. Times(x, upload_backlog) \in Nat /\ Times(x, upload_backlog) # 0
        BY <2>1, <2>3, <2>4, TimesType
      <3> QED BY <2>2, <3>1, QueuedIsPlaced
    <2>6. answer[x] # "none"
      BY <2>2, <2>5 DEF ResultInOnePlace, Counted
    <2> QED BY <2>1, <2>2, <2>6 DEF cleanup
  <1>3. CASE ~UploadSucceeds /\ ~DropStale
    BY <1>3 DEF UploaderStep, Requeue, LeaveLoop, PopUpload, UploadFails, ReadFails, BacklogEmpty,
                ClearEvent, CheckBacklog, WakeUp, FinalRound, GiveUp, CheckFinal, clients
  <1> QED BY <1>1, <1>2, <1>3

(* A step of a client thread touches its own files alone, and leaves a     *)
(* command that has opened its file with that file. *)
LEMMA OwnFiles ==
  ASSUME PCType, NEW c \in Clients,
         get_wu_full(c) \/ CancelGet(c) \/ ServerGone(c) \/ ClientStep(c)
  PROVE  /\ \A d \in Clients \ {c} : /\ tpc'[d] = tpc[d] /\ workunit'[d] = workunit[d]
                                     /\ file'[d] = file[d]
         /\ tpc'[c] \in {"writing", "answer"} =>
              /\ workunit'[c] = workunit[c] /\ tpc[c] \in Working
              /\ \/ file'[c][workunit[c][1]] # NoWU
                 \/ tpc[c] = "writing" /\ file' = file
  <1>1. CASE \/ get_wu_full(c) \/ CancelGet(c) \/ ServerGone(c) \/ prepare_answer(c)
             \/ schedule_upload(c) \/ NotifyUploader(c)
    BY <1>1 DEF get_wu_full, CancelGet, ServerGone, prepare_answer, schedule_upload,
                NotifyUploader, At, PCType, TypeOK
  <1>2. CASE CommandEnds(c)
    BY <1>2 DEF CommandEnds, HasProcess, PCType, TypeOK, Working, TPcs
  <1>3. CASE run_commands(c) \/ OpenResult(c)
    <2>1. /\ tpc[c] \in Working /\ workunit[c] \in WUs /\ workunit[c][1] \in Ranges
          /\ workunit' = workunit
      BY <1>3 DEF run_commands, OpenResult, At, PCType, HandsInv, Working, TPcs, WUs
    <2>2. \A d \in Clients \ {c} : tpc'[d] = tpc[d] /\ file'[d] = file[d]
      BY <1>3 DEF run_commands, OpenResult, At, SetFile, PCType, TypeOK
    <2>3. CASE OpenResult(c)
      <3>1. file'[c][workunit[c][1]] = workunit[c]
        BY <2>1, <2>3 DEF OpenResult, SetFile, PCType, TypeOK
      <3>2. file'[c][workunit[c][1]] # NoWU
        BY <2>1, <3>1, NoWUNotWU
      <3> QED BY <2>1, <2>2, <3>2
    <2>4. CASE run_commands(c)
      <3>1. tpc'[c] \in {"writing", "answer"} =>
              file' = file /\ file[c][workunit[c][1]] # NoWU
        BY <2>4 DEF run_commands, At, PCType, TypeOK
      <3> QED BY <2>1, <2>2, <3>1
    <2> QED BY <1>3, <2>3, <2>4
  <1> QED BY <1>1, <1>2, <1>3 DEF ClientStep

(* Any step keeps what is said of the files. *)
LEMMA FileStep ==
  ASSUME PCType, AnswerInv, ResultInOnePlace, FileInv, [Next]_vars
  PROVE  FileInv'
  <1>0. ASSUME NEW c \in Clients, tpc[c] \in Working
        PROVE  workunit[c] \in WUs /\ workunit[c][1] \in Ranges /\ holder[workunit[c]] = c
               /\ c # NoClient
    BY <1>0, PCAssumption DEF PCType, HandsInv, WUs, PCAssumption
  <1>1. ASSUME NEW c \in Clients, tpc[c] \in {"writing", "answer"},
               file[c][workunit[c][1]] = NoWU
        PROVE  \E v \in WUs \ {workunit[c]} :
                 v[1] = workunit[c][1] /\ holder'[v] = holder'[workunit[c]]
    <2>1. Again(workunit[c])
      BY <1>1 DEF FileInv
    <2>2. tpc[c] \in Working
      BY <1>1 DEF Working, TPcs
    <2> QED BY <1>0, <2>1, <2>2, AgainStays
  <1> SUFFICES ASSUME NEW c \in Clients, tpc'[c] \in {"writing", "answer"},
                      file'[c][workunit'[c][1]] = NoWU
               PROVE  \E v \in WUs \ {workunit'[c]} :
                        v[1] = workunit'[c][1] /\ holder'[v] = holder'[workunit'[c]]
    BY DEF FileInv, Again
  <1>2. CASE UNCHANGED <<tpc, workunit, file>>
    BY <1>1, <1>2
  <1>3. ASSUME NEW d \in Clients,
               get_wu_full(d) \/ CancelGet(d) \/ ServerGone(d) \/ ClientStep(d)
        PROVE  \E v \in WUs \ {workunit'[c]} :
                 v[1] = workunit'[c][1] /\ holder'[v] = holder'[workunit'[c]]
    <2>1. CASE c # d
      <3>1. tpc'[c] = tpc[c] /\ workunit'[c] = workunit[c] /\ file'[c] = file[c]
        BY <1>3, <2>1, OwnFiles
      <3> QED BY <1>1, <3>1
    <2>2. CASE c = d
      <3>1. /\ workunit'[c] = workunit[c] /\ tpc[c] = "writing" /\ file' = file
        BY <1>3, <2>2, OwnFiles
      <3> QED BY <1>1, <3>1
    <2> QED BY <2>1, <2>2
  <1>4. ASSUME UploaderStep, UNCHANGED <<tpc, workunit, answer, holder>>
        PROVE  \E v \in WUs \ {workunit'[c]} :
                 v[1] = workunit'[c][1] /\ holder'[v] = holder'[workunit'[c]]
    <2>1. CASE file' = file
      BY <1>2, <1>4, <2>1
    <2>2. ASSUME NEW x \in WUs, answer[x] # "none", SetFile(holder[x], x[1], NoWU)
          PROVE  \E v \in WUs \ {workunit'[c]} :
                   v[1] = workunit'[c][1] /\ holder'[v] = holder'[workunit'[c]]
      <3>1. /\ tpc'[c] = tpc[c] /\ workunit'[c] = workunit[c] /\ tpc[c] \in {"writing", "answer"}
            /\ tpc[c] \in Working /\ tpc[c] \in Unanswered
        BY <1>4 DEF Working, TPcs, Unanswered
      <3>2. workunit[c] \in WUs /\ workunit[c][1] \in Ranges /\ holder[workunit[c]] = c
        BY <1>0, <3>1
      <3>3. x # workunit[c]
        BY <2>2, <3>1 DEF AnswerInv
      <3>4. CASE holder[x] = c /\ x[1] = workunit[c][1]
        BY <1>4, <3>1, <3>2, <3>3, <3>4
      <3>5. CASE holder[x] # c \/ x[1] # workunit[c][1]
        <4>1. file'[c][workunit[c][1]] = file[c][workunit[c][1]]
          BY <2>2, <3>2, <3>5, FileType DEF PCType, MaybeWU
        <4> QED BY <1>1, <3>1, <4>1
      <3> QED BY <3>4, <3>5
    <2> QED BY <1>4, <2>1, <2>2, CleanedUp
  <1> QED BY <1>2, <1>3, <1>4, StepBy

(* ... and of the answers. *)
LEMMA AnswerFileStep ==
  ASSUME PCType, AnswerInv, FileInv, AnswerHasFile, [Next]_vars
  PROVE  AnswerHasFile'
  <1> SUFFICES ASSUME NEW w \in WUs, answer'[w] = "nofile"
               PROVE  \E v \in WUs \ {w} : v[1] = w[1] /\ holder'[v] = holder'[w]
    BY DEF AnswerHasFile
  <1>1. CASE answer[w] = "nofile"
    <2>1. Again(w) /\ holder[w] # NoClient
      BY <1>1 DEF AnswerHasFile, Again, AnswerInv
    <2> QED BY <2>1, AgainStays
  <1>2. CASE answer[w] # "nofile"
    <2>1. PICK c \in Clients : prepare_answer(c)
      BY <1>2, StepBy DEF get_wu_full, CancelGet, ServerGone, ClientStep, run_commands, OpenResult,
                          CommandEnds, schedule_upload, NotifyUploader, notClients
    <2>2. /\ w = workunit[c] /\ tpc[c] = "answer" /\ file[c][w[1]] = NoWU
      BY <1>2, <2>1 DEF prepare_answer, PCType, TypeOK
    <2>3. Again(w) /\ holder[w] = c /\ c # NoClient
      BY <2>2, PCAssumption DEF FileInv, PCType, HandsInv, Working, TPcs, PCAssumption
    <2> QED BY <2>3, AgainStays
  <1> QED BY <1>1, <1>2

(* A result of a command that did not fail is uploaded with its file,      *)
(* unless the same client had another attempt of the same range. *)
THEOREM AnswersHaveFiles == Spec => []AnswerHasFile
  <1>1. Init => FileInv /\ AnswerHasFile
    BY DEF Init, FileInv, AnswerHasFile
  <1>2. PCType /\ AnswerInv /\ ResultInOnePlace /\ FileInv /\ AnswerHasFile /\ [Next]_vars
          => FileInv' /\ AnswerHasFile'
    BY FileStep, AnswerFileStep
  <1>3. Init => AnswerInv
    BY DEF Init, AnswerInv, Unanswered
  <1>4. PCType /\ AnswerInv /\ [Next]_vars => AnswerInv'
    BY AnswerStep
  <1> QED BY <1>1, <1>2, <1>3, <1>4, TypesAlways, OwnershipKept, PTL DEF Spec
================================================================================
