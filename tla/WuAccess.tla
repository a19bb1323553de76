------------------------------- MODULE WuAccess -------------------------------
(***************************************************************************)
(* The WORKUNITS table of scripts/cadofactor/wudb.py as a value, and the   *)
(* operations class WuAccess offers on it.  A table maps every workunit id *)
(* to the status of its row, "NONE" where no row exists.  Each operator is *)
(* one SQL transaction: BEGIN EXCLUSIVE ... COMMIT, so it is atomic for    *)
(* every other connection.  What a call checks before it writes is the     *)
(* predicate Can...; the calls without one write unconditionally.          *)
(***************************************************************************)

(* namedtuple WuStatus, plus the absence of a row. *)
WuStatus == {"AVAILABLE", "ASSIGNED", "NEED_RESUBMIT", "RECEIVED_OK",
             "RECEIVED_ERROR", "VERIFIED_OK", "VERIFIED_ERROR", "CANCELLED"}
NoRow    == "NONE"

(* A row the application is not finished with, and the final ones. *)
Received == {"RECEIVED_OK", "RECEIVED_ERROR"}
Open     == {"AVAILABLE", "ASSIGNED", "NEED_RESUBMIT"} \cup Received
Verified == {"VERIFIED_OK", "VERIFIED_ERROR"}
Closed   == Verified \cup {"CANCELLED"}

(* SELECT ... WHERE status in S *)
RowsWith(tab, S) == {w \in DOMAIN tab : tab[w] \in S}

(* UPDATE workunits SET status = s WHERE wuid in W: set_status(). *)
SetStatus(tab, W, s) == [w \in DOMAIN tab |-> IF w \in W THEN s ELSE tab[w]]

(* INSERT: the column wuid is UNIQUE NOT NULL. *)
CanCreate(tab, w) == tab[w] = NoRow
Created(tab, w)   == SetStatus(tab, {w}, "AVAILABLE")

(* assign(): some row that is AVAILABLE. *)
CanAssign_again(tab, w) == tab[w] \in {"AVAILABLE", "ASSIGNED"}
CanAssign(tab, w) == tab[w] = "AVAILABLE"
Assign(tab, w)    == SetStatus(tab, {w}, "ASSIGNED")

(* result(): only for a row that is ASSIGNED, else StatusUpdateError. *)
CanResult_if_cancelled(tab, w) == tab[w] \in {"ASSIGNED", "CANCELLED"}
CanResult(tab, w)     == tab[w] = "ASSIGNED"
Result(tab, w, isErr) ==
  SetStatus(tab, {w}, IF isErr THEN "RECEIVED_ERROR" ELSE "RECEIVED_OK")

(* verification(): only for a row that is RECEIVED_*. *)
CanVerify(tab, w)        == tab[w] \in Received
Verification(tab, w, ok) ==
  SetStatus(tab, {w}, IF ok THEN "VERIFIED_OK" ELSE "VERIFIED_ERROR")

(* cancel(): whatever the status is. *)
Cancel_only_available(tab, W) ==
  SetStatus(tab, {w \in W : tab[w] = "AVAILABLE"}, "CANCELLED")
Cancel(tab, W) == SetStatus(tab, W, "CANCELLED")

(* get_one_result(): one row RECEIVED_OK if there is one, else one row     *)
(* RECEIVED_ERROR, else none; LIMIT 1 without ORDER BY picks any.          *)
ResultRows(tab) ==
  LET good == RowsWith(tab, {"RECEIVED_OK"})
  IN  IF good # {} THEN good ELSE RowsWith(tab, {"RECEIVED_ERROR"})
===============================================================================
