----------------------------- MODULE JobRecords -----------------------------
(***************************************************************************)
(* The durable JobRecord of packages/contracts and the transitions that    *)
(* JobEntity (packages/domain) and ProcessJobUseCase apply to it in memory *)
(* before they hand it to a JobRepositoryPort.                             *)
(*                                                                         *)
(* Abstracted: the request and the artifacts are left out, `result` and    *)
(* `error` say whether the field is set, `open` is the set of trace stages *)
(* whose status is still "running".  A stage that the code opens and       *)
(* closes between two updates (worker_claimed, asset_ref_loaded) is never  *)
(* stored open and is left out.  "canceled" is left out as well: no caller *)
(* of JobEntity.cancel exists.                                             *)
(***************************************************************************)
EXTENDS Naturals

CONSTANT MaxClock      \* bound on the wall clock

ASSUME MaxClockAssumption == MaxClock \in Nat

Live == {"queued", "running"}
Terminal == {"succeeded", "failed"}

(* The stages an attempt persists while they are open, in the order the    *)
(* use case runs them.                                                     *)
Script == <<"ml_probe", "asset_bytes_loaded", "ml_submit", "ml_poll", "artifact_store">>
StageName == {Script[i] : i \in 1..5}

Record == [status  : {"absent"} \cup Live \cup Terminal,
           updated : 0..MaxClock,
           result  : BOOLEAN,
           error   : BOOLEAN,
           open    : SUBSET StageName]

(* repository.get(...) is None *)
Absent == [status |-> "absent", updated |-> 0, result |-> FALSE, error |-> FALSE, open |-> {}]

(* The record CreateJobUseCase builds: QUEUED, every stage already closed. *)
NewRecord(now) == [Absent EXCEPT !.status = "queued", !.updated = now]

\* mutant of IsTerminal: only a successful job counts as ended
IsSucceeded(rec) == rec.status = "succeeded"
IsTerminal(rec) == rec.status \in Terminal

(* JobEntity.start raises JobStateError from any other status. *)
CanStart(rec) == rec.status = "queued"
Started(rec, now) == [rec EXCEPT !.status = "running", !.updated = now]

\* mutant of Completed: the result is set after the record is stored
CompletedWithoutResult(rec, now) == [rec EXCEPT !.status = "succeeded", !.updated = now]
(* The result is set before the domain transition to SUCCEEDED. *)
Completed(rec, now) == [rec EXCEPT !.status = "succeeded", !.updated = now, !.result = TRUE]

StageOpened(rec, name) == [rec EXCEPT !.open = @ \cup {name}]
\* mutant of StageClosed: _finish_stage does not find the open stage
StageLeftOpen(rec, name) == rec
StageClosed(rec, name) == [rec EXCEPT !.open = @ \ {name}]

(* _fail_running_stage walks the trace backwards and closes only the first *)
(* open stage it meets: the one opened last.                               *)
LastOpen(open) ==
  Script[CHOOSE i \in 1..5 : Script[i] \in open /\ \A k \in (i + 1)..5 : Script[k] \notin open]

\* mutant of RunningStageFailed: the except block leaves the stage running
RunningStageKept(rec) == rec
RunningStageFailed(rec) ==
  IF rec.open = {} THEN rec ELSE StageClosed(rec, LastOpen(rec.open))

\* mutant of Failed: without `if not domain_job.is_terminal`
AlwaysFailed(rec, now) ==
  [RunningStageFailed(rec) EXCEPT !.status = "failed", !.updated = now, !.error = TRUE]
\* mutant of Failed: the domain transition is not applied to the record
OnlyErrorSet(rec, now) == [RunningStageFailed(rec) EXCEPT !.error = TRUE]
(* What the except block makes of the attempt's copy. *)
Failed(rec, now) ==
  IF IsTerminal(rec) THEN [RunningStageFailed(rec) EXCEPT !.error = TRUE]
  ELSE [RunningStageFailed(rec) EXCEPT !.status = "failed", !.updated = now, !.error = TRUE]

(* ManageJobUseCase.mark_failed: whatever the status was, and without      *)
(* closing the stage a running attempt left open.                          *)
MarkedFailed(rec, now) == [rec EXCEPT !.status = "failed", !.updated = now, !.error = TRUE]
=============================================================================
