----------------------------- MODULE RenderJobs -----------------------------
(***************************************************************************)
(* The life of a render job across the processes that share it:            *)
(*                                                                         *)
(*   API        CreateJobUseCase: look up the request cache, create the    *)
(*              record, publish the message; ManageJobUseCase: the         *)
(*              operator's mark-failed and delete.                         *)
(*   store      S3JobRepository: one object per job and one index object   *)
(*              per request cache key; every write is a blind overwrite.   *)
(*   queue      a YMQ queue: a received message is hidden until it is      *)
(*              deleted, returned, or its visibility timeout runs out.     *)
(*   worker     WorkerLoop keeps up to max_in_flight_jobs deliveries, each *)
(*              handled by ProcessJobUseCase.execute on a pool thread, and *)
(*              acks or nacks a delivery when its attempt has ended.       *)
(*                                                                         *)
(* A step is one call of the queue, the asset store, the pipeline or the   *)
(* observer, or one get, put or delete of a store object, with the local   *)
(* work up to the next one, so every interleaving of the processes between *)
(* two of them is explored.  An attempt works on its own copy of the       *)
(* record (`copy`), as S3 parses a new object on every get.                *)
(*                                                                         *)
(* A job is named by the create request that makes it (job ids are fresh   *)
(* UUIDs).  The poll loop of ml_poll is one call that answers or raises:   *)
(* its TTL ends it.  Everything that can go wrong is drawn from `budget`,  *)
(* so a configuration, or a theorem, says which disturbances it admits.    *)
(***************************************************************************)
EXTENDS JobRecords, FiniteSets

CONSTANTS
  Jobs,        \* create requests, and the ids of the jobs they create
  Keys,        \* request cache keys
  KeyOf,       \* KeyOf[j]: render_request_key of the request j
  Slots,       \* the worker's job slots (max_in_flight_jobs of them)
  ApiThreads,  \* create requests the API handles at the same time
  StaleAfter,  \* LIVE_CACHE_STALE_THRESHOLD_SEC in clock ticks
  Budget,      \* how often each disturbance may happen
  NoJob, NoSlot

Disturbance == {"api",       \* an API process dies or fails inside a call
                "asset",     \* a source asset is gone from the store
                "crash",     \* the worker process dies
                "expire",    \* a visibility timeout passes during handling
                "operator",  \* the operator marks or deletes a job
                "port",      \* the ML service or the asset store raises
                "store"}     \* a repository call or an observer call raises

ASSUME ConstantsAssumption ==
  /\ KeyOf \in [Jobs -> Keys]
  /\ NoJob \notin Jobs
  /\ NoSlot \notin Slots
  /\ ApiThreads \in Nat
  /\ StaleAfter \in Nat
  /\ Budget \in [Disturbance -> Nat]

VARIABLES
  records,   \* records[j]: the stored JobRecord of j
  index,     \* index[k]: the job the request cache index names for key k
  message,   \* message[j]: the queue message of j
  holder,    \* holder[j]: the slot with the latest receipt of that message
  request,   \* request[j]: how far the create request j has come
  answer,    \* answer[j]: the job the look-up, then the answer of j names
  pc,        \* pc[s]: the next port call of the attempt in slot s
  job,       \* job[s]: the job of that attempt
  stage,     \* stage[s]: the trace stage it is in
  copy,      \* copy[s]: its in-memory JobRecord
  due,       \* due[s]: where it goes if the index put it has still to make
             \* raises; "none" when it has none to make
  operator,  \* the operator's request in progress
  budget,    \* disturbances still to come
  clock      \* wall clock, for the freshness of cached jobs

store == <<records, index>>
queue == <<message, holder>>
api == <<request, answer>>
attempts == <<pc, job, stage, copy, due>>
vars == <<records, index, message, holder, request, answer,
          pc, job, stage, copy, due, operator, budget, clock>>

PC == {"free", "get", "noop", "claim", "asset", "noasset", "start", "enter",
       "call", "leave", "complete", "emit", "except", "returned", "raised"}

NoRequest == [act |-> "none", job |-> NoJob, copy |-> Absent]

TypeOK ==
  /\ records \in [Jobs -> Record]
  /\ index \in [Keys -> Jobs \cup {NoJob}]
  /\ message \in [Jobs -> {"none", "visible", "taken", "gone"}]
  /\ holder \in [Jobs -> Slots \cup {NoSlot}]
  /\ request \in [Jobs -> {"new", "lookup", "create", "index", "publish", "answered", "dropped"}]
  /\ answer \in [Jobs -> Jobs \cup {NoJob}]
  /\ pc \in [Slots -> PC]
  /\ job \in [Slots -> Jobs \cup {NoJob}]
  /\ stage \in [Slots -> StageName]
  /\ copy \in [Slots -> Record]
  /\ due \in [Slots -> {"none", "raised", "except"}]
  /\ operator \in [act : {"none", "mark", "index", "delete", "lookup", "recheck", "unindex"},
                   job : Jobs \cup {NoJob}, copy : Record]
  /\ budget \in [Disturbance -> Nat]
  /\ clock \in 0..MaxClock
  /\ \A s \in Slots : (pc[s] = "free" <=> job[s] = NoJob) /\ (pc[s] = "free" => due[s] = "none")
  /\ operator.act = "none" <=> operator.job = NoJob

Init ==
  /\ records = [j \in Jobs |-> Absent]
  /\ index = [k \in Keys |-> NoJob]
  /\ message = [j \in Jobs |-> "none"]
  /\ holder = [j \in Jobs |-> NoSlot]
  /\ request = [j \in Jobs |-> "new"]
  /\ answer = [j \in Jobs |-> NoJob]
  /\ pc = [s \in Slots |-> "free"]
  /\ job = [s \in Slots |-> NoJob]
  /\ stage = [s \in Slots |-> Script[1]]
  /\ copy = [s \in Slots |-> Absent]
  /\ due = [s \in Slots |-> "none"]
  /\ operator = NoRequest
  /\ budget = Budget
  /\ clock = 0

Spend(d) ==
  /\ budget[d] > 0
  /\ budget' = [budget EXCEPT ![d] = @ - 1]

-----------------------------------------------------------------------------
(* S3JobRepository *)

(* create and update are two puts: the record, then the index entry.       *)
PutRecord(j, rec) ==
  /\ records' = [records EXCEPT ![j] = rec]
  /\ UNCHANGED index

PutIndex(j) ==
  /\ index' = [index EXCEPT ![KeyOf[j]] = j]
  /\ UNCHANGED records

(* delete removes the record before it looks the key up. *)
Remove(j) == PutRecord(j, Absent)

-----------------------------------------------------------------------------
(* CreateJobUseCase *)

Stale(rec) == clock - rec.updated > StaleAfter

\* mutant of Reusable: live jobs are not looked at
ReusedOnlyWhenDone(rec) == rec.status = "succeeded"
Reusable(rec) ==
  \/ rec.status = "succeeded"
  \/ rec.status \in Live /\ ~Stale(rec)

InProgress == {r \in Jobs : request[r] \in {"lookup", "create", "index", "publish"}}

(* find_by_request_cache_key is two gets: the index entry of the key, and  *)
(* the record of the job it names.                                         *)
LookUp(r) ==
  /\ request[r] = "new"
  /\ Cardinality(InProgress) < ApiThreads
  /\ index[KeyOf[r]] # NoJob
  /\ request' = [request EXCEPT ![r] = "lookup"]
  /\ answer' = [answer EXCEPT ![r] = index[KeyOf[r]]]
  /\ UNCHANGED <<store, queue, attempts, operator, budget, clock>>

(* There is a job to reuse: nothing is created or published. *)
Hit(r) ==
  /\ request[r] = "lookup"
  /\ Reusable(records[answer[r]])
  /\ request' = [request EXCEPT ![r] = "answered"]
  /\ UNCHANGED <<store, queue, answer, attempts, operator, budget, clock>>

Miss(r) ==
  /\ \/ /\ request[r] = "new"
        /\ Cardinality(InProgress) < ApiThreads
        /\ index[KeyOf[r]] = NoJob
     \/ /\ request[r] = "lookup"
        /\ ~Reusable(records[answer[r]])
  /\ request' = [request EXCEPT ![r] = "create"]
  /\ answer' = [answer EXCEPT ![r] = NoJob]
  /\ UNCHANGED <<store, queue, attempts, operator, budget, clock>>

Create(r) ==
  /\ request[r] = "create"
  /\ PutRecord(r, NewRecord(clock))
  /\ request' = [request EXCEPT ![r] = "index"]
  /\ UNCHANGED <<queue, answer, attempts, operator, budget, clock>>

CreateIndexed(r) ==
  /\ request[r] = "index"
  /\ PutIndex(r)
  /\ request' = [request EXCEPT ![r] = "publish"]
  /\ UNCHANGED <<queue, answer, attempts, operator, budget, clock>>

Publish(r) ==
  /\ request[r] = "publish"
  /\ message' = [message EXCEPT ![r] = "visible"]
  /\ request' = [request EXCEPT ![r] = "answered"]
  /\ answer' = [answer EXCEPT ![r] = r]
  /\ UNCHANGED <<store, holder, attempts, operator, budget, clock>>

(* The process dies, or the store or the queue raises: whatever was put or *)
(* published stays and nobody takes the request up again.                  *)
CreateFails(r) ==
  /\ Spend("api")
  /\ \/ request[r] \in {"lookup", "create", "index"} /\ UNCHANGED message
     \/ /\ request[r] = "publish"
        /\ UNCHANGED message \/ message' = [message EXCEPT ![r] = "visible"]
  /\ request' = [request EXCEPT ![r] = "dropped"]
  /\ answer' = [answer EXCEPT ![r] = NoJob]
  /\ UNCHANGED <<store, holder, attempts, operator, clock>>

-----------------------------------------------------------------------------
(* ManageJobUseCase: read the record, then write or delete it *)

OperatorReads(j) ==
  /\ operator.act = "none"
  /\ records[j].status # "absent"
  /\ Spend("operator")
  /\ \E act \in {"mark", "delete"} :
       operator' = [act |-> act, job |-> j, copy |-> records[j]]
  /\ UNCHANGED <<store, queue, api, attempts, clock>>

(* The operator's request goes on with `act`, its copy no longer needed. *)
Continue(act) == operator' = [operator EXCEPT !.act = act, !.copy = Absent]

MarkFailed ==
  /\ operator.act = "mark"
  /\ PutRecord(operator.job, MarkedFailed(operator.copy, clock))
  /\ Continue("index")
  /\ UNCHANGED <<queue, api, attempts, budget, clock>>

MarkIndexed ==
  /\ operator.act = "index"
  /\ PutIndex(operator.job)
  /\ operator' = NoRequest
  /\ UNCHANGED <<queue, api, attempts, budget, clock>>

Delete ==
  /\ operator.act = "delete"
  /\ Remove(operator.job)
  /\ Continue("lookup")
  /\ UNCHANGED <<queue, api, attempts, budget, clock>>

(* The look-up finds the deleted job only when the index still names it    *)
(* and an attempt has written the record back: the entry stays otherwise.  *)
DeleteLooksUp ==
  /\ \/ /\ operator.act = "lookup"
        /\ IF index[KeyOf[operator.job]] = operator.job THEN Continue("recheck") ELSE operator' = NoRequest
     \/ /\ operator.act = "recheck"
        /\ IF records[operator.job].status # "absent" THEN Continue("unindex") ELSE operator' = NoRequest
  /\ UNCHANGED <<store, queue, api, attempts, budget, clock>>

(* By now the entry may name another job. *)
Unindex ==
  /\ operator.act = "unindex"
  /\ index' = [index EXCEPT ![KeyOf[operator.job]] = NoJob]
  /\ operator' = NoRequest
  /\ UNCHANGED <<records, queue, api, attempts, budget, clock>>

(* The API process dies, or the store raises. *)
OperatorFails ==
  /\ operator.act # "none"
  /\ Spend("api")
  /\ operator' = NoRequest
  /\ UNCHANGED <<store, queue, api, attempts, clock>>

-----------------------------------------------------------------------------
(* The queue, as WorkerLoop uses it, and the end of an attempt *)

\* mutant of Deliverable: receiving does not hide the message
DeliverableTwice(j) == message[j] \in {"visible", "taken"}
Deliverable(j) == message[j] = "visible"

Receive(s) ==
  /\ pc[s] = "free"
  /\ \E j \in Jobs :
       /\ Deliverable(j)
       /\ message' = [message EXCEPT ![j] = "taken"]
       /\ holder' = [holder EXCEPT ![j] = s]
       /\ job' = [job EXCEPT ![s] = j]
  /\ pc' = [pc EXCEPT ![s] = "get"]
  /\ UNCHANGED <<store, api, stage, copy, due, operator, budget, clock>>

\* mutant of Released: the delivery is not popped
ReleasedBusy(s) ==
  /\ pc' = [pc EXCEPT ![s] = "free"]
  /\ UNCHANGED job
  /\ copy' = [copy EXCEPT ![s] = Absent]
  /\ stage' = [stage EXCEPT ![s] = Script[1]]
(* _in_flight.pop(future) *)
Released(s) ==
  /\ pc' = [pc EXCEPT ![s] = "free"]
  /\ job' = [job EXCEPT ![s] = NoJob]
  /\ copy' = [copy EXCEPT ![s] = Absent]
  /\ stage' = [stage EXCEPT ![s] = Script[1]]

\* mutant of Handled: ack in a finally block
HandledAlways(s) == due[s] = "none" /\ pc[s] \in {"returned", "raised"}
(* future.result() gave a record / raised *)
Handled(s) == due[s] = "none" /\ pc[s] = "returned"
FailedHandling(s) == due[s] = "none" /\ pc[s] = "raised"

(* Nothing obliges the queue to honour an outdated receipt. *)
Settle(s, fate) ==
  \/ /\ message[job[s]] = "taken" \/ fate = "gone"
     /\ message' = [message EXCEPT ![job[s]] = fate]
     /\ holder' = [holder EXCEPT ![job[s]] = NoSlot]
  \/ holder[job[s]] # s /\ UNCHANGED queue

Ack(s) ==
  /\ Handled(s)
  /\ Settle(s, "gone")
  /\ Released(s)
  /\ UNCHANGED <<store, api, due, operator, budget, clock>>

Nack(s) ==
  /\ FailedHandling(s)
  /\ Settle(s, "visible")
  /\ Released(s)
  /\ UNCHANGED <<store, api, due, operator, budget, clock>>

(* extend_visibility is never called: a long attempt outlives the timeout. *)
VisibilityExpires(j) ==
  /\ message[j] = "taken"
  /\ IF holder[j] = NoSlot THEN UNCHANGED budget ELSE Spend("expire")
  /\ message' = [message EXCEPT ![j] = "visible"]
  /\ holder' = [holder EXCEPT ![j] = NoSlot]
  /\ UNCHANGED <<store, api, attempts, operator, clock>>

(* Every attempt and every delivery object is lost; the messages stay      *)
(* hidden until their timeout.                                             *)
Crash ==
  /\ Spend("crash")
  /\ \E s \in Slots : pc[s] # "free"
  /\ holder' = [j \in Jobs |-> NoSlot]
  /\ pc' = [s \in Slots |-> "free"]
  /\ job' = [s \in Slots |-> NoJob]
  /\ stage' = [s \in Slots |-> Script[1]]
  /\ copy' = [s \in Slots |-> Absent]
  /\ due' = [s \in Slots |-> "none"]
  /\ UNCHANGED <<store, message, api, operator, clock>>

-----------------------------------------------------------------------------
(* ProcessJobUseCase.execute *)

(* Where an exception at the next call of s leads: the except block guards *)
(* the part of execute that follows the update to RUNNING.                 *)
OnError(s) ==
  IF pc[s] \in {"enter", "call", "leave", "complete", "emit"} THEN "except" ELSE "raised"

Goto(s, label) == pc' = [pc EXCEPT ![s] = label]

(* repository.update(job) with the attempt's copy: the record is put here, *)
(* the index by UpdateIndex.  A put that raises was not made, or it was,   *)
(* which is the case of an index put that raises at once.                  *)
Update(s, rec, label) ==
  /\ copy' = [copy EXCEPT ![s] = rec]
  /\ \/ /\ PutRecord(job[s], rec)
        /\ due' = [due EXCEPT ![s] = OnError(s)]
        /\ Goto(s, label)
        /\ UNCHANGED budget
     \/ /\ Spend("store")
        /\ Goto(s, OnError(s))
        /\ UNCHANGED <<store, due>>
  /\ UNCHANGED <<queue, api, job, operator, clock>>

UpdateIndex(s) ==
  /\ due[s] # "none"
  /\ due' = [due EXCEPT ![s] = "none"]
  /\ \/ PutIndex(job[s]) /\ UNCHANGED <<pc, budget>>
     \/ Spend("store") /\ (PutIndex(job[s]) \/ UNCHANGED store) /\ Goto(s, due[s])
  /\ UNCHANGED <<queue, api, job, stage, copy, operator, clock>>

Get(s) ==
  /\ pc[s] = "get"
  /\ LET rec == records[job[s]] IN
     /\ copy' = [copy EXCEPT ![s] = rec]
     /\ Goto(s, CASE rec.status = "absent" -> "raised"
                  [] IsTerminal(rec) -> "noop"
                  [] OTHER -> "claim")
  /\ UNCHANGED <<store, queue, api, job, stage, due, operator, budget, clock>>

TerminalNoop(s) ==
  /\ pc[s] = "noop"
  /\ Update(s, copy[s], "returned")
  /\ UNCHANGED stage

Claim(s) ==
  /\ pc[s] = "claim"
  /\ Update(s, copy[s], "asset")
  /\ UNCHANGED stage

LoadAssetRef(s) ==
  /\ pc[s] = "asset"
  /\ IF CanStart(copy[s])
     THEN Goto(s, "start") /\ copy' = [copy EXCEPT ![s] = Started(copy[s], clock)]
     ELSE Goto(s, "raised") /\ UNCHANGED copy
  /\ UNCHANGED <<store, queue, api, job, stage, due, operator, budget, clock>>

AssetMissing(s) ==
  /\ pc[s] = "asset"
  /\ Spend("asset")
  /\ Goto(s, "noasset")
  /\ UNCHANGED <<store, queue, api, job, stage, copy, due, operator, clock>>

ReportMissingAsset(s) ==
  /\ pc[s] = "noasset"
  /\ Update(s, copy[s], "raised")
  /\ UNCHANGED stage

(* get or get_ref raises *)
ReadRaises(s) ==
  /\ pc[s] \in {"get", "asset"}
  /\ Spend("store")
  /\ Goto(s, OnError(s))
  /\ UNCHANGED <<store, queue, api, job, stage, copy, due, operator, clock>>

Begin(s) ==
  /\ pc[s] = "start"
  /\ Update(s, copy[s], "enter")
  /\ stage' = [stage EXCEPT ![s] = "ml_probe"]

EnterStage(s) ==
  /\ pc[s] = "enter"
  /\ Update(s, StageOpened(copy[s], stage[s]), "call")
  /\ UNCHANGED stage

(* The stages that are persisted closed before the next one opens. *)
SavedWhenClosed == {"ml_probe", "asset_bytes_loaded"}

(* ml_submit leads to ml_poll, or to artifact_store when ML answered       *)
(* synchronously with the result.                                          *)
NextStage(name) ==
  CASE name = "ml_probe" -> {"asset_bytes_loaded"}
    [] name = "asset_bytes_loaded" -> {"ml_submit"}
    [] name = "ml_submit" -> {"ml_poll", "artifact_store"}
    [] name = "ml_poll" -> {"artifact_store"}
    [] name = "artifact_store" -> {"artifact_store"}

(* pipeline.probe, get_bytes, pipeline.submit, the poll loop or put_bytes, *)
(* and what execute does with the answer before its next call.             *)
CallStage(s) ==
  /\ pc[s] = "call"
  /\ LET closed == StageClosed(copy[s], stage[s]) IN
     IF stage[s] = "artifact_store"
     THEN /\ copy' = [copy EXCEPT ![s] = Completed(closed, clock)]
          /\ Goto(s, "complete")
          /\ UNCHANGED stage
     ELSE /\ copy' = [copy EXCEPT ![s] = closed]
          /\ IF stage[s] \in SavedWhenClosed
             THEN Goto(s, "leave") /\ UNCHANGED stage
             ELSE /\ Goto(s, "enter")
                  /\ \E name \in NextStage(stage[s]) : stage' = [stage EXCEPT ![s] = name]
  /\ UNCHANGED <<store, queue, api, job, due, operator, budget, clock>>

CallRaises(s) ==
  /\ pc[s] = "call"
  /\ Spend("port")
  /\ Goto(s, OnError(s))
  /\ UNCHANGED <<store, queue, api, job, stage, copy, due, operator, clock>>

LeaveStage(s) ==
  /\ pc[s] = "leave"
  /\ Update(s, copy[s], "enter")
  /\ \E name \in NextStage(stage[s]) : stage' = [stage EXCEPT ![s] = name]

Complete(s) ==
  /\ pc[s] = "complete"
  /\ Update(s, copy[s], "emit")
  /\ UNCHANGED stage

(* observer.job_finished, after the record is stored as succeeded *)
EmitFinished(s) ==
  /\ pc[s] = "emit"
  /\ \/ Goto(s, "returned") /\ UNCHANGED budget
     \/ Spend("store") /\ Goto(s, OnError(s))
  /\ UNCHANGED <<store, queue, api, job, stage, copy, due, operator, clock>>

Except(s) ==
  /\ pc[s] = "except"
  /\ Update(s, Failed(copy[s], clock), "raised")
  /\ UNCHANGED stage

-----------------------------------------------------------------------------
Tick ==
  /\ clock < MaxClock
  /\ clock' = clock + 1
  /\ UNCHANGED <<store, queue, api, attempts, operator, budget>>

Attempt(s) ==
  \/ UpdateIndex(s)
  \/ /\ due[s] = "none"
     /\ \/ Get(s) \/ TerminalNoop(s) \/ Claim(s) \/ LoadAssetRef(s) \/ AssetMissing(s)
        \/ ReportMissingAsset(s) \/ ReadRaises(s) \/ Begin(s) \/ EnterStage(s)
        \/ CallStage(s) \/ CallRaises(s) \/ LeaveStage(s) \/ Complete(s)
        \/ EmitFinished(s) \/ Except(s)

Next ==
  \/ \E r \in Jobs : \/ LookUp(r) \/ Hit(r) \/ Miss(r) \/ Create(r) \/ CreateIndexed(r)
                    \/ Publish(r) \/ CreateFails(r)
  \/ \E j \in Jobs : OperatorReads(j) \/ VisibilityExpires(j)
  \/ MarkFailed \/ MarkIndexed \/ Delete \/ DeleteLooksUp \/ Unindex \/ OperatorFails
  \/ Crash \/ Tick
  \/ \E s \in Slots : Receive(s) \/ Attempt(s) \/ Ack(s) \/ Nack(s)

Spec == Init /\ [][Next]_vars
-----------------------------------------------------------------------------
(* Fairness: an API handler once begun runs to its end, the loop keeps     *)
(* receiving and draining, pool threads are scheduled, ml_poll ends by     *)
(* answer or TTL, and YMQ shows a hidden message again when nobody settles *)
(* it.  No client has to ask for anything.                                 *)
Fairness ==
  /\ \A r \in Jobs : /\ WF_vars(request[r] = "lookup" /\ (Hit(r) \/ Miss(r)))
                      /\ WF_vars(Create(r)) /\ WF_vars(CreateIndexed(r)) /\ WF_vars(Publish(r))
  /\ \A s \in Slots : WF_vars(Attempt(s)) /\ WF_vars(Ack(s)) /\ WF_vars(Nack(s))
  /\ WF_vars(\E s \in Slots : Receive(s))
  /\ \A j \in Jobs : WF_vars(holder[j] = NoSlot /\ VisibilityExpires(j))

FairSpec == Spec /\ Fairness

-----------------------------------------------------------------------------
(* Properties *)

Busy(s) == pc[s] # "free"

(* Without expiring receipts and operator edits the pipeline implements    *)
(* the promised job lifecycle, through worker crashes, failing ports and   *)
(* failing store writes: a job begins once, ends once, never leaves its    *)
(* final status, and its message is deleted only afterwards.  At risk:     *)
(* execute works on a copy read many steps before it is written back.      *)
Lifecycle == INSTANCE JobLifecycle WITH
  phase <- [j \in Jobs |-> records[j].status],
  settled <- [j \in Jobs |-> message[j] = "gone"]

JobLifecycle == Lifecycle!Spec

(* The visibility lock is what keeps two attempts off one record: every    *)
(* busy slot holds the current receipt of its own job's message.           *)
OneAttemptPerJob ==
  /\ \A s, t \in Slots : Busy(s) /\ job[s] = job[t] => s = t
  /\ \A s \in Slots : Busy(s) => message[job[s]] = "taken" /\ holder[job[s]] = s

(* A job that has not ended still has a message to bring it back to a      *)
(* worker, unless its create has not published one (yet).                  *)
NoLostJob ==
  \A j \in Jobs : records[j].status \in Live =>
    \/ message[j] \in {"visible", "taken"}
    \/ message[j] = "none" /\ request[j] \in {"index", "publish", "dropped"}

Coherent(rec) ==
  /\ rec.status = "succeeded" => rec.result
  /\ rec.status = "failed" => rec.error
  /\ rec.status \in Live => ~rec.result /\ ~rec.error

(* What a client reads is coherent whichever attempt or operator wrote it: *)
(* a succeeded job has its result, a failed one its error, and a live one  *)
(* neither.                                                                *)
OutcomeRecorded == \A j \in Jobs : Coherent(records[j])

(* Only one trace stage of a record is ever running, so closing the last   *)
(* open one on failure is enough.                                          *)
OneOpenStage == \A j \in Jobs : Cardinality(records[j].open) <= 1

(* No job rests with a stage still running: a worker leaves a stage open   *)
(* only in a RUNNING record.  (mark_failed does leave one open.)           *)
TraceClosedAtRest ==
  \A j \in Jobs : records[j].status # "running" => records[j].open = {}

(* jobs.md: a create goes to a fresh job only when no succeeded or fresh   *)
(* live job for its key exists, but for a job whose own create has put its *)
(* record and not yet the index: creates at the same time may each make    *)
(* one.  At risk: the index names only the job whose record was written    *)
(* last, and is read before the record is.                                 *)
MissIsJustified ==
  [][\A r \in Jobs : Miss(r) =>
       \A j \in Jobs : KeyOf[j] = KeyOf[r] /\ request[j] # "index" =>
         /\ records[j].status # "succeeded"
         /\ records[j].status \in Live => clock - records[j].updated > StaleAfter]_vars

(* A client that got a job id sees that job end, whether it is its own or  *)
(* a reused one.                                                           *)
AnsweredJobEnds ==
  \A r \in Jobs : request[r] = "answered" ~> \E j \in Jobs : answer[r] = j /\ IsTerminal(records[j])

(* Every published message is handled and deleted: a failed attempt costs  *)
(* one redelivery, not an endless one.                                     *)
EveryMessageSettles ==
  \A j \in Jobs : message[j] # "none" ~> message[j] = "gone"

(* A result, once stored, stays: a redelivery of a finished job is a no-op *)
(* (evidence.md), and no transition of JobEntity leaves SUCCEEDED.  An     *)
(* attempt that read the record before another one finished writes its old *)
(* copy over the result.                                                   *)
ResultSurvives ==
  [][\A j \in Jobs : records[j].status = "succeeded" => records'[j].status = "succeeded"]_vars

(* A job marked failed by the operator stays failed until it is deleted    *)
(* (api.md).  The attempt the operator gave up may still be running.       *)
MarkedStaysFailed ==
  [][\A j \in Jobs : records[j].status = "failed" => records'[j].status \in {"failed", "absent"}]_vars
=============================================================================
