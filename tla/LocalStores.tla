---------------------------- MODULE LocalStores ----------------------------
(***************************************************************************)
(* The file backend that the API and the worker share without a lock:      *)
(* assets, job records and queue messages are files of their own, a file   *)
(* is truncated before it is filled, and the order of the writes is all    *)
(* that keeps the three stores consistent. WorkerLoop claims a message by  *)
(* renaming its file.                                                      *)
(*                                                                         *)
(* Jobs are numbered in the order of their file names, which has nothing   *)
(* to do with the order they arrive in. Each request has a key of its own: *)
(* reuse is in RenderJobs, and so is the trace of a record.                *)
(***************************************************************************)
EXTENDS Integers, FiniteSets

CONSTANTS
    MaxJobs,   \* how many jobs are ever created
    Slots      \* MAX_IN_FLIGHT_JOBS

ASSUME LocalConstantsAssumption == MaxJobs \in Nat /\ Slots \in Nat \ {0}

VARIABLES
    request,   \* where the API is with the upload and creation of a job
    asset,     \* the source asset: its bytes, then its metadata
    record,    \* the record's status, or what is being written
    torn,      \* records whose file is truncated, or holds parts of two records
    pen,       \* what the writers of a record have before them
    operator,  \* where the API is with an operator's request about a job
    message,   \* the queue file
    loop,      \* the worker loop's thread: "fill", "drain" or "dead"
    work,      \* what a slot of the pool is doing for a job
    trouble,   \* how many jobs and pages may still come, and what may go wrong
    deleted,   \* history: jobs an operator deleted
    marked,    \* history: jobs an operator marked failed
    cutOff     \* history: jobs whose claimed message lost its worker

recordVars == <<record, torn, pen>>
operatorVars == <<operator, deleted, marked>>
apiVars == <<request, asset>>
workerVars == <<loop, work, cutOff>>
storeVars == <<apiVars, recordVars, operatorVars, message, workerVars, trouble>>

Jobs == 1 .. MaxJobs

Ended == {"succeeded", "failed"}

\* Those who write the record of a job once it is created.
RecordWriters == {"attempt", "operator"} \X Jobs

LocalTypeOK ==
    /\ request \in [Jobs -> {"none", "bytes", "uploaded", "looked", "creating", "created",
                             "publishing", "answered", "refused"}]
    /\ asset \in [Jobs -> {"none", "bytes", "ready"}]
    /\ record \in [Jobs -> {"none", "queued", "running"} \cup Ended]
    /\ torn \subseteq Jobs
    /\ pen \in [RecordWriters -> {"up", "down", "over", "unlinked"}]
    /\ operator \in [Jobs -> {"none", "marks", "deletes", "writes"}]
    /\ message \in [Jobs -> {"none", "torn", "pending", "claimed", "gone"}]
    /\ loop \in {"fill", "drain", "dead"}
    /\ work \in [Jobs -> {"none", "claimed", "saving", "rendering", "succeeding", "failing",
                          "ack", "nack"}]
    /\ trouble \in [{"jobs", "page", "api", "operator"} -> Nat]
    /\ deleted \subseteq Jobs /\ marked \subseteq Jobs /\ cutOff \subseteq Jobs

LocalInit(budget) ==
    /\ request = [j \in Jobs |-> "none"]
    /\ asset = [j \in Jobs |-> "none"]
    /\ record = [j \in Jobs |-> "none"]
    /\ torn = {}
    /\ pen = [w \in RecordWriters |-> "up"]
    /\ operator = [j \in Jobs |-> "none"]
    /\ message = [j \in Jobs |-> "none"]
    /\ loop = "fill"
    /\ work = [j \in Jobs |-> "none"]
    /\ trouble = budget
    /\ deleted = {} /\ marked = {}
    /\ cutOff = {}

Spend(what) ==
    /\ trouble[what] > 0
    /\ trouble' = [trouble EXCEPT ![what] = @ - 1]

-----------------------------------------------------------------------------
\* A record and those who write it. A pen is down once its writer has opened
\* the file, which truncates it; over when another writer has filled it since;
\* and the file may have been unlinked under it.

OpenRecord(w, j, status) ==
    /\ record' = [record EXCEPT ![j] = status]
    /\ torn' = torn \cup {j}
    /\ pen' = [v \in RecordWriters |->
                IF v = <<w, j>> \/ (v[2] = j /\ pen[v] = "over") THEN "down" ELSE pen[v]]

\* What another writer has filled in meanwhile sticks out when it is longer.
FillRecord(w, j, status) ==
    IF pen[<<w, j>>] = "unlinked"
    THEN pen' = [pen EXCEPT ![<<w, j>>] = "up"] /\ UNCHANGED <<record, torn>>
    ELSE /\ record' = [record EXCEPT ![j] = status]
         /\ \/ torn' = torn \ {j}
            \/ pen[<<w, j>>] = "over" /\ torn' = torn \cup {j}
         /\ pen' = [v \in RecordWriters |->
                     CASE v = <<w, j>> -> "up"
                       [] v # <<w, j>> /\ v[2] = j /\ pen[v] = "down" -> "over"
                       [] OTHER -> pen[v]]

UnlinkRecord(j) ==
    /\ record' = [record EXCEPT ![j] = "none"]
    /\ torn' = torn \ {j}
    /\ pen' = [v \in RecordWriters |-> IF v[2] = j /\ pen[v] # "up" THEN "unlinked" ELSE pen[v]]

\* Writers that come no further, and leave the file as it is.
PensUp(w) == pen' = [v \in RecordWriters |-> IF v[1] = w THEN "up" ELSE pen[v]]

-----------------------------------------------------------------------------
\* The API

Goes(j, from, to) ==
    /\ request[j] = from
    /\ request' = [request EXCEPT ![j] = to]

\* POST /v1/assets: the bytes first, then the metadata that names them.
PutBytes(j) ==
    /\ Spend("jobs")
    /\ Goes(j, "none", "bytes")
    /\ asset' = [asset EXCEPT ![j] = "bytes"]
    /\ UNCHANGED <<recordVars, operatorVars, message, workerVars>>

PutMeta(j) ==
    /\ Goes(j, "bytes", "uploaded")
    /\ asset' = [asset EXCEPT ![j] = "ready"]
    /\ UNCHANGED <<recordVars, operatorVars, message, trouble, workerVars>>

\* POST /v1/jobs: no record is indexed under the new key, so every record is
\* read, and one that another process is just writing makes the request fail.
LookUp(j) ==
    /\ Goes(j, "uploaded", IF torn = {} THEN "looked" ELSE "refused")
    /\ UNCHANGED <<asset, recordVars, operatorVars, message, trouble, workerVars>>

CreateBegins(j) ==
    /\ Goes(j, "looked", "creating")
    /\ record' = [record EXCEPT ![j] = "queued"]
    /\ torn' = torn \cup {j}
    /\ UNCHANGED <<asset, pen, operatorVars, message, trouble, workerVars>>

CreateEnds(j) ==
    /\ Goes(j, "creating", "created")
    /\ torn' = torn \ {j}
    /\ UNCHANGED <<asset, record, pen, operatorVars, message, trouble, workerVars>>

\* A mutant of PublishBegins: the message goes out before the record.
PublishBeginsEarly(j) ==
    /\ request[j] \in {"looked", "created"}
    /\ request' = [request EXCEPT ![j] = "publishing"]
    /\ message' = [message EXCEPT ![j] = "torn"]
    /\ UNCHANGED <<asset, recordVars, operatorVars, trouble, workerVars>>

\* publish() makes a file the worker can claim before its text is there.
PublishBegins(j) ==
    /\ Goes(j, "created", "publishing")
    /\ message' = [message EXCEPT ![j] = "torn"]
    /\ UNCHANGED <<asset, recordVars, operatorVars, trouble, workerVars>>

PublishEnds(j) ==
    /\ Goes(j, "publishing", "answered")
    /\ message' = [message EXCEPT ![j] = IF @ = "torn" THEN "pending" ELSE @]
    /\ UNCHANGED <<asset, recordVars, operatorVars, trouble, workerVars>>

\* A mutant of Answer: a missing record is not an error.
AnswerUnchecked(j) == IF j \in torn THEN "error" ELSE record[j]

\* What GET /v1/jobs/{id} answers.
Answer(j) == IF record[j] = "none" \/ j \in torn THEN "error" ELSE record[j]

\* POST /v1/jobs/{id}/mark-failed and DELETE /v1/jobs/{id} read the record ...
OperatorReads(j) ==
    /\ Spend("operator")
    /\ operator[j] = "none"
    /\ Answer(j) # "error"
    /\ \E what \in {"marks", "deletes"} : operator' = [operator EXCEPT ![j] = what]
    /\ UNCHANGED <<apiVars, recordVars, message, deleted, marked, workerVars>>

Requested(j, from, to) ==
    /\ operator[j] = from
    /\ operator' = [operator EXCEPT ![j] = to]
    /\ UNCHANGED <<apiVars, message, trouble, workerVars>>

\* ... and write it as failed, whatever the attempt has made of it since, ...
MarkBegins(j) ==
    /\ Requested(j, "marks", "writes")
    /\ OpenRecord("operator", j, "failed")
    /\ marked' = marked \cup {j}
    /\ UNCHANGED deleted

MarkEnds(j) ==
    /\ Requested(j, "writes", "none")
    /\ FillRecord("operator", j, "failed")
    /\ UNCHANGED <<deleted, marked>>

\* ... or unlink it, and leave the message of a queued job behind.
Delete(j) ==
    /\ Requested(j, "deletes", "none")
    /\ UnlinkRecord(j)
    /\ deleted' = deleted \cup {j}
    /\ UNCHANGED marked

ApiBusy ==
    \E j \in Jobs : request[j] \notin {"none", "answered", "refused"} \/ operator[j] # "none"

\* The API process dies: what it has half written stays as it is.
ApiDies ==
    /\ Spend("api")
    /\ request' = [j \in Jobs |-> IF request[j] \in {"none", "answered"} THEN request[j]
                                  ELSE "refused"]
    /\ operator' = [j \in Jobs |-> "none"]
    /\ PensUp("operator")
    /\ UNCHANGED <<asset, record, torn, message, deleted, marked, workerVars>>

-----------------------------------------------------------------------------
\* The worker loop

Visible == {j \in Jobs : message[j] \in {"torn", "pending"}}

Busy == {j \in Jobs : work[j] # "none"}

\* A mutant of Claimed: consume() for receive(), which acknowledges at once.
Consumed == "gone"

Claimed == "claimed"

\* A mutant of HasSlot: one slot less.
HasSlotOffByOne == Cardinality(Busy) + 1 < Slots

HasSlot == Cardinality(Busy) < Slots

\* receive() claims the first file by name, then reads it. A message without
\* its text is a validation error that leaves tick and ends the thread.
Receive ==
    /\ loop = "fill"
    /\ HasSlot
    /\ \E j \in Visible :
        /\ \A i \in Visible : j <= i
        /\ message' = [message EXCEPT ![j] = Claimed]
        /\ IF message[j] = "torn"
           THEN loop' = "dead" /\ cutOff' = cutOff \cup {j} /\ UNCHANGED work
           ELSE work' = [work EXCEPT ![j] = "claimed"] /\ UNCHANGED <<loop, cutOff>>
    /\ UNCHANGED <<apiVars, recordVars, operatorVars, trouble>>

\* Every slot is taken, or receive() returned None.
FillEnds ==
    /\ loop = "fill"
    /\ ~HasSlot \/ Visible = {}
    /\ loop' = "drain"
    /\ UNCHANGED <<apiVars, recordVars, operatorVars, message, work, trouble, cutOff>>

\* A mutant of Settled: a failed attempt leaves its claim.
SettledAckOnly(j) == IF work[j] = "ack" THEN "gone" ELSE message[j]

\* The message of a finished attempt: acknowledged, or pending again under
\* the name it had.
Settled(j) ==
    CASE work[j] = "ack" -> "gone"
      [] work[j] = "nack" -> "pending"
      [] OTHER -> message[j]

\* _drain_finished
Drain ==
    /\ loop = "drain"
    /\ message' = [j \in Jobs |-> Settled(j)]
    /\ work' = [j \in Jobs |-> IF work[j] \in {"ack", "nack"} THEN "none" ELSE work[j]]
    /\ loop' = "fill"
    /\ UNCHANGED <<apiVars, recordVars, operatorVars, trouble, cutOff>>

-----------------------------------------------------------------------------
\* One attempt, in a thread of the pool

Works(j, from, to) ==
    /\ work[j] = from
    /\ work' = [work EXCEPT ![j] = to]
    /\ UNCHANGED <<apiVars, operatorVars, message, loop, trouble, cutOff>>

\* An attempt that saves how its job has ended.
Saving(status) == IF status = "succeeded" THEN "succeeding" ELSE "failing"

AssetFound(j) == asset[j] = "ready"

\* A mutant of CanStart: a failed job is tried again.
CanStartAgain(j) == Answer(j) \in {"queued", "failed"}

\* What start() demands of the record that was loaded.
CanStart(j) == Answer(j) = "queued"

\* The job is loaded. A missing or unreadable record, a missing asset and a
\* job that is already running raise; a final record only gets another stage.
Load(j) ==
    \/ /\ Answer(j) \in {"error", "running"} \/ (CanStart(j) /\ ~AssetFound(j))
       /\ Works(j, "claimed", "nack")
       /\ UNCHANGED recordVars
    \/ /\ CanStart(j) /\ AssetFound(j)
       /\ Works(j, "claimed", "saving")
       /\ OpenRecord("attempt", j, "running")
    \/ /\ Answer(j) \in Ended
       /\ Works(j, "claimed", Saving(record[j]))
       /\ OpenRecord("attempt", j, record[j])

\* The record is filled. Every stage saves it once more; one save stands for
\* them all.
Saved(j) ==
    /\ Works(j, "saving", "rendering")
    /\ FillRecord("attempt", j, "running")

\* The attempt ends, one way or the other, and saves what it knows of the job.
Finish(j) ==
    \E status \in Ended :
        /\ Works(j, "rendering", Saving(status))
        /\ OpenRecord("attempt", j, status)

\* execute returns, or raises once the failure is saved.
Finished(j) ==
    \E status \in Ended, verdict \in {"ack", "nack"} :
        /\ verdict = "nack" => status = "failed"
        /\ Works(j, Saving(status), verdict)
        /\ FillRecord("attempt", j, status)

\* The process is replaced: nobody knows of its claimed messages any more,
\* and a record it was writing stays truncated.
ProcessLost ==
    /\ loop' = "fill"
    /\ work' = [j \in Jobs |-> "none"]
    /\ cutOff' = cutOff \cup Busy
    /\ PensUp("attempt")
    /\ UNCHANGED <<apiVars, record, torn, operatorVars, message, trouble>>

-----------------------------------------------------------------------------
ApiStep(j) ==
    \/ PutMeta(j) \/ LookUp(j) \/ CreateBegins(j) \/ CreateEnds(j)
    \/ PublishBegins(j) \/ PublishEnds(j)

OperatorStep(j) == OperatorReads(j) \/ MarkBegins(j) \/ MarkEnds(j) \/ Delete(j)

Attempt(j) == Load(j) \/ Saved(j) \/ Finish(j) \/ Finished(j)

LoopStep == Receive \/ FillEnds \/ Drain

WorkerStep == LoopStep \/ \E j \in Jobs : Attempt(j)

-----------------------------------------------------------------------------
\* Properties

\* A message the worker is handed has its record and its source asset behind
\* it: the order of the writes of upload and creation holds across the three
\* stores, unless an operator has deleted the record since.
DeliveredIsReady ==
    \A j \in Jobs : work[j] # "none" =>
        asset[j] = "ready" /\ (record[j] # "none" \/ j \in deleted)

\* A message is given up only when its job has ended or was deleted: neither
\* a crash nor a failed attempt loses a job that is still to be done. Its
\* record can be read then, unless an operator has written it, too.
AcknowledgedHasEnded ==
    \A j \in Jobs : message[j] = "gone" =>
        record[j] \in Ended \cup {"none"} /\ (j \in torn => j \in marked)

\* A claimed message without a worker is lost for good, and that takes the
\* end of the process or of the loop's thread. No ordinary failure does it.
StrandedWasCutOff ==
    \A j \in Jobs : message[j] = "claimed" /\ work[j] = "none" => j \in cutOff
=============================================================================
