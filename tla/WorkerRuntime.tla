--------------------------- MODULE WorkerRuntime ---------------------------
(***************************************************************************)
(* One worker process: the WorkerLoop thread in the order of tick(), the   *)
(* attempts on its pool threads as far as they report to the               *)
(* WorkerStateService, that service's state in memory and in the store,    *)
(* the control thread's reports, the update helpers, which are processes   *)
(* with a WorkerStateService of their own on the same store, and the API's *)
(* lost-job diagnosis, which reads the stored state.                       *)
(*                                                                         *)
(* A step is one call of a shared port; methods of the state service hold  *)
(* its lock for their whole length.  What attempts do to the job record is *)
(* RenderJobs: here a record is absent, queued, running or ended, it is    *)
(* read and started in one step.  Time passes freely between two steps, so *)
(* any live record may be older than WORKER_STALE_THRESHOLD_SEC.           *)
(* in_flight_jobs is a set: its order only picks current_job_id, always    *)
(* one of its members.                                                     *)
(***************************************************************************)
EXTENDS Naturals, FiniteSets

CONSTANTS
  Jobs,
  Slots,     \* places in _in_flight, as many pool threads
  Helpers,   \* the update helpers that may run at once
  Allowed,   \* the disturbances that may happen
  Troubles,  \* bound on how many of them do
  NoJob

Disturbance == {"crash",    \* the process dies and is started again
                "expire",   \* a visibility timeout passes during handling
                "port",     \* an attempt's own work raises, or a probe fails
                "queue",    \* receive, delete or return raises
                "state",    \* a write of the worker state raises
                "helper"}   \* an update helper is launched

ASSUME WorkerConstantsAssumption ==
  /\ NoJob \notin Jobs
  /\ Allowed \subseteq Disturbance
  /\ Troubles \in Nat

VARIABLES
  loop,       \* where tick() is; "dead": an exception ended its thread
  batch,      \* finished futures this drain has still to pop
  processed,  \* the local variable of tick()
  delivery,   \* delivery[s]: the job whose delivery slot s holds
  attempt,    \* attempt[s]: how far its attempt has come
  memory,     \* WorkerStateService._state
  stored,     \* runtime/worker-state.json
  helper,     \* helper[h]: how far update helper h has come
  copy,       \* copy[h]: the worker state it has read
  record,     \* record[j]: the stored job record
  message,    \* message[j]: the queue message
  seen,       \* the stale live job a diagnosis under way has read
  abandoned,  \* history: jobs whose attempt was lost with the process or the loop
  doubled,    \* history: jobs whose message expired while a slot held it
  revived,    \* history: jobs whose entry a helper's old state put back
  dropped,    \* history: jobs whose entry a helper's old state lacked
  troubles    \* disturbances still to come

loopVars == <<loop, batch, processed>>
slots == <<delivery, attempt>>
service == <<memory, stored>>
helpers == <<helper, copy, revived, dropped>>
history == <<abandoned, doubled, helpers>>
vars == <<loop, batch, processed, delivery, attempt, memory, stored, record, message,
          seen, abandoned, doubled, helper, copy, revived, dropped, troubles>>

State == [listed : SUBSET Jobs, status : {"idle", "processing", "error"}, error : BOOLEAN]

WorkerTypeOK ==
  /\ loop \in {"boot", "drain", "settle", "receive", "redrain", "resettle", "rest", "dead"}
  /\ batch \subseteq Slots
  /\ processed \in BOOLEAN
  /\ delivery \in [Slots -> Jobs \cup {NoJob}]
  /\ attempt \in [Slots -> {"free", "early", "probe", "submit", "poll", "finished",
                            "except", "emit", "returned", "raised", "reported"}]
  /\ memory \in State
  /\ stored \in State
  /\ record \in [Jobs -> {"absent", "queued", "running", "ended"}]
  /\ message \in [Jobs -> {"none", "visible", "taken", "gone"}]
  /\ seen \subseteq Jobs
  /\ abandoned \subseteq Jobs
  /\ doubled \subseteq Jobs
  /\ helper \in [Helpers -> {"none", "reading", "writing"}]
  /\ copy \in [Helpers -> State]
  /\ revived \subseteq Jobs
  /\ dropped \subseteq Jobs
  /\ troubles \in 0..Troubles
  /\ \A s \in Slots : attempt[s] = "free" <=> delivery[s] = NoJob

NewState == [listed |-> {}, status |-> "idle", error |-> FALSE]

Init ==
  /\ loop = "boot" /\ batch = {} /\ processed = FALSE
  /\ delivery = [s \in Slots |-> NoJob]
  /\ attempt = [s \in Slots |-> "free"]
  /\ memory = NewState /\ stored = NewState
  /\ record = [j \in Jobs |-> "absent"]
  /\ message = [j \in Jobs |-> "none"]
  /\ seen = {} /\ abandoned = {} /\ doubled = {}
  /\ helper = [h \in Helpers |-> "none"]
  /\ copy = [h \in Helpers |-> NewState]
  /\ revived = {} /\ dropped = {}
  /\ troubles = Troubles

Spend(d) ==
  /\ d \in Allowed
  /\ troubles > 0
  /\ troubles' = troubles - 1

Busy(s) == attempt[s] # "free"
Live(j) == record[j] \in {"queued", "running"}

-----------------------------------------------------------------------------
(* WorkerStateService: what each report makes of the state *)

Booted(st) == IF st.listed = {} THEN [st EXCEPT !.status = "idle"] ELSE st

Rested(st) ==
  IF st.listed = {} /\ ~st.error THEN [st EXCEPT !.status = "idle"] ELSE st

(* job_submitted and job_polled: both replace or append the entry. *)
InFlight(st, j) == [st EXCEPT !.listed = @ \cup {j}, !.status = "processing"]

\* mutant of Finished: the list is cleared
FinishedAll(st, j) == [listed |-> {}, status |-> "idle", error |-> FALSE]
Finished(st, j) ==
  LET rest == st.listed \ {j} IN
  [listed |-> rest, status |-> IF rest = {} THEN "idle" ELSE "processing", error |-> FALSE]

\* mutant of FailedState: the status does not look at the other jobs
FailedAlone(st, j) == [listed |-> st.listed \ {j}, status |-> "error", error |-> TRUE]
\* mutant of FailedState: the entry stays in the list
FailedKeepsEntry(st, j) == [st EXCEPT !.error = TRUE]
FailedState(st, j) ==
  LET rest == st.listed \ {j} IN
  [listed |-> rest, status |-> IF rest = {} THEN "error" ELSE "processing", error |-> TRUE]

Probed(st, ok) ==
  [st EXCEPT !.error = ~ok, !.status = IF st.listed = {} THEN "idle" ELSE "processing"]

(* The memory is changed first; a put that raises may have written. *)
Report(st) == memory' = st /\ stored' = st
ReportRaises(st) == Spend("state") /\ memory' = st /\ stored' \in {stored, st}

-----------------------------------------------------------------------------
(* WorkerLoop *)

LoopGoto(place) == loop' = place /\ UNCHANGED <<batch, processed>>

Boot ==
  /\ loop = "boot"
  /\ \/ Report(Booted(memory)) /\ LoopGoto("drain") /\ UNCHANGED troubles
     \/ ReportRaises(Booted(memory)) /\ LoopGoto("dead")
  /\ UNCHANGED <<slots, record, message, seen, history>>

\* mutant of Done: futures that raised are not collected
DoneWithResult == {s \in Slots : attempt[s] = "returned"}
Done == {s \in Slots : attempt[s] \in {"returned", "raised"}}

(* The list of finished futures is taken before any of them is settled. *)
Drain ==
  /\ loop \in {"drain", "redrain"}
  /\ batch' = Done
  /\ processed' = (Done # {} \/ (loop = "redrain" /\ processed))
  /\ loop' = IF loop = "drain" THEN "settle" ELSE "resettle"
  /\ UNCHANGED <<slots, service, record, message, seen, history, troubles>>

Settling(s) == loop \in {"settle", "resettle"} /\ s \in batch

\* mutant of Popped: the delivery is only looked up
PoppedKept(s) ==
  /\ UNCHANGED delivery
  /\ attempt' = [attempt EXCEPT ![s] = "free"]
  /\ batch' = batch \ {s}
(* _in_flight.pop(future) took the delivery out of the dictionary. *)
Popped(s) ==
  /\ delivery' = [delivery EXCEPT ![s] = NoJob]
  /\ attempt' = [attempt EXCEPT ![s] = "free"]
  /\ batch' = batch \ {s}

(* Nothing obliges the queue to honour an outdated receipt. *)
Sole(s) == message[delivery[s]] = "taken" /\ \A t \in Slots \ {s} : delivery[t] # delivery[s]
Settled(s, fate) ==
  \/ /\ message[delivery[s]] = "taken" \/ fate = "gone"
     /\ message' = [message EXCEPT ![delivery[s]] = fate]
  \/ ~Sole(s) /\ UNCHANGED message

(* An exception here ends the loop thread with the delivery popped. *)
LoopDies(s) ==
  /\ loop' = "dead"
  /\ Popped(s)
  /\ abandoned' = abandoned \cup {delivery[s]}
  /\ UNCHANGED <<processed, doubled, helpers>>

Ack(s) ==
  /\ Settling(s) /\ attempt[s] = "returned"
  /\ \/ Settled(s, "gone") /\ Popped(s) /\ UNCHANGED <<loop, processed, history, troubles>>
     \/ /\ Spend("queue") /\ LoopDies(s)
        /\ Settled(s, "gone") \/ UNCHANGED message
  /\ UNCHANGED <<service, record, seen>>

(* job_failed comes before nack. *)
ReportFailure(s) ==
  /\ Settling(s) /\ attempt[s] = "raised"
  /\ LET st == FailedState(memory, delivery[s]) IN
     \/ /\ Report(st)
        /\ attempt' = [attempt EXCEPT ![s] = "reported"]
        /\ UNCHANGED <<loopVars, delivery, message, history, troubles>>
     \/ ReportRaises(st) /\ LoopDies(s) /\ UNCHANGED message
  /\ UNCHANGED <<record, seen>>

Nack(s) ==
  /\ Settling(s) /\ attempt[s] = "reported"
  /\ \/ Settled(s, "visible") /\ Popped(s) /\ UNCHANGED <<loop, processed, history, troubles>>
     \/ /\ Spend("queue") /\ LoopDies(s)
        /\ Settled(s, "visible") \/ UNCHANGED message
  /\ UNCHANGED <<service, record, seen>>

(* The first drain leads to the receives, the second to the end of tick(). *)
EndDrain ==
  /\ batch = {}
  /\ \/ loop = "settle" /\ LoopGoto("receive")
     \/ /\ loop = "resettle"
        /\ LoopGoto(IF processed \/ \E s \in Slots : Busy(s) THEN "drain" ELSE "rest")
  /\ UNCHANGED <<slots, service, record, message, seen, history, troubles>>

Receive(s) ==
  /\ loop = "receive" /\ ~Busy(s)
  /\ \E j \in Jobs :
       /\ message[j] = "visible"
       /\ message' = [message EXCEPT ![j] = "taken"]
       /\ delivery' = [delivery EXCEPT ![s] = j]
  /\ attempt' = [attempt EXCEPT ![s] = "early"]
  /\ processed' = TRUE
  /\ UNCHANGED <<loop, batch, service, record, seen, history, troubles>>

EndReceive ==
  /\ loop = "receive"
  /\ \/ \A s \in Slots : Busy(s)
     \/ \A j \in Jobs : message[j] # "visible"
  /\ LoopGoto("redrain")
  /\ UNCHANGED <<slots, service, record, message, seen, history, troubles>>

(* The queue may have hidden a message whose delivery never arrives. *)
ReceiveRaises ==
  /\ loop = "receive" /\ \E s \in Slots : ~Busy(s)
  /\ Spend("queue")
  /\ LoopGoto("dead")
  /\ \/ UNCHANGED message
     \/ \E j \in Jobs : message[j] = "visible" /\ message' = [message EXCEPT ![j] = "taken"]
  /\ UNCHANGED <<slots, service, record, seen, history>>

(* heartbeat_idle writes when something changed or the interval is over. *)
Heartbeat ==
  /\ loop = "rest"
  /\ LET st == Rested(memory) IN
     \/ Report(st) /\ LoopGoto("drain") /\ UNCHANGED troubles
     \/ st = memory /\ LoopGoto("drain") /\ UNCHANGED <<service, troubles>>
     \/ ReportRaises(st) /\ LoopGoto("dead")
  /\ UNCHANGED <<slots, record, message, seen, history>>

-----------------------------------------------------------------------------
(* The attempts: ProcessJobUseCase.execute and its observer calls *)

Goto(s, place) == attempt' = [attempt EXCEPT ![s] = place]

Stored(j, status) == record' = [record EXCEPT ![j] = status]

(* Everything up to the RUNNING update; a raise here never reaches the     *)
(* except block, so nobody but the loop reports it.                        *)
Begin(s) ==
  /\ attempt[s] = "early"
  /\ LET j == delivery[s] IN
     \/ record[j] = "ended" /\ Goto(s, "returned") /\ UNCHANGED <<record, troubles>>
     \/ record[j] = "running" /\ Goto(s, "raised") /\ UNCHANGED <<record, troubles>>
     \/ record[j] = "queued" /\ Stored(j, "running") /\ Goto(s, "probe") /\ UNCHANGED troubles
     \/ /\ Spend("port") /\ Goto(s, "raised")
        /\ UNCHANGED record \/ (record[j] = "queued" /\ Stored(j, "running"))
  /\ UNCHANGED <<loopVars, delivery, service, message, seen, history>>

(* A report of the observer, or an exception of it or of the work before.  *)
Observe(s, st, place, error) ==
  /\ \/ Report(st) /\ Goto(s, place) /\ UNCHANGED troubles
     \/ ReportRaises(st) /\ Goto(s, error)
  /\ UNCHANGED <<loopVars, delivery, record, message, seen, history>>

WorkRaises(s) ==
  /\ attempt[s] \in {"probe", "submit", "poll"}
  /\ Spend("port")
  /\ Goto(s, "except")
  /\ UNCHANGED <<loopVars, delivery, service, record, message, seen, history>>

(* capabilities_refreshed writes the memory as it is. *)
Probe(s) == attempt[s] = "probe" /\ Observe(s, memory, "submit", "except")

Submit(s) ==
  /\ attempt[s] = "submit"
  /\ Observe(s, InFlight(memory, delivery[s]), "poll", "except")

Poll(s) ==
  /\ attempt[s] = "poll"
  /\ Observe(s, InFlight(memory, delivery[s]), "poll", "except")

(* A result, at once or from a poll, and the SUCCEEDED update; the write   *)
(* may raise after it was done.                                            *)
Complete(s) ==
  /\ attempt[s] = "poll"
  /\ Stored(delivery[s], "ended")
  /\ \/ Goto(s, "finished") /\ UNCHANGED troubles
     \/ Spend("port") /\ Goto(s, "except")
  /\ UNCHANGED <<loopVars, delivery, service, message, seen, history>>

EmitFinished(s) ==
  /\ attempt[s] = "finished"
  /\ Observe(s, Finished(memory, delivery[s]), "returned", "except")

(* The except block's own update; when it raises, job_failed is not called.*)
Except(s) ==
  /\ attempt[s] = "except"
  /\ \/ Stored(delivery[s], "ended") /\ Goto(s, "emit") /\ UNCHANGED troubles
     \/ /\ Spend("port") /\ Goto(s, "raised")
        /\ UNCHANGED record \/ Stored(delivery[s], "ended")
  /\ UNCHANGED <<loopVars, delivery, service, message, seen, history>>

EmitFailed(s) ==
  /\ attempt[s] = "emit"
  /\ Observe(s, FailedState(memory, delivery[s]), "raised", "raised")

-----------------------------------------------------------------------------
(* The control thread, the API and the surroundings *)

DiagnosticProbe ==
  /\ \E ok \in BOOLEAN :
       \/ Report(Probed(memory, ok)) /\ IF ok THEN UNCHANGED troubles ELSE Spend("port")
       \/ ReportRaises(Probed(memory, ok))
  /\ UNCHANGED <<loopVars, slots, record, message, seen, history>>

(* action_state: what the executor tells of a command is no part of State. *)
ActionReported ==
  /\ \/ Report(memory) /\ UNCHANGED troubles
     \/ ReportRaises(memory)
  /\ UNCHANGED <<loopVars, slots, record, message, seen, history>>

(* GetSystemDiagnosticsUseCase reads the jobs, then the worker state; it    *)
(* judges each stale job by itself, and the model follows one of them.     *)
DiagnosisReads ==
  /\ seen = {}
  /\ \E j \in Jobs : Live(j) /\ seen' = {j}
  /\ UNCHANGED <<loopVars, slots, service, record, message, history, troubles>>

Lost == {j \in seen : j \notin stored.listed \/ stored.status = "idle"}

DiagnosisAnswers ==
  /\ seen # {}
  /\ seen' = {}
  /\ UNCHANGED <<loopVars, slots, service, record, message, history, troubles>>

Publish(j) ==
  /\ record[j] = "absent"
  /\ record' = [record EXCEPT ![j] = "queued"]
  /\ message' = [message EXCEPT ![j] = "visible"]
  /\ UNCHANGED <<loopVars, slots, service, seen, history, troubles>>

Held(j) == \E s \in Slots : delivery[s] = j

VisibilityExpires(j) ==
  /\ message[j] = "taken"
  /\ IF Held(j)
     THEN Spend("expire") /\ doubled' = doubled \cup {j}
     ELSE UNCHANGED <<troubles, doubled>>
  /\ message' = [message EXCEPT ![j] = "visible"]
  /\ UNCHANGED <<loopVars, slots, service, record, seen, abandoned, helpers>>

(* The new process loads the stored state on its first use of it. *)
Restarted ==
  /\ loop' = "boot" /\ batch' = {} /\ processed' = FALSE
  /\ delivery' = [s \in Slots |-> NoJob]
  /\ attempt' = [s \in Slots |-> "free"]
  /\ memory' = stored
  /\ abandoned' = abandoned \cup {j \in Jobs : Held(j)}

Crash ==
  /\ Spend("crash")
  /\ Restarted
  /\ UNCHANGED <<stored, record, message, seen, doubled, helpers>>

(* An update helper pulls, builds and replaces the worker's container, or  *)
(* fails before it comes to that.                                          *)
HelperUpdates(h) ==
  /\ helper[h] = "none"
  /\ Spend("helper")
  /\ helper' = [helper EXCEPT ![h] = "reading"]
  /\ \/ Restarted
     \/ UNCHANGED <<loopVars, slots, memory, abandoned>>
  /\ UNCHANGED <<stored, record, message, seen, doubled, copy, revived, dropped>>

(* Its last call is an action_state on a service of its own, which loads   *)
(* the stored state, whoever writes it meanwhile, ...                      *)
HelperReads(h) ==
  /\ helper[h] = "reading"
  /\ helper' = [helper EXCEPT ![h] = "writing"]
  /\ copy' = [copy EXCEPT ![h] = stored]
  /\ UNCHANGED <<loopVars, slots, service, record, message, seen, abandoned, doubled,
                 revived, dropped, troubles>>

(* ... and persists it whole, the list of the jobs in flight included.     *)
HelperWrites(h) ==
  /\ helper[h] = "writing"
  /\ helper' = [helper EXCEPT ![h] = "none"]
  /\ copy' = [copy EXCEPT ![h] = NewState]
  /\ stored' = copy[h]
  /\ revived' = revived \cup (copy[h].listed \ stored.listed)
  /\ dropped' = dropped \cup (stored.listed \ copy[h].listed)
  /\ UNCHANGED <<loopVars, slots, memory, record, message, seen, abandoned, doubled, troubles>>

-----------------------------------------------------------------------------
LoopThread ==
  \/ Boot \/ Drain \/ EndDrain \/ EndReceive \/ ReceiveRaises \/ Heartbeat
  \/ \E s \in Slots : Ack(s) \/ ReportFailure(s) \/ Nack(s) \/ Receive(s)

(* What an attempt must go on with; it need not poll again. *)
Proceed(s) ==
  \/ Begin(s) \/ Probe(s) \/ Submit(s) \/ WorkRaises(s) \/ Complete(s)
  \/ EmitFinished(s) \/ Except(s) \/ EmitFailed(s)

Next ==
  \/ LoopThread
  \/ \E s \in Slots : Proceed(s) \/ Poll(s)
  \/ DiagnosticProbe \/ ActionReported \/ DiagnosisReads \/ DiagnosisAnswers \/ Crash
  \/ \E h \in Helpers : HelperUpdates(h) \/ HelperReads(h) \/ HelperWrites(h)
  \/ \E j \in Jobs : Publish(j) \/ VisibilityExpires(j)

Spec == Init /\ [][Next]_vars

(* The threads are scheduled, the TTL ends the poll loop, and the queue    *)
(* shows a hidden message again when no slot holds its delivery.           *)
Fairness ==
  /\ WF_vars(LoopThread)
  /\ \A s \in Slots : WF_vars(Proceed(s))
  /\ \A j \in Jobs : WF_vars(~Held(j) /\ VisibilityExpires(j))

FairSpec == Spec /\ Fairness

-----------------------------------------------------------------------------
(* Properties *)

(* No ghosts: a job the worker state lists as in flight has an attempt in  *)
(* this worker, whatever reports failed or deliveries were doubled, unless *)
(* its attempt was lost with the process or with the loop thread, or an    *)
(* update helper wrote back a state from before the entry was removed.     *)
NoGhost ==
  \A j \in memory.listed \cup stored.listed : Held(j) \/ j \in abandoned \cup revived

(* The published status is "processing" exactly while jobs are listed,     *)
(* though five reports, the heartbeat and the boot each set it and update  *)
(* helpers write back what they have read.                                 *)
StatusShowsWork == \A st \in {memory, stored} : st.status = "processing" <=> st.listed # {}

(* api.md: a job listed in flight is not lost.  A job whose attempt waits  *)
(* for ML is never reported lost, unless its delivery was doubled (the     *)
(* first of two attempts to end removes the entry of both) or an update    *)
(* helper wrote back a state from before its entry.                        *)
PolledIsNotLost ==
  [][DiagnosisAnswers =>
       \A s \in Slots :
         attempt[s] = "poll" => delivery[s] \notin Lost \ (doubled \cup dropped)]_vars

(* Every attempt ends and its delivery is settled, unless an exception has *)
(* ended the loop thread.                                                  *)
AttemptsSettle == \A s \in Slots : Busy(s) ~> ~Busy(s) \/ loop = "dead"

(* A ghost of a job that has not ended goes: its message comes back, the   *)
(* new attempt fails, and the loop's own job_failed removes the entry.     *)
GhostsLeave ==
  \A j \in Jobs :
    j \in stored.listed ~> j \notin stored.listed \/ record[j] = "ended" \/ loop = "dead"

(* jobs.md: a job is lost only when worker and queue show no matching      *)
(* active work.                                                            *)
LostHasNoMessage ==
  [][DiagnosisAnswers => \A j \in Lost : message[j] # "visible"]_vars
=============================================================================
