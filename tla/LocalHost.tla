----------------------------- MODULE LocalHost -----------------------------
(***************************************************************************)
(* The whole application on one host: the page, the API and the worker     *)
(* over the file backend, with the worker's control plane. They meet in    *)
(* two places. The page sees the record files as the other two leave them, *)
(* half-written ones included; and whatever ends the worker's process,     *)
(* a command of an operator or a crash, ends its control loop and the      *)
(* attempts of its slots in one moment.                                    *)
(***************************************************************************)
EXTENDS WorkerActions, LocalStores, WebClient

CONSTANTS
    Watched,    \* the job the page shows
    Scenarios   \* what operators, callers and faults may do, one at a time

ASSUME HostConstantsAssumption ==
    /\ Watched \in Jobs
    /\ Scenarios \subseteq [control : [Kinds \cup Mishaps -> Nat],
                           local : [{"jobs", "page", "api", "operator"} -> Nat]]

vars == <<actionVars, storeVars, pageVars>>

HostInit ==
    /\ \E s \in Scenarios : ActionsInit(s.control) /\ LocalInit(s.local)
    /\ PageInit

HostTypeOK == ActionsTypeOK /\ LocalTypeOK /\ PageTypeOK

ControlRuns == ProcessStays /\ UNCHANGED <<storeVars, pageVars>>

\* The control loop and the job loop share a process.
ProcessReplaced == ProcessStops /\ ProcessLost /\ UNCHANGED pageVars

WorkerRuns == worker = "up" /\ WorkerStep /\ UNCHANGED <<actionVars, pageVars>>

ApiRuns ==
    /\ \E j \in Jobs : PutBytes(j) \/ ApiStep(j) \/ OperatorStep(j)
    /\ UNCHANGED <<actionVars, pageVars>>

\* With its process go the requests about jobs and those about the worker.
ApiEnds ==
    /\ ApiBusy \/ held[<<"api", 0>>] # Nothing
    /\ ApiDies /\ AskLost /\ UNCHANGED pageVars

PageSubmits ==
    /\ request[Watched] = "answered"
    /\ Spend("page")
    /\ Submitted(Answer(Watched))
    /\ UNCHANGED <<actionVars, apiVars, recordVars, operatorVars, message, workerVars>>

PagePolls(c) == PollSent(c) \/ PollServed(c, Answer(Watched)) \/ PollReturns(c)

PageRuns ==
    \/ PageSubmits
    \/ (\E c \in Calls : PagePolls(c)) /\ UNCHANGED <<actionVars, storeVars>>

HostNext == ControlRuns \/ ProcessReplaced \/ WorkerRuns \/ ApiRuns \/ ApiEnds \/ PageRuns

\* The threads of the worker run while it is up, the browser's timer ticks and
\* its calls are answered. Callers, operators, helpers and faults owe nothing.
HostFairness ==
    /\ WF_vars(ControlStep /\ UNCHANGED <<storeVars, pageVars>>)
    /\ WF_vars(worker = "up" /\ LoopStep /\ UNCHANGED <<actionVars, pageVars>>)
    /\ \A j \in Jobs : WF_vars(worker = "up" /\ Attempt(j) /\ UNCHANGED <<actionVars, pageVars>>)
    /\ \A c \in Calls : WF_vars(PagePolls(c) /\ UNCHANGED <<actionVars, storeVars>>)

HostSpec == HostInit /\ [][HostNext]_vars /\ HostFairness

-----------------------------------------------------------------------------
\* Properties of the composition

\* The file backend keeps the promised lifecycle of every job too, with the
\* worker's process replaced at any point and records half written, until an
\* operator deletes the job or marks it failed: an attempt that is rendering
\* saves it again, as running or with an end of its own.
Lifecycle == INSTANCE JobLifecycle WITH
    phase <- [j \in Jobs |-> IF j \in deleted \cup marked THEN "withdrawn"
                            ELSE IF record[j] = "none" THEN "absent" ELSE record[j]],
    settled <- [j \in Jobs |-> message[j] = "gone"]

HostLifecycle == Lifecycle!Spec

\* A queued job is taken up as long as there are fewer messages of deleted
\* jobs, which come back for ever, than slots, and the worker stays up.
QueuedIsTakenUp ==
    \A j \in Jobs :
        (message[j] = "pending" /\ record[j] = "queued") ~>
            (record[j] # "queued" \/ j \in cutOff \/ loop = "dead" \/ worker = "down")

\* The page comes to show the end of the job it watches, even when an older
\* answer overtakes a newer one and takes it back to running: that restarts
\* the timer. Only a failed poll can leave it behind, and a poll fails when
\* it meets a record that is being written.
PageSettles ==
    (shown # "nothing" /\ record[Watched] \in Ended) ~>
        (shown \in Ended \/ pollFailed \/ record[Watched] \notin Ended)
=============================================================================
