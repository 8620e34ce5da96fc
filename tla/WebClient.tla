----------------------------- MODULE WebClient -----------------------------
(***************************************************************************)
(* The page's view of one job. A timer sends a poll every 350 ms whether   *)
(* or not the last one has been answered; every answer is shown, in the    *)
(* order of arrival, and starts a new timer if the job is still going. A   *)
(* poll that fails stops the timer it belongs to.                          *)
(***************************************************************************)
EXTENDS Naturals

CONSTANT Calls    \* polls that may be under way at once

VARIABLES
    shown,       \* status of the job shown, or "nothing"
    polling,     \* the timer runs
    call,        \* per poll: not sent, sent, or its answer
    mine,        \* the poll was sent by the timer that runs now
    pollFailed   \* history: a poll failed

pageVars == <<shown, polling, call, mine, pollFailed>>

JobStatus == {"queued", "running", "succeeded", "failed"}

PageTypeOK ==
    /\ shown \in JobStatus \cup {"nothing"}
    /\ polling \in BOOLEAN
    /\ call \in [Calls -> {"idle", "sent", "error"} \cup JobStatus]
    /\ mine \in [Calls -> BOOLEAN]
    /\ pollFailed \in BOOLEAN

PageInit ==
    /\ shown = "nothing"
    /\ polling = FALSE
    /\ call = [c \in Calls |-> "idle"]
    /\ mine = [c \in Calls |-> FALSE]
    /\ pollFailed = FALSE

\* A mutant of isJobStillProcessing: a running job is not polled.
isJobStillQueued(status) == status = "queued"

isJobStillProcessing(status) == status \in {"queued", "running"}

\* setJob: the effect runs again, with a timer of its own or none.
SetJob(status) ==
    /\ shown' = status
    /\ polling' = isJobStillProcessing(status)
    /\ mine' = [c \in Calls |-> FALSE]

\* submitJob: the created job is fetched once and shown. If that fails, the
\* page shows an error, and the same request may be made again.
Submitted(answer) ==
    /\ shown = "nothing"
    /\ answer # "error"
    /\ SetJob(answer)
    /\ UNCHANGED <<call, pollFailed>>

PollSent(c) ==
    /\ polling
    /\ call[c] = "idle"
    /\ call' = [call EXCEPT ![c] = "sent"]
    /\ mine' = [mine EXCEPT ![c] = TRUE]
    /\ UNCHANGED <<shown, polling, pollFailed>>

\* The API reads the record; the answer is on its way.
PollServed(c, answer) ==
    /\ call[c] = "sent"
    /\ call' = [call EXCEPT ![c] = answer]
    /\ UNCHANGED <<shown, polling, mine, pollFailed>>

PollReturns(c) ==
    /\ call[c] \notin {"idle", "sent"}
    /\ call' = [call EXCEPT ![c] = "idle"]
    /\ IF call[c] = "error"
       THEN /\ polling' = (polling /\ ~mine[c])
            /\ mine' = [mine EXCEPT ![c] = FALSE]
            /\ pollFailed' = TRUE
            /\ UNCHANGED shown
       ELSE SetJob(call[c]) /\ UNCHANGED pollFailed

=============================================================================
