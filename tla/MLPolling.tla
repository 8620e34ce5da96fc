----------------------------- MODULE MLPolling -----------------------------
(***************************************************************************)
(* One attempt after another asks an ML service for a render:              *)
(* MLCorePipelineAdapter (probe, submit, poll, cancel) driven by the poll  *)
(* loop of ProcessJobUseCase.execute, the services at the other end, and   *)
(* the runtime override that says which service the next attempt uses.     *)
(*                                                                         *)
(* The worker cannot see inside a service: it may take a request and lose  *)
(* the answer, forget its jobs, change what it offers, or never finish.    *)
(* What the worker publishes about the service (WorkerRuntimeState's       *)
(* capability fields) is shared by the attempts of old and new addresses.  *)
(*                                                                         *)
(* Nothing extends the visibility of a message, so two attempts of one job *)
(* may overlap.  Each works on its own copy of the record and writes it    *)
(* whole; of the record only the status is here, RenderJobs has the rest.  *)
(***************************************************************************)
EXTENDS Integers, FiniteSets

CONSTANTS
    Jobs,        \* business jobs
    Attempts,    \* deliveries of their messages; each is handled once
    JobOf,       \* the job of each delivery
    Urls,        \* addresses an ML service may have
    None,        \* no address: the stub renders
    Configured,  \* LEGACY_ML_BASE_URL, or None
    Offers,      \* what a service may offer
    TTL,         \* JOB_TTL_MS, in ticks
    Refresh,     \* CAPABILITIES_REFRESH_INTERVAL, in ticks
    MaxRetries,  \* MAX_RETRIES
    Trouble      \* how often each thing may go wrong

\* MLCoreHealthResponse and MLCoreCapabilitiesResponse as far as they decide
\* the submit mode, and the protocols the address answers.
Offer == [speaks : SUBSET {"core", "legacy"}, accepting : BOOLEAN,
          async : BOOLEAN, prefers : {"sync", "async"}]

Faults == {"call",     \* a call of an attempt raises, or is not answered
           "config",   \* the override is changed
           "crash",    \* the worker process is started again
           "expire",   \* a visibility timeout passes during an attempt
           "service",  \* another version of a service is deployed
           "any"}      \* any of these

ASSUME MLConstantsAssumption ==
    /\ JobOf \in [Attempts -> Jobs]
    /\ None \notin Urls
    /\ Configured \in Urls \cup {None}
    /\ Offers \subseteq Offer
    /\ TTL \in Nat /\ Refresh \in Nat /\ MaxRetries \in Nat
    /\ Trouble \in [Faults -> Nat]

VARIABLES
    override,    \* LocalRuntimeConfig.legacy_ml_base_url in the store
    service,     \* what answers at each address
    ml,          \* the asynchronous job of an attempt, at the service
    record,      \* status of the job's record
    copy,        \* the status an attempt has read, until it starts the job
    pc,          \* where an attempt is in execute; "raised": it failed the job
    url,         \* the address its adapter was built with
    mode,        \* the adapter's cached capabilities: the submit mode
    cacheAge,    \* ticks since they were probed
    age,         \* ticks since the job was submitted
    retries,     \* poll_retries
    shown,       \* published address and mode, and who was probed for it
    trouble,     \* what may still go wrong
    served,      \* history: attempts whose request was rendered
    blank,       \* history: attempts that got a placeholder or no artifact
    puzzled,     \* history: attempts told a status the adapter does not know
    timedOut,    \* history: polls of an attempt that timed out
    hit,         \* history: attempts another fault has reached
    doubled      \* history: jobs two of whose attempts overlapped

attemptVars == <<copy, pc, url, mode, cacheAge, age, retries>>
answers == <<served, blank>>
history == <<answers, puzzled, timedOut, hit, doubled>>
vars == <<override, service, ml, record, shown, trouble, attemptVars, history>>

Modes == {"stub", "legacy-sync", "sync", "async"}
JobStatus == {"queued", "running", "succeeded", "failed"}

\* What a service may say of a job: "odd" is a job at work under a status the
\* adapter does not know, "completed" has a result with artifacts, "blank" a
\* result with none, "empty" no result.
MLStatus == {"none", "live", "odd", "completed", "blank", "empty", "failed", "cancelled", "gone"}
AtWork == {"live", "odd"}

MLTypeOK ==
    /\ override \in Urls \cup {None}
    /\ service \in [Urls -> Offer]
    /\ ml \in [Attempts -> MLStatus]
    /\ record \in [Jobs -> JobStatus]
    /\ copy \in [Attempts -> JobStatus]
    /\ pc \in [Attempts -> {"new", "read", "claimed", "probe", "submit", "poll", "store",
                           "done", "raised"}]
    /\ url \in [Attempts -> Urls \cup {None}]
    /\ mode \in [Attempts -> Modes \cup {"unknown"}]
    /\ cacheAge \in [Attempts -> 0 .. Refresh]
    /\ age \in [Attempts -> 0 .. TTL + 1]
    /\ retries \in [Attempts -> 0 .. MaxRetries]
    /\ shown \in [url : Urls \cup {None}, mode : Modes \cup {"unknown"},
                  probed : Urls \cup {None}]
    /\ trouble \in [Faults -> Nat]
    /\ served \subseteq Attempts
    /\ blank \subseteq Attempts
    /\ puzzled \subseteq Attempts
    /\ timedOut \in [Attempts -> Nat]
    /\ hit \subseteq Attempts
    /\ doubled \subseteq Jobs

\* The override has priority over the environment.
Effective(o) == IF o # None THEN o ELSE Configured

Init ==
    /\ override = None
    /\ service \in [Urls -> Offers]
    /\ ml = [a \in Attempts |-> "none"]
    /\ record = [j \in Jobs |-> "queued"]
    /\ copy = [a \in Attempts |-> "queued"]
    /\ pc = [a \in Attempts |-> "new"]
    /\ url = [a \in Attempts |-> None]
    /\ mode = [a \in Attempts |-> "unknown"]
    /\ cacheAge = [a \in Attempts |-> 0]
    /\ age = [a \in Attempts |-> 0]
    /\ retries = [a \in Attempts |-> 0]
    /\ shown = [url |-> Effective(None), mode |-> "unknown", probed |-> Effective(None)]
    /\ trouble = Trouble
    /\ served = {} /\ blank = {} /\ puzzled = {}
    /\ timedOut = [a \in Attempts |-> 0]
    /\ hit = {} /\ doubled = {}

Spend(kind) ==
    /\ trouble[kind] > 0 /\ trouble["any"] > 0
    /\ trouble' = [trouble EXCEPT ![kind] = @ - 1, !["any"] = @ - 1]

-----------------------------------------------------------------------------
\* The published state

\* A mutant of Synced: the capabilities of the old address stay.
SyncedAddressOnly(s, o) == [s EXCEPT !.url = Effective(o)]

\* A changed address resets what is known about the service.
Synced(s, o) ==
    IF s.url = Effective(o) THEN s
    ELSE [url |-> Effective(o), mode |-> "unknown", probed |-> Effective(o)]

\* capabilities_refreshed: the snapshot first, then the address. The snapshot
\* does not say which address was probed.
Refreshed(s, a, m) ==
    Synced([s EXCEPT !.mode = IF m = "async" THEN "async" ELSE "sync", !.probed = url[a]],
           override)

Report == shown' = Synced(shown, override)

-----------------------------------------------------------------------------
\* What the adapter makes of a service's answers

\* The submit mode a handshake leads to.
Handshake(o) == IF o.accepting /\ o.async /\ o.prefers = "async" THEN "async" ELSE "sync"

\* GET /test, all that is left to ask when the handshake has failed.
AnswersTest(u) == "legacy" \in service[u].speaks

\* The mode a probe of address u may find. When the handshake fails, an
\* address that still answers /test is taken for a legacy service.
Probed(u, fails) ==
    IF u = None THEN {"stub"}
    ELSE CASE "core" \in service[u].speaks /\ ~fails -> {Handshake(service[u])}
           [] AnswersTest(u) -> {"legacy-sync"}
           [] OTHER -> {}

\* The capabilities submit finds in the adapter or, when they are too old,
\* probes again.
Capabilities(a, fails) ==
    IF mode[a] # "unknown" /\ (url[a] = None \/ cacheAge[a] < Refresh)
    THEN IF fails THEN {} ELSE {mode[a]}
    ELSE Probed(url[a], fails)

\* The service at u does what a request of mode m asks for.
Takes(u, m) ==
    CASE m = "stub" -> TRUE
      [] m = "sync" -> "core" \in service[u].speaks
      [] m = "legacy-sync" -> "legacy" \in service[u].speaks
      [] m = "async" -> "core" \in service[u].speaks /\ service[u].accepting /\ service[u].async

\* A mutant of PollStatus: a completed job counts without its result.
PollStatusUnchecked(status) ==
    CASE status = "live" -> "running"
      [] status \in {"completed", "blank", "empty"} -> "succeeded"
      [] OTHER -> "failed"

\* PipelinePollResult.status for what the service says of the job. Nothing
\* looks into the result, and a status nobody knows is a failure.
PollStatus(status) ==
    CASE status = "live" -> "running"
      [] status \in {"completed", "blank"} -> "succeeded"
      [] OTHER -> "failed"

-----------------------------------------------------------------------------
\* The attempt

Ended(a) == pc[a] \in {"done", "raised"}
Active == {a \in Attempts : pc[a] # "new" /\ ~Ended(a)}

Put(a, status) == record' = [record EXCEPT ![JobOf[a]] = status]

\* A delivery arrives, while another of the same job is handled when its
\* visibility timeout has passed. It gets an adapter for the address in force
\* and a copy of the record.
Begin(a) ==
    /\ pc[a] = "new"
    /\ IF \E b \in Active : JobOf[b] = JobOf[a]
       THEN Spend("expire") /\ doubled' = doubled \cup {JobOf[a]}
       ELSE UNCHANGED <<trouble, doubled>>
    /\ copy' = [copy EXCEPT ![a] = record[JobOf[a]]]
    /\ url' = [url EXCEPT ![a] = Effective(override)]
    /\ pc' = [pc EXCEPT ![a] = "read"]
    /\ UNCHANGED <<override, service, ml, record, mode, cacheAge, age, retries, shown,
                   answers, puzzled, timedOut, hit>>

\* A mutant of Claims: a redelivered job is rendered again.
ClaimsAnyUnfinished(status) == status \in {"queued", "running"}

\* start() is legal for a queued record only.
Claims(status) == status = "queued"

\* The copy is written back with a stage more. A finished job is skipped, and
\* a running one refused, which nothing catches.
Claim(a) ==
    /\ pc[a] = "read"
    /\ Put(a, copy[a])
    /\ pc' = [pc EXCEPT ![a] = IF Claims(copy[a]) THEN "claimed" ELSE "done"]
    /\ UNCHANGED <<override, service, ml, copy, url, mode, cacheAge, age, retries, shown,
                   trouble, history>>

Start(a) ==
    /\ pc[a] = "claimed"
    /\ Put(a, "running")
    /\ pc' = [pc EXCEPT ![a] = "probe"]
    /\ UNCHANGED <<override, service, ml, copy, url, mode, cacheAge, age, retries, shown,
                   trouble, history>>

\* The record or the source asset is out of reach before the try begins: the
\* attempt ends, and the job is as it was.
ClaimRaises(a) ==
    /\ pc[a] \in {"read", "claimed"}
    /\ Spend("call")
    /\ pc' = [pc EXCEPT ![a] = "done"]
    /\ hit' = hit \cup {a}
    /\ UNCHANGED <<override, service, ml, record, copy, url, mode, cacheAge, age, retries, shown,
                   answers, puzzled, timedOut, doubled>>

\* The except branch: the record fails, and the state is published.
Raise(a) ==
    /\ pc' = [pc EXCEPT ![a] = "raised"]
    /\ Put(a, "failed")
    /\ Report

\* Every exception of an HTTP call but a timed-out poll ends the attempt.
Fail(a) == Raise(a) /\ hit' = hit \cup {a}

\* A call that may go wrong once more, or goes through.
Call(fails) == IF fails THEN Spend("call") ELSE UNCHANGED trouble

\* A call of the asset store, the record or the worker state raises.
WorkRaises(a) ==
    /\ pc[a] \in {"probe", "submit", "poll", "store"}
    /\ Spend("call")
    /\ Fail(a)
    /\ UNCHANGED <<override, service, ml, copy, url, mode, cacheAge, age, retries, answers,
                   puzzled, timedOut, doubled>>

\* pipeline.probe() of a fresh adapter, and its capabilities published. Every
\* stage begins and ends with an update of the copy.
Probe(a) ==
    /\ pc[a] = "probe"
    /\ \E fails \in BOOLEAN :
        /\ Call(fails)
        /\ \/ \E m \in Probed(url[a], fails) :
                /\ mode' = [mode EXCEPT ![a] = m]
                /\ shown' = Refreshed(shown, a, m)
                /\ pc' = [pc EXCEPT ![a] = "submit"]
                /\ Put(a, "running")
                /\ UNCHANGED hit
           \/ Probed(url[a], fails) = {} /\ Fail(a) /\ UNCHANGED mode
    /\ UNCHANGED <<override, service, ml, copy, url, cacheAge, age, retries, answers, puzzled,
                   timedOut, doubled>>

\* An answer with images, or without: the stub's placeholder, which also
\* stands for a legacy answer that has none, or a result with no artifact.
Answered(a, m) ==
    \/ m # "stub" /\ served' = served \cup {a} /\ UNCHANGED blank
    \/ blank' = blank \cup {a} /\ UNCHANGED served

\* The request reaches the service, which queues or answers it.
Taken(a, m) ==
    IF m = "async" THEN ml' = [ml EXCEPT ![a] = "live"] /\ UNCHANGED answers
    ELSE Answered(a, m) /\ UNCHANGED ml

\* pipeline.submit(): with the cached capabilities or those of a new probe.
Submit(a) ==
    /\ pc[a] = "submit"
    /\ \E fails \in BOOLEAN : \E m \in Capabilities(a, fails) :
        /\ Call(fails)
        /\ Takes(url[a], m)
        /\ Taken(a, m)
        /\ mode' = [mode EXCEPT ![a] = m]
        /\ pc' = [pc EXCEPT ![a] = IF m = "async" THEN "poll" ELSE "store"]
    /\ cacheAge' = [cacheAge EXCEPT ![a] = 0]
    /\ Put(a, "running")
    /\ Report
    /\ UNCHANGED <<override, service, copy, url, age, retries, puzzled, timedOut, hit, doubled>>

\* The service refuses what the capabilities promised, or is not there.
SubmitRefused(a) ==
    /\ pc[a] = "submit"
    /\ \A m \in Capabilities(a, FALSE) : ~Takes(url[a], m)
    /\ Fail(a)
    /\ UNCHANGED <<override, service, ml, copy, url, mode, cacheAge, age, retries, trouble, answers,
                   puzzled, timedOut, doubled>>

\* The call fails before the service sees it, or the answer is lost after:
\* both are MLCoreRetryableError, which nothing retries.
SubmitFails(a) ==
    /\ pc[a] = "submit" /\ url[a] # None
    /\ Spend("call")
    /\ \/ UNCHANGED <<ml, answers>>
       \/ \E m \in Capabilities(a, FALSE) : Takes(url[a], m) /\ Taken(a, m)
    /\ Fail(a)
    /\ UNCHANGED <<override, service, copy, url, mode, cacheAge, age, retries, puzzled, timedOut,
                   doubled>>

\* A mutant of Expired: the deadline is never looked at.
NeverExpired(a) == FALSE

Expired(a) == age[a] > TTL

\* Mutants of MayRetry: one retry less, and one more.
MayRetryOffByOne(a) == retries[a] + 1 < MaxRetries
MayRetryOnceMore(a) == retries[a] <= MaxRetries

MayRetry(a) == retries[a] < MaxRetries

Polling(a) == pc[a] = "poll" /\ ~Expired(a)

\* A poll that was answered. An unknown status raises without a DELETE.
Poll(a) ==
    /\ Polling(a)
    /\ ml[a] # "gone"
    /\ \/ PollStatus(ml[a]) = "running" /\ Report /\ UNCHANGED <<pc, record>>
       \/ /\ PollStatus(ml[a]) = "succeeded"
          /\ pc' = [pc EXCEPT ![a] = "store"] /\ Report /\ UNCHANGED record
       \/ PollStatus(ml[a]) = "failed" /\ Raise(a)
    /\ puzzled' = IF ml[a] = "odd" THEN puzzled \cup {a} ELSE puzzled
    /\ UNCHANGED <<override, service, ml, copy, url, mode, cacheAge, age, retries, trouble, answers,
                   timedOut, hit, doubled>>

\* A poll that timed out is retried, up to max_retries over the whole job.
PollTimesOut(a) ==
    /\ Polling(a)
    /\ Spend("call")
    /\ timedOut' = [timedOut EXCEPT ![a] = @ + 1]
    /\ IF MayRetry(a)
       THEN retries' = [retries EXCEPT ![a] = @ + 1] /\ Report /\ UNCHANGED <<pc, record>>
       ELSE Raise(a) /\ UNCHANGED retries
    /\ UNCHANGED <<override, service, ml, copy, url, mode, cacheAge, age, answers, puzzled, hit,
                   doubled>>

\* A poll answered with an HTTP error raises at once, 404 of a forgotten job
\* and a passing 503 alike.
PollRejected(a) ==
    /\ Polling(a)
    /\ IF ml[a] = "gone" THEN UNCHANGED trouble ELSE Spend("call")
    /\ Fail(a)
    /\ UNCHANGED <<override, service, ml, copy, url, mode, cacheAge, age, retries, answers, puzzled,
                   timedOut, doubled>>

\* A mutant of Cancel: the attempt leaves without a DELETE.
CancelForgotten(a, fails) == UNCHANGED <<ml, hit>>

\* DELETE of the job; every exception is swallowed.
Cancel(a, fails) ==
    IF fails THEN hit' = hit \cup {a} /\ UNCHANGED ml
    ELSE /\ ml' = [ml EXCEPT ![a] = IF @ \in AtWork THEN "cancelled" ELSE @]
         /\ UNCHANGED hit

\* The deadline is checked before each poll.
PollExpires(a) ==
    /\ pc[a] = "poll" /\ Expired(a)
    /\ \E fails \in BOOLEAN : Call(fails) /\ Cancel(a, fails)
    /\ Raise(a)
    /\ UNCHANGED <<override, service, copy, url, mode, cacheAge, age, retries, answers, puzzled,
                   timedOut, doubled>>

\* _complete_job. When its update or the report after it raises, the except
\* branch finds the copy complete and leaves its status.
Store(a) ==
    /\ pc[a] = "store"
    /\ Put(a, "succeeded")
    /\ \/ pc' = [pc EXCEPT ![a] = "done"] /\ UNCHANGED <<trouble, hit>>
       \/ Spend("call") /\ pc' = [pc EXCEPT ![a] = "raised"] /\ hit' = hit \cup {a}
    /\ Report
    /\ UNCHANGED <<override, service, ml, copy, url, mode, cacheAge, age, retries, answers, puzzled,
                   timedOut, doubled>>

-----------------------------------------------------------------------------
\* Around the attempts

\* The worker process stops at any point and boots again.
Crash ==
    /\ Active # {}
    /\ Spend("crash")
    /\ pc' = [a \in Attempts |-> IF a \in Active THEN "done" ELSE pc[a]]
    /\ hit' = hit \cup Active
    /\ Report
    /\ UNCHANGED <<override, service, ml, record, copy, url, mode, cacheAge, age, retries, answers,
                   puzzled, timedOut, doubled>>

\* The configuration object is overwritten.
Saved(o) ==
    /\ Spend("config")
    /\ override' = o

\* PUT /v1/system/runtime-config: the worker learns of it later.
SavedByApi(o) ==
    /\ Saved(o)
    /\ UNCHANGED <<service, ml, record, shown, attemptVars, history>>

\* PUT /api/runtime-config and clear_runtime_override: the worker saves the
\* override itself and then publishes its state.
SavedByWorker(o) ==
    /\ Saved(o)
    /\ shown' = Synced(shown, o)
    /\ UNCHANGED <<service, ml, record, attemptVars, history>>

\* heartbeat_idle of a tick with nothing in flight.
Heartbeat ==
    /\ Active = {}
    /\ Report
    /\ UNCHANGED <<override, service, ml, record, trouble, attemptVars, history>>

\* The service works on a job; nothing says that it will, or what it calls
\* the state the job is in.
Progress(a) ==
    /\ ml[a] \in AtWork
    /\ \E status \in {"live", "odd", "completed", "blank", "empty", "failed"} :
        /\ ml' = [ml EXCEPT ![a] = status]
        /\ served' = IF status = "completed" THEN served \cup {a} ELSE served
        /\ blank' = IF status = "blank" THEN blank \cup {a} ELSE blank
    /\ UNCHANGED <<override, service, record, shown, trouble, attemptVars, puzzled, timedOut, hit,
                   doubled>>

\* Another version is deployed at an address, and its jobs are forgotten.
ServiceRestarts(u) ==
    /\ Spend("service")
    /\ \E o \in Offers : service' = [service EXCEPT ![u] = o]
    /\ ml' = [a \in Attempts |-> IF url[a] = u /\ ml[a] # "none" THEN "gone" ELSE ml[a]]
    /\ UNCHANGED <<override, record, shown, attemptVars, history>>

\* Time passes for the capabilities to be used and the jobs polled; the ages
\* stop where they make no difference any more.
Tick ==
    /\ cacheAge' = [a \in Attempts |-> IF pc[a] = "submit" /\ cacheAge[a] < Refresh
                                     THEN cacheAge[a] + 1 ELSE cacheAge[a]]
    /\ age' = [a \in Attempts |-> IF pc[a] = "poll" /\ age[a] <= TTL THEN age[a] + 1 ELSE age[a]]
    /\ <<cacheAge, age>>' # <<cacheAge, age>>
    /\ UNCHANGED <<override, service, ml, record, shown, copy, pc, url, mode, retries, trouble,
                   history>>

Step(a) ==
    \/ Claim(a) \/ Start(a) \/ ClaimRaises(a)
    \/ WorkRaises(a) \/ Probe(a) \/ Submit(a) \/ SubmitRefused(a) \/ SubmitFails(a)
    \/ Poll(a) \/ PollTimesOut(a) \/ PollRejected(a) \/ PollExpires(a) \/ Store(a)

MLNext ==
    \/ \E a \in Attempts : Begin(a) \/ Step(a) \/ Progress(a)
    \/ \E o \in Urls \cup {None} : SavedByApi(o) \/ SavedByWorker(o)
    \/ \E u \in Urls : ServiceRestarts(u)
    \/ Crash \/ Heartbeat \/ Tick

\* Every HTTP call has a timeout and the clock runs; a service owes nothing.
MLFairness == (\A a \in Attempts : WF_vars(Step(a))) /\ WF_vars(Tick)

MLSpec == Init /\ [][MLNext]_vars /\ MLFairness

-----------------------------------------------------------------------------
\* Properties

\* Whatever is redelivered, and wherever the worker was stopped, at most one
\* attempt of a job ever reaches an ML service, unless two of its attempts
\* overlapped: a record once started is not rendered by a second delivery.
RenderedOnce ==
    \A a, b \in served \cup blank \cup {c \in Attempts : ml[c] # "none"} :
        JobOf[a] = JobOf[b] => a = b \/ JobOf[a] \in doubled

\* A succeeded record has an answer with a result behind it, which is a render
\* or one of the blanks the code takes for one; never a job the service only
\* called completed, nor the answer to another job, however attempts overlap.
SucceededWasAnswered ==
    \A j \in Jobs : record[j] = "succeeded" => \E a \in served \cup blank : JobOf[a] = j

\* A job is failed by an attempt that has a reason: MAX_RETRIES timed-out
\* polls are survived, and so is any wait up to the deadline. The counter is
\* never reset, so the timeouts of a job count together however far apart.
FailureIsJustified ==
    /\ \A j \in Jobs : record[j] = "failed" => \E a \in Attempts : JobOf[a] = j /\ pc[a] = "raised"
    /\ \A a \in Attempts : pc[a] = "raised" =>
        \/ a \in hit \cup puzzled
        \/ timedOut[a] > MaxRetries
        \/ Expired(a)
        \/ ml[a] \in {"empty", "failed", "cancelled", "gone"}

\* A service is left working for nobody only after a fault, or a status the
\* adapter does not know: a job given up at its deadline is cancelled.
OrphanNeedsACause ==
    \A a \in Attempts :
        Ended(a) /\ ml[a] \in AtWork => a \in hit \cup puzzled \/ timedOut[a] > MaxRetries

\* The published capabilities are those of another address only when an
\* attempt that was begun before the switch probes after it.
MislabelledByOldAttempt ==
    [][shown.probed = shown.url /\ shown'.probed # shown'.url =>
        \E a \in Attempts : pc[a] = "probe" /\ pc'[a] = "submit" /\ url[a] = shown'.probed]_vars

\* Every attempt comes to its end, whatever the service does.
AttemptsEnd == \A a \in Attempts : (a \in Active) ~> Ended(a)

=============================================================================
