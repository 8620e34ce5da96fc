--------------------------- MODULE WorkerActions ---------------------------
(***************************************************************************)
(* The worker's control plane: operators queue commands through the API    *)
(* and the control page, WorkerControlLoop takes and executes them one at  *)
(* a time, and a detached helper container updates the worker itself.      *)
(*                                                                         *)
(* The commands are one JSON file that every writer reads, changes and     *)
(* writes back whole: truncated first, and filled then. A list is a        *)
(* function from the commands to what it says of each; a writer holds the  *)
(* list it read, the list it is about to write, and its pen. Commands are  *)
(* numbered by requested_at.                                               *)
(***************************************************************************)
EXTENDS Integers, FiniteSets

CONSTANTS
    MaxCommands,  \* how many commands operators ever ask for
    Kinds,        \* the kinds they choose from
    SelfManage    \* WORKER_SELF_MANAGE_ENABLED

\* WorkerControlAction
ControlAction == {"restart_worker_process", "restart_container", "git_update_rebuild_restart",
                  "clear_runtime_override", "diagnostic_probe"}

ASSUME ActionConstantsAssumption ==
    /\ MaxCommands \in Nat
    /\ Kinds \subseteq ControlAction
    /\ SelfManage \in BOOLEAN

\* A crash of the worker or a helper; an update of the list, or an effect of a
\* command, that raises.
Mishaps == {"crash", "store", "effect"}

VARIABLES
    items,        \* the stored list, as it was last filled
    listTorn,     \* the file is truncated, or holds parts of two lists
    held,         \* per writer: the list it read, the one it will write, its pen
    kind,         \* the kind of each command asked for
    doing,        \* the command the control loop works on, or 0
    stage,        \* where the loop is in take_next and execute
    outcome,      \* action.status in the loop's memory
    timers,       \* restart threads that sleep their second
    worker,       \* "up", or "down" while there is no container
    helper,       \* the update helper of each command
    budget,       \* what operators may still ask for, and what may go wrong
    accepted,     \* history: commands whose request was answered
    effects,      \* history: how often each command took effect
    forsaken,     \* history: commands that lost whoever worked on them
    clobbered,    \* history: a list was written over a newer one
    spoilt        \* history: a writer was gone before it had filled the file

loopVars == <<doing, stage, outcome>>
listVars == <<items, listTorn, held, clobbered, spoilt>>
actionVars == <<listVars, kind, loopVars, timers, worker, helper, budget,
                accepted, effects, forsaken>>

Commands == 1 .. MaxCommands

Operators == {"api", "page"} \X {0}

Writers == Operators \cup {<<"loop", 0>>} \cup {"helper"} \X Commands

Loop == <<"loop", 0>>
Helper(c) == <<"helper", c>>

Final == {"succeeded", "failed"}

\* WorkerActionStatus, and "absent" for a command that is not in the list
List == [Commands -> {"absent", "queued", "running"} \cup Final]

Empty == [c \in Commands |-> "absent"]

\* A pen is down once its writer has truncated the file, and over when another
\* writer has filled it since.
Pen == {"up", "down", "over"}

Nothing == [read |-> Empty, write |-> Empty, pen |-> "up"]

\* The loop calls update in these stages.
Updating == {"take", "start", "announce", "launch", "end"}

ActionsTypeOK ==
    /\ items \in List
    /\ listTorn \in BOOLEAN
    /\ held \in [Writers -> [read : List, write : List, pen : Pen]]
    /\ kind \in [Commands -> Kinds \cup {"none"}]
    /\ doing \in Commands \cup {0}
    /\ stage \in Updating \cup {"idle", "act", "dead"}
    /\ outcome \in {"running"} \cup Final
    /\ timers \subseteq {"process", "container"}
    /\ worker \in {"up", "down"}
    /\ helper \in [Commands -> {"none", "started", "building", "swapping", "gone"} \cup Final]
    /\ budget \in [Kinds \cup Mishaps -> Nat]
    /\ accepted \subseteq Commands
    /\ effects \in [Commands -> Nat]
    /\ forsaken \subseteq Commands
    /\ clobbered \in BOOLEAN /\ spoilt \in BOOLEAN

ActionsInit(limits) ==
    /\ items = Empty /\ listTorn = FALSE
    /\ held = [w \in Writers |-> Nothing]
    /\ kind = [c \in Commands |-> "none"]
    /\ doing = 0 /\ stage = "idle" /\ outcome = "running"
    /\ timers = {}
    /\ worker = "up"
    /\ helper = [c \in Commands |-> "none"]
    /\ budget = limits
    /\ accepted = {}
    /\ effects = [c \in Commands |-> 0]
    /\ forsaken = {}
    /\ clobbered = FALSE /\ spoilt = FALSE

Allow(what) ==
    /\ budget[what] > 0
    /\ budget' = [budget EXCEPT ![what] = @ - 1]

-----------------------------------------------------------------------------
\* The action store

\* A mutant of Updated: a finished command is not worth keeping.
UpdatedDropsFinal(list, c, status) ==
    [list EXCEPT ![c] = IF status \in Final THEN "absent" ELSE status]

\* enqueue appends; update replaces the record of the command or appends it.
Updated(list, c, status) == [list EXCEPT ![c] = status]

\* A writer reads the list to change one record of it ...
ReadList(w, c, status) ==
    /\ held[w] = Nothing /\ ~listTorn
    /\ held' = [held EXCEPT ![w] = [read |-> items, write |-> Updated(items, c, status),
                                   pen |-> "up"]]
    /\ UNCHANGED <<items, listTorn, clobbered, spoilt>>

\* ... opens the file, which truncates it ...
CutList(w) ==
    /\ held[w] # Nothing /\ held[w].pen = "up"
    /\ held' = [v \in Writers |->
                [held[v] EXCEPT !.pen = IF v = w \/ @ = "over" THEN "down" ELSE @]]
    /\ listTorn' = TRUE
    /\ UNCHANGED <<items, clobbered, spoilt>>

\* ... and fills it with all it holds, whatever has been written since. What
\* another writer has filled in meanwhile sticks out when it is longer.
FillList(w) ==
    /\ held[w].pen # "up"
    /\ held' = [v \in Writers |->
                IF v = w THEN Nothing
                ELSE [held[v] EXCEPT !.pen = IF @ = "down" THEN "over" ELSE @]]
    /\ items' = held[w].write
    /\ listTorn' \in IF held[w].pen = "over" THEN BOOLEAN ELSE {FALSE}
    /\ clobbered' = (clobbered \/ held[w].read # items \/ held[w].pen = "over")
    /\ UNCHANGED spoilt

\* Writers that come no further.
LetGo(gone) ==
    /\ held' = [w \in Writers |-> IF w \in gone THEN Nothing ELSE held[w]]
    /\ spoilt' = (spoilt \/ \E w \in gone : held[w].pen = "down")
    /\ UNCHANGED <<items, listTorn, clobbered>>

\* Mutants of Pending: unfinished commands are resumed after a restart;
\* failed ones are tried again; one running command holds up the others.
PendingUnfinished(list) == {c \in Commands : list[c] \in {"queued", "running"}}
PendingFailed(list) == {c \in Commands : list[c] \in {"queued", "failed"}}
PendingOneAtATime(list) ==
    {c \in Commands : list[c] = "queued" /\ \A d \in Commands : list[d] # "running"}

Pending(list) == {c \in Commands : list[c] = "queued"}

-----------------------------------------------------------------------------
\* The operators

\* POST /v1/system/worker-actions, or an action button of the control page,
\* which lives in the worker's process. With a torn list the request fails.
Ask(w, k) ==
    /\ Allow(k)
    /\ w = <<"page", 0>> => worker = "up"
    /\ \/ \E c \in Commands :
            /\ kind[c] = "none" /\ \A d \in Commands : d < c => kind[d] # "none"
            /\ kind' = [kind EXCEPT ![c] = k]
            /\ ReadList(w, c, "queued")
       \/ listTorn /\ UNCHANGED <<kind, listVars>>
    /\ UNCHANGED <<loopVars, timers, worker, helper, accepted, effects, forsaken>>

Enqueue(w) ==
    /\ FillList(w)
    /\ accepted' = accepted \cup {c \in Commands : held[w].read[c] # held[w].write[c]}
    /\ UNCHANGED <<kind, loopVars, timers, worker, helper, budget, effects, forsaken>>

\* The file is truncated, by whoever is about to write it.
Cut(w) ==
    /\ CutList(w)
    /\ UNCHANGED <<kind, loopVars, timers, worker, helper, budget, accepted, effects, forsaken>>

\* The API's process dies in the middle of a request.
AskLost ==
    /\ LetGo({<<"api", 0>>})
    /\ UNCHANGED <<kind, loopVars, timers, worker, helper, budget, accepted, effects, forsaken>>

-----------------------------------------------------------------------------
\* The control loop

\* take_next picks the oldest queued command from the list it reads.
Take ==
    /\ worker = "up" /\ stage = "idle" /\ ~listTorn
    /\ \E c \in Pending(items) : /\ \A d \in Pending(items) : c <= d
                                 /\ doing' = c
    /\ outcome' = "running"
    /\ stage' = "take"
    /\ UNCHANGED <<listVars, kind, timers, worker, helper, budget, accepted, effects, forsaken>>

\* A list that cannot be read ends the loop's thread.
TakeRaises ==
    /\ worker = "up" /\ stage = "idle" /\ listTorn
    /\ stage' = "dead"
    /\ UNCHANGED <<listVars, kind, doing, outcome, timers, worker, helper, budget, accepted, effects,
                   forsaken>>

UpdateReads ==
    /\ stage \in Updating
    /\ ReadList(Loop, doing, outcome)
    /\ UNCHANGED <<kind, loopVars, timers, worker, helper, budget, accepted, effects, forsaken>>

\* A mutant of Concluded: the except branch forgets the final update.
ConcludedIfSucceeded(status) == status = "succeeded"

\* The finally clause saves a final status once more.
Concluded(status) == status \in Final

Finally(status) == IF Concluded(status) THEN "end" ELSE "idle"

\* take_next's update, execute's first one, and those after the effect. A
\* restart thread is started when its command is recorded as done.
UpdateWrites ==
    /\ stage \in Updating
    /\ FillList(Loop)
    /\ stage' = CASE stage = "take" -> "start"
                  [] stage = "start" -> "act"
                  [] stage \in {"announce", "launch"} -> Finally(outcome)
                  [] stage = "end" -> "idle"
    /\ doing' = IF stage' = "idle" THEN 0 ELSE doing
    /\ timers' = IF stage # "announce" THEN timers
                 ELSE timers \cup {IF kind[doing] = "restart_container" THEN "container" ELSE "process"}
    /\ effects' = IF stage = "announce" THEN [effects EXCEPT ![doing] = @ + 1] ELSE effects
    /\ forsaken' = IF stage = "launch" /\ helper[doing] = "gone" THEN forsaken \cup {doing} ELSE forsaken
    /\ UNCHANGED <<kind, outcome, worker, helper, budget, accepted>>

\* update, or the state report that follows it, raises. Within the try the
\* command fails; outside it the exception leaves tick and run_forever, and
\* the thread is gone.
Unsaved ==
    /\ IF stage \in {"announce", "launch"}
       THEN /\ outcome' = "failed" /\ stage' = Finally("failed")
            /\ doing' = IF stage' = "idle" THEN 0 ELSE doing
            /\ UNCHANGED forsaken
       ELSE /\ stage' = "dead" /\ doing' = 0 /\ forsaken' = forsaken \cup {doing}
            /\ UNCHANGED outcome
    /\ UNCHANGED <<kind, timers, worker, helper, accepted, effects>>

UpdateUnread ==
    /\ stage \in Updating
    /\ held[Loop] = Nothing /\ listTorn
    /\ Unsaved
    /\ UNCHANGED <<listVars, budget>>

\* It raises before the list is read or written, in the middle of its write,
\* as on a full disk, or when all is written.
UpdateRaises ==
    /\ stage \in Updating
    /\ Allow("store")
    /\ FillList(Loop) \/ LetGo({Loop})
    /\ Unsaved

\* Container commands need self-management.
Allowed(k) == SelfManage \/ k \notin {"restart_container", "git_update_rebuild_restart"}

Restarts == {"restart_worker_process", "restart_container"}

\* A probe reports an unhealthy service; it does not fail for it.
DoneAtOnce(k) ==
    /\ k \in {"clear_runtime_override", "diagnostic_probe"}
    /\ outcome' = "succeeded" /\ stage' = "end"
    /\ effects' = [effects EXCEPT ![doing] = @ + 1]
    /\ UNCHANGED helper

\* A restart is recorded as done before it is begun.
RestartAnnounced(k) ==
    /\ k \in Restarts
    /\ outcome' = "succeeded" /\ stage' = "announce"
    /\ UNCHANGED <<effects, helper>>

\* The helper's container runs before its launch is recorded.
HelperLaunched(k) ==
    /\ k = "git_update_rebuild_restart"
    /\ stage' = "launch"
    /\ helper' = [helper EXCEPT ![doing] = "started"]
    /\ effects' = [effects EXCEPT ![doing] = @ + 1]
    /\ UNCHANGED outcome

\* What execute does for a command it may execute.
Effect(k) ==
    /\ Allowed(k)
    /\ DoneAtOnce(k) \/ RestartAnnounced(k) \/ HelperLaunched(k)
    /\ UNCHANGED <<doing, budget>>

\* The command is not allowed, or raises. A restart has nothing to raise
\* before it is announced.
EffectRaises(k) ==
    /\ IF Allowed(k) THEN k \notin Restarts /\ Allow("effect") ELSE UNCHANGED budget
    /\ outcome' = "failed" /\ stage' = Finally("failed")
    /\ doing' = IF stage' = "idle" THEN 0 ELSE doing
    /\ UNCHANGED <<effects, helper>>

Act ==
    /\ stage = "act"
    /\ Effect(kind[doing]) \/ EffectRaises(kind[doing])
    /\ UNCHANGED <<listVars, kind, timers, worker, accepted, forsaken>>

-----------------------------------------------------------------------------
\* Restarts

\* The process is gone, with all its threads: the loop, the restart timers
\* and the control page's requests.
ProcessEnds ==
    /\ doing' = 0 /\ stage' = "idle" /\ outcome' = "running"
    /\ timers' = {}
    /\ LetGo({Loop, <<"page", 0>>})
    /\ forsaken' = IF doing = 0 THEN forsaken ELSE forsaken \cup {doing}

RestartFires ==
    /\ timers # {}
    /\ ProcessEnds
    /\ UNCHANGED <<kind, worker, helper, budget, accepted, effects>>

\* The docker daemon does not do it; nobody hears of it.
RestartLost ==
    /\ "container" \in timers
    /\ Allow("effect")
    /\ timers' = timers \ {"container"}
    /\ UNCHANGED <<listVars, kind, loopVars, worker, helper, accepted, effects, forsaken>>

Crash ==
    /\ worker = "up"
    /\ Allow("crash")
    /\ ProcessEnds
    /\ UNCHANGED <<kind, worker, helper, accepted, effects>>

-----------------------------------------------------------------------------
\* The update helper

HelperSteps(c, from, to) ==
    /\ helper[c] = from
    /\ helper' = [helper EXCEPT ![c] = to]
    /\ UNCHANGED <<kind, accepted, effects>>

\* It looks its command up; one that is not listed makes it raise, and so
\* does a list that cannot be read.
HelperStarts(c) ==
    /\ HelperSteps(c, "started", IF listTorn \/ items[c] = "absent" THEN "gone" ELSE "building")
    /\ forsaken' = IF listTorn THEN forsaken \cup {c} ELSE forsaken
    /\ UNCHANGED <<listVars, loopVars, timers, worker, budget>>

\* The new image is built, and the worker's container stopped and removed.
HelperBuilt(c) ==
    /\ worker = "up"
    /\ HelperSteps(c, "building", "swapping")
    /\ worker' = "down"
    /\ ProcessEnds
    /\ UNCHANGED budget

\* git pull or the build fails, or there is no container to replace.
HelperBuildFails(c) ==
    /\ HelperSteps(c, "building", "failed")
    /\ IF worker = "down" THEN UNCHANGED budget ELSE Allow("effect")
    /\ UNCHANGED <<listVars, loopVars, timers, worker, forsaken>>

HelperSwapped(c) ==
    /\ HelperSteps(c, "swapping", "succeeded")
    /\ worker' = "up"
    /\ UNCHANGED <<listVars, loopVars, timers, budget, forsaken>>

\* The new container does not start: nothing is left that could start one.
HelperSwapFails(c) ==
    /\ HelperSteps(c, "swapping", "failed")
    /\ Allow("effect")
    /\ UNCHANGED <<listVars, loopVars, timers, worker, forsaken>>

HelperReads(c) ==
    /\ helper[c] \in Final
    /\ ReadList(Helper(c), c, helper[c])
    /\ UNCHANGED <<kind, loopVars, timers, worker, helper, budget, accepted, effects, forsaken>>

HelperWrites(c) ==
    /\ FillList(Helper(c))
    /\ helper' = [helper EXCEPT ![c] = "gone"]
    /\ UNCHANGED <<kind, loopVars, timers, worker, budget, accepted, effects, forsaken>>

\* It dies, or finds a list it cannot read.
HelperDies(c) ==
    /\ helper[c] \notin {"none", "gone"}
    /\ IF helper[c] \in Final /\ held[Helper(c)] = Nothing /\ listTorn
       THEN UNCHANGED budget ELSE Allow("crash")
    /\ helper' = [helper EXCEPT ![c] = "gone"]
    /\ LetGo({Helper(c)})
    /\ forsaken' = forsaken \cup {c}
    /\ UNCHANGED <<kind, loopVars, timers, worker, accepted, effects>>

-----------------------------------------------------------------------------
\* Steps that leave the worker's process running, and steps that end it.
ControlStep ==
    Take \/ TakeRaises \/ UpdateReads \/ UpdateUnread \/ Cut(Loop) \/ UpdateWrites \/ Act

ProcessStays ==
    \/ \E w \in Operators : (\E k \in Kinds : Ask(w, k)) \/ Enqueue(w) \/ Cut(w)
    \/ ControlStep \/ UpdateRaises \/ RestartLost
    \/ \E c \in Commands : \/ HelperStarts(c) \/ HelperBuildFails(c) \/ HelperSwapped(c)
                           \/ HelperSwapFails(c) \/ HelperReads(c) \/ Cut(Helper(c))
                           \/ HelperWrites(c) \/ HelperDies(c)

ProcessStops == RestartFires \/ Crash \/ \E c \in Commands : HelperBuilt(c)

ActionsNext == ProcessStays \/ ProcessStops

-----------------------------------------------------------------------------
\* Properties. clobbered and spoilt are the known weaknesses of the store:
\* without a conditional write, a writer can undo what another wrote since it
\* read, and without a rename it can leave a file nobody can read.

\* A command the operator got an answer for stays in the list, finished or
\* not, and in a file that can be read, or is being filled: unless a list was
\* written over a newer one, or cut off in the middle of its write.
AcceptedIsKept ==
    \A c \in accepted :
        \/ items[c] # "absent" /\ (listTorn => \E w \in Writers : held[w].pen = "down")
        \/ clobbered \/ spoilt

\* No command takes effect twice: a restart, above all, does not meet its
\* own command again in the process it started. Only a lost update can put
\* an executed command back in the queue.
TakesEffectOnce == \A c \in Commands : effects[c] <= 1 \/ clobbered

BeingWorkedOn(c) == doing = c \/ helper[c] \notin {"none", "gone"}

\* A command is stuck as running only when whoever worked on it was stopped
\* by a crash, a restart, a dead loop or a list it could not read, or was
\* done before the loop had recorded its launch: every other failure is
\* recorded.
StuckWasForsaken ==
    \A c \in Commands :
        items[c] = "running" /\ ~BeingWorkedOn(c) => c \in forsaken \/ clobbered

\* A finished command is never reopened but by a lost update, or by the loop
\* that records the launch of a helper after the helper's own verdict.
FinishedStaysFinished ==
    [][\A c \in Commands :
        items[c] \in Final /\ items'[c] \notin Final =>
            clobbered' \/ (stage = "launch" /\ doing = c)]_actionVars

\* Every accepted command comes to an end, or to a helper, as long as there
\* is a loop to take it; a command nobody finishes does not hold up others.
CommandsEnd ==
    \A c \in Commands :
        (c \in accepted) ~> \/ items[c] \in Final
                           \/ helper[c] # "none"
                           \/ c \in forsaken
                           \/ clobbered \/ stage = "dead" \/ worker = "down"

\* The object store and the Docker daemon answer, with an error at worst;
\* git and docker build in the helper may take for ever.
ActionsFairness == WF_actionVars(ControlStep)
=============================================================================
