---------------------------- MODULE JobLifecycle ----------------------------
(***************************************************************************)
(* What the job pipeline promises about each job, apart from how API,      *)
(* queue, store and worker bring it about: a job is accepted once, runs    *)
(* once, ends once, and its delivery is settled for good only when the job *)
(* has ended (ADR-009) or was withdrawn.  RenderJobs implements it over S3 *)
(* and YMQ, LocalHost over the file backend.                               *)
(***************************************************************************)
CONSTANT Jobs

VARIABLES
  phase,     \* phase[j]: how far job j has come
  settled    \* settled[j]: the delivery of j has been deleted from the queue

vars == <<phase, settled>>

Phase == {"absent", "queued", "running", "succeeded", "failed", "withdrawn"}

Init == /\ phase = [j \in Jobs |-> "absent"]
        /\ settled = [j \in Jobs |-> FALSE]

Move(j, from, to) ==
  /\ phase[j] = from
  /\ phase' = [phase EXCEPT ![j] = to]
  /\ UNCHANGED settled

Accept(j)  == Move(j, "absent", "queued")
Begin(j)   == Move(j, "queued", "running")
Succeed(j) == Move(j, "running", "succeeded")
Fail(j)    == Move(j, "running", "failed")

(* Deleted or marked failed by an operator: what becomes of the job is      *)
(* promised no more.                                                       *)
Withdraw(j) == \E from \in Phase \ {"absent"} : Move(j, from, "withdrawn")

Over == {j \in Jobs : phase[j] \in {"succeeded", "failed", "withdrawn"}}

(* Several deliveries may be settled at once. *)
Settle(done) ==
  /\ done \subseteq Over
  /\ settled' = [j \in Jobs |-> settled[j] \/ j \in done]
  /\ UNCHANGED phase

Next ==
  \/ \E j \in Jobs : Accept(j) \/ Begin(j) \/ Succeed(j) \/ Fail(j) \/ Withdraw(j)
  \/ \E done \in SUBSET Over : Settle(done)

Spec == Init /\ [][Next]_vars
=============================================================================
