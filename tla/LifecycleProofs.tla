--------------------------- MODULE LifecycleProofs ---------------------------
(*************************************************************************)
(* RenderJobs under a visibility timeout that no attempt outlives: for   *)
(* every number of jobs, slots and API threads, and through any number   *)
(* of worker crashes, API failures, store failures and ML failures.      *)
(*                                                                       *)
(* While no receipt expires (NoExpiry), the visibility lock gives every  *)
(* job at most one attempt (LockInv). That alone keeps jobs from being   *)
(* lost and results from being overwritten by a redelivery, whatever the *)
(* operator edits meanwhile (MessageInv, ResultInv).                     *)
(*                                                                       *)
(* When the operator keeps out as well (Undisturbed), only that attempt  *)
(* writes the record it has a copy of, and copy and record stay in step  *)
(* (CopyInv): RenderJobs implements JobLifecycle. Without the lock       *)
(* nothing relates the two, and the lifecycle breaks.                    *)
(*************************************************************************)
EXTENDS RenderJobsProofs

Undisturbed == Budget["expire"] = 0 /\ Budget["operator"] = 0

QuietInv == budget["expire"] = 0 /\ budget["operator"] = 0 /\ operator.act = "none"

(* The create requests that do nothing any more. *)
Closed == {"answered", "dropped"}

(* How a job's request, record and message go together. *)
RequestInv ==
  \A j \in Jobs :
    /\ request[j] \in {"new", "lookup", "create"} => records[j].status = "absent"
    /\ request[j] \in {"index", "publish"} => records[j].status = "queued" /\ message[j] = "none"
    /\ message[j] # "none" => request[j] \in Closed /\ records[j].status # "absent"
    /\ message[j] = "none" /\ records[j].status # "absent" =>
         records[j].status = "queued" /\ request[j] \in {"index", "publish", "dropped"}
    /\ message[j] = "gone" => records[j].status \in Terminal

(* An attempt about to do `label` with a copy of status c, while the store *)
(* has status r.                                                           *)
Fits(label, c, r) ==
  /\ label = "noop" => r \in Terminal /\ c = r
  /\ label \in {"claim", "asset", "noasset"} => r \in Live /\ c = r
  /\ label = "start" => r = "queued" /\ c = "running"
  /\ label \in {"enter", "call", "leave"} => r = "running" /\ c = "running"
  /\ label = "complete" => r = "running" /\ c = "succeeded"
  /\ label = "emit" => r = "succeeded" /\ c = "succeeded"
  /\ label = "except" => \/ r = "running" /\ c \in {"running", "succeeded"}
                         \/ r = "succeeded" /\ c = "succeeded"
  /\ label = "returned" => r \in Terminal

CopyInv ==
  \A s \in Slots : Busy(s) => /\ Fits(pc[s], copy[s].status, records[job[s]].status)
                              /\ Fits(due[s], copy[s].status, records[job[s]].status)

LifecycleInv == QuietInv /\ RequestInv /\ OneAttemptPerJob /\ CopyInv

Moves(from, to) ==
  \/ to = from
  \/ from = "queued" /\ to = "running"
  \/ from = "running" /\ to \in Terminal

(* What every step of an attempt does to the shared state. *)
AttemptStep(s) ==
  /\ pc[s] # "free" /\ pc'[s] # "free"
  /\ \A t \in Slots : t # s => pc'[t] = pc[t] /\ copy'[t] = copy[t] /\ due'[t] = due[t]
  /\ \A j \in Jobs : j # job[s] => records'[j] = records[j]
  /\ UNCHANGED <<message, holder, request, job, operator>>
  /\ Fits(pc'[s], copy'[s].status, records'[job[s]].status)
  /\ Fits(due'[s], copy'[s].status, records'[job[s]].status)
  /\ Moves(records[job[s]].status, records'[job[s]].status)

LEMMA UpdateStep ==
  ASSUME TypeOK, NEW s \in Slots, pc[s] # "free", due[s] = "none", NEW rec \in Record, NEW label \in PC \ {"free"},
         Update(s, rec, label),
         Fits(label, rec.status, rec.status),
         Fits(OnError(s), rec.status, rec.status),
         Fits(OnError(s), rec.status, records[job[s]].status),
         Moves(records[job[s]].status, rec.status)
  PROVE  AttemptStep(s)
<1> USE ConstantsAssumption
<1>1. job[s] \in Jobs /\ OnError(s) # "free"
  BY DEF TypeOK, OnError
<1>2. /\ copy'[s] = rec
      /\ \A t \in Slots : t # s => pc'[t] = pc[t] /\ copy'[t] = copy[t] /\ due'[t] = due[t]
      /\ \A j \in Jobs : j # job[s] => records'[j] = records[j]
      /\ UNCHANGED <<message, holder, request, job, operator>>
  BY <1>1 DEF TypeOK, Update, Goto, PutRecord, store, queue, api
<1>3. \/ pc'[s] = label /\ records'[job[s]] = rec /\ due'[s] = OnError(s)
      \/ pc'[s] = OnError(s) /\ records'[job[s]] = records[job[s]] /\ due'[s] = "none"
  BY <1>1 DEF TypeOK, Update, Goto, PutRecord, store
<1>4. Moves(records[job[s]].status, records[job[s]].status)
  BY DEF Moves
<1>5. Fits("none", rec.status, records[job[s]].status)
  BY DEF Fits
<1> QED
  BY <1>1, <1>2, <1>3, <1>4, <1>5 DEF AttemptStep

LEMMA FailedStatus ==
  ASSUME NEW rec \in Record, NEW now \in 0..MaxClock
  PROVE  Failed(rec, now).status = IF rec.status \in Terminal THEN rec.status ELSE "failed"
<1>1. RunningStageFailed(rec) \in Record /\ RunningStageFailed(rec).status = rec.status
  BY DEF RunningStageFailed, StageClosed, Record
<1> QED
  BY <1>1 DEF Failed, IsTerminal, Record

LEMMA EveryAttemptStep ==
  ASSUME TypeOK, LifecycleInv, NEW s \in Slots, Attempt(s)
  PROVE  AttemptStep(s)
<1> USE ConstantsAssumption
<1> DEFINE c == copy[s].status
           r == records[job[s]].status
<1>0. /\ copy[s] \in Record /\ stage[s] \in StageName /\ clock \in 0..MaxClock
      /\ pc[s] # "free" => /\ job[s] \in Jobs /\ Fits(pc[s], c, r) /\ Fits(due[s], c, r)
                           /\ r # "absent" /\ records[job[s]] \in Record
  BY DEF TypeOK, LifecycleInv, CopyInv, OneAttemptPerJob, RequestInv, Busy
<1>p. CASE UpdateIndex(s)
  <2>1. /\ pc[s] # "free" /\ due[s] # "free" /\ records' = records
        /\ \/ pc' = pc
           \/ pc' = [pc EXCEPT ![s] = due[s]]
        /\ due' = [due EXCEPT ![s] = "none"]
        /\ UNCHANGED <<message, holder, request, job, operator, copy>>
    BY <1>p DEF TypeOK, UpdateIndex, Goto, PutIndex, store, queue, api
  <2>2. Fits("none", c, r) /\ Moves(r, r)
    BY DEF Fits, Moves
  <2> QED BY <1>0, <2>1, <2>2 DEF TypeOK, AttemptStep
<1> SUFFICES ASSUME due[s] = "none" PROVE AttemptStep(s)
  BY <1>p DEF Attempt
<1>a. CASE Get(s)
  <2>1. job[s] \in Jobs /\ copy' = [copy EXCEPT ![s] = records[job[s]]] /\ records' = records
    BY <1>a, <1>0 DEF Get, store
  <2>2. pc' = [pc EXCEPT ![s] = IF r \in Terminal THEN "noop" ELSE "claim"]
    BY <1>a, <1>0 DEF Get, Goto, IsTerminal
  <2>3. r \notin Terminal => r \in Live
    BY <1>a, <1>0 DEF Record, Get
  <2> QED
    BY <1>a, <2>1, <2>2, <2>3 DEF TypeOK, Get, AttemptStep, Fits, Moves, queue, api
<1>b. CASE TerminalNoop(s)
  BY <1>b, <1>0, UpdateStep DEF TerminalNoop, OnError, Fits, Moves, PC
<1>c. CASE Claim(s)
  BY <1>c, <1>0, UpdateStep DEF Claim, OnError, Fits, Moves, PC
<1>d. CASE LoadAssetRef(s)
  <2>1. CanStart(copy[s]) => c = "queued" /\ Started(copy[s], clock).status = "running"
    BY <1>0 DEF CanStart, Started, Record
  <2>2. /\ pc[s] = "asset" /\ UNCHANGED <<records, message, holder, request, job, operator, due>>
        /\ \/ /\ c = "queued" /\ pc' = [pc EXCEPT ![s] = "start"]
              /\ copy' = [copy EXCEPT ![s] = Started(copy[s], clock)]
              /\ Started(copy[s], clock).status = "running"
           \/ pc' = [pc EXCEPT ![s] = "raised"] /\ copy' = copy
    BY <1>d, <2>1 DEF LoadAssetRef, Goto, store, queue, api
  <2> QED
    BY <2>2, <1>0 DEF TypeOK, AttemptStep, Fits, Moves
<1>e. CASE AssetMissing(s)
  BY <1>e, <1>0 DEF TypeOK, AssetMissing, Goto, AttemptStep, Fits, Moves, store, queue, api
<1>f. CASE ReportMissingAsset(s)
  BY <1>f, <1>0, UpdateStep DEF ReportMissingAsset, OnError, Fits, Moves, PC
<1>g. CASE ReadRaises(s)
  BY <1>g, <1>0 DEF TypeOK, ReadRaises, Goto, OnError, AttemptStep, Fits, Moves, store, queue, api
<1>h. CASE Begin(s)
  BY <1>h, <1>0, UpdateStep DEF Begin, OnError, Fits, Moves, PC
<1>i. CASE EnterStage(s)
  <2>1. /\ StageOpened(copy[s], stage[s]) \in Record
        /\ StageOpened(copy[s], stage[s]).status = c
    BY <1>0, RecordOperators DEF StageOpened, Record
  <2> QED
    BY <2>1, <1>i, <1>0, UpdateStep DEF EnterStage, OnError, Fits, Moves, PC
<1>j. CASE CallStage(s)
  <2> DEFINE closed == StageClosed(copy[s], stage[s])
  <2>1. closed \in Record /\ closed.status = c
    BY <1>0, RecordOperators DEF StageClosed, Record
  <2>2. Completed(closed, clock).status = "succeeded"
    BY <2>1 DEF Completed, Record
  <2>3. /\ pc[s] = "call" /\ UNCHANGED <<records, message, holder, request, job, operator, due>>
        /\ \/ copy' = [copy EXCEPT ![s] = closed] /\ pc' = [pc EXCEPT ![s] = "leave"]
           \/ copy' = [copy EXCEPT ![s] = closed] /\ pc' = [pc EXCEPT ![s] = "enter"]
           \/ /\ copy' = [copy EXCEPT ![s] = Completed(closed, clock)]
              /\ pc' = [pc EXCEPT ![s] = "complete"]
    BY <1>j DEF CallStage, Goto, store, queue, api
  <2> QED
    BY <2>1, <2>2, <2>3, <1>0 DEF TypeOK, AttemptStep, Fits, Moves
<1>k. CASE CallRaises(s)
  BY <1>k, <1>0 DEF TypeOK, CallRaises, Goto, OnError, AttemptStep, Fits, Moves, store, queue, api
<1>l. CASE LeaveStage(s)
  BY <1>l, <1>0, UpdateStep DEF LeaveStage, OnError, Fits, Moves, PC
<1>m. CASE Complete(s)
  BY <1>m, <1>0, UpdateStep DEF Complete, OnError, Fits, Moves, Terminal, PC
<1>n. CASE EmitFinished(s)
  BY <1>n, <1>0 DEF TypeOK, EmitFinished, Goto, OnError, AttemptStep, Fits, Moves, Terminal, store, queue, api
<1>o. CASE Except(s)
  <2>1. Failed(copy[s], clock) \in Record
    BY <1>0, RecordOperators
  <2>2. Failed(copy[s], clock).status = IF c \in Terminal THEN c ELSE "failed"
    BY <1>0, FailedStatus
  <2> QED
    BY <2>1, <2>2, <1>o, <1>0, UpdateStep DEF Except, OnError, Fits, Moves, Terminal, PC
<1> QED
  BY <1>p, <1>a, <1>b, <1>c, <1>d, <1>e, <1>f, <1>g, <1>h, <1>i, <1>j, <1>k, <1>l,
     <1>m, <1>n, <1>o DEF Attempt

LEMMA AttemptKeepsInv ==
  ASSUME TypeOK, LifecycleInv, NEW s \in Slots, AttemptStep(s), UNCHANGED budget \/ \E d : Spend(d)
  PROVE  LifecycleInv'
<1> DEFINE j0 == job[s]
<1>0. /\ j0 \in Jobs /\ message[j0] = "taken" /\ holder[j0] = s
      /\ \A t \in Slots : t # s /\ pc[t] # "free" => job[t] # j0
      /\ request[j0] \in Closed /\ records[j0].status # "absent"
  BY DEF TypeOK, AttemptStep, LifecycleInv, OneAttemptPerJob, RequestInv, Busy
<1>1. QuietInv'
  BY DEF TypeOK, LifecycleInv, QuietInv, AttemptStep, Spend, Disturbance
<1>2. records'[j0].status # "absent"
  BY <1>0 DEF AttemptStep, Moves, Terminal
<1>3. RequestInv'
  <2> SUFFICES ASSUME NEW j \in Jobs
               PROVE  /\ request[j] \in {"new", "lookup", "create"} => records'[j].status = "absent"
                      /\ request[j] \in {"index", "publish"} => records'[j].status = "queued" /\ message[j] = "none"
                      /\ message[j] # "none" => request[j] \in Closed /\ records'[j].status # "absent"
                      /\ message[j] = "none" /\ records'[j].status # "absent" =>
                           records'[j].status = "queued" /\ request[j] \in {"index", "publish", "dropped"}
                      /\ message[j] = "gone" => records'[j].status \in Terminal
    BY DEF RequestInv, AttemptStep
  <2>1. CASE j = j0
    BY <2>1, <1>0, <1>2 DEF Closed
  <2>2. CASE j # j0
    BY <2>2 DEF LifecycleInv, RequestInv, AttemptStep
  <2> QED
    BY <2>1, <2>2
<1>4. OneAttemptPerJob'
  <2>1. \A t \in Slots : pc'[t] # "free" <=> pc[t] # "free"
    BY DEF AttemptStep
  <2> QED
    BY <2>1 DEF AttemptStep, LifecycleInv, OneAttemptPerJob, Busy
<1>5. CopyInv'
  <2> SUFFICES ASSUME NEW t \in Slots, pc'[t] # "free"
               PROVE  /\ Fits(pc'[t], copy'[t].status, records'[job[t]].status)
                      /\ Fits(due'[t], copy'[t].status, records'[job[t]].status)
    BY DEF CopyInv, Busy, AttemptStep
  <2>1. CASE t = s
    BY <2>1 DEF AttemptStep
  <2>2. CASE t # s
    <3>1. /\ pc'[t] = pc[t] /\ copy'[t] = copy[t] /\ due'[t] = due[t]
          /\ job[t] \in Jobs /\ job[t] # j0
      BY <2>2, <1>0 DEF AttemptStep, TypeOK
    <3>2. records'[job[t]] = records[job[t]]
      BY <3>1 DEF AttemptStep
    <3> QED
      BY <3>1, <3>2 DEF LifecycleInv, CopyInv, Busy
  <2> QED
    BY <2>1, <2>2
<1> QED
  BY <1>1, <1>3, <1>4, <1>5 DEF LifecycleInv

LEMMA AttemptBudget ==
  ASSUME NEW s \in Slots, Attempt(s)
  PROVE  UNCHANGED budget \/ \E d : Spend(d)
BY DEF Attempt, Get, TerminalNoop, Claim, LoadAssetRef, AssetMissing, ReportMissingAsset, ReadRaises,
       Begin, EnterStage, CallStage, CallRaises, LeaveStage, Complete, EmitFinished, Except, Update,
       UpdateIndex

(* What the operator's request does once it has read the record. *)
OperatorStep == MarkFailed \/ MarkIndexed \/ Delete \/ DeleteLooksUp \/ Unindex \/ OperatorFails

(* The steps of a create request. *)
ApiStep(r) ==
  LookUp(r) \/ Hit(r) \/ Miss(r) \/ Create(r) \/ CreateIndexed(r) \/ Publish(r) \/ CreateFails(r)

(* Steps that leave the slots alone only have to keep requests, records    *)
(* and messages in step.                                                   *)
LEMMA OtherStepsKeepInv ==
  ASSUME TypeOK, LifecycleInv, UNCHANGED <<pc, job, copy, due, operator>>,
         UNCHANGED budget \/ \E d : Spend(d),
         RequestInv',
         \A s \in Slots : Busy(s) => UNCHANGED <<message[job[s]], holder[job[s]], records[job[s]]>>
  PROVE  LifecycleInv'
<1>1. QuietInv'
  BY DEF TypeOK, LifecycleInv, QuietInv, Spend, Disturbance
<1>2. OneAttemptPerJob'
  BY DEF LifecycleInv, OneAttemptPerJob, Busy
<1>3. CopyInv'
  BY DEF LifecycleInv, CopyInv, Busy
<1> QED
  BY <1>1, <1>2, <1>3 DEF LifecycleInv

LEMMA LifecycleNext == TypeOK /\ LifecycleInv /\ [Next]_vars => LifecycleInv'
<1> SUFFICES ASSUME TypeOK, LifecycleInv, [Next]_vars PROVE LifecycleInv'
  OBVIOUS
<1> USE ConstantsAssumption
<1>0. \A s \in Slots : Busy(s) => /\ job[s] \in Jobs /\ message[job[s]] = "taken" /\ holder[job[s]] = s
                                  /\ request[job[s]] \in Closed
  BY DEF TypeOK, LifecycleInv, OneAttemptPerJob, RequestInv, Busy
<1>1. ASSUME NEW r \in Jobs, ApiStep(r)
      PROVE  LifecycleInv'
  <2>1. request[r] \notin Closed
    BY <1>1 DEF ApiStep, LookUp, Hit, Miss, Create, CreateIndexed, Publish, CreateFails, Closed
  <2>2. /\ UNCHANGED <<pc, job, copy, due, operator, holder>>
        /\ UNCHANGED budget \/ \E d : Spend(d)
        /\ \A j \in Jobs : j # r => UNCHANGED <<message[j], records[j], request[j]>>
    BY <1>1 DEF TypeOK, ApiStep, LookUp, Hit, Miss, Create, CreateIndexed, Publish, CreateFails,
                PutRecord, PutIndex, store, queue, attempts
  <2>3. RequestInv'
    <3>1. NewRecord(clock).status = "queued"
      BY DEF NewRecord, Absent
    <3>2. /\ request'[r] \in {"new", "lookup", "create"} => records'[r].status = "absent"
          /\ request'[r] \in {"index", "publish"} => records'[r].status = "queued" /\ message'[r] = "none"
          /\ message'[r] # "none" => request'[r] \in Closed /\ records'[r].status # "absent"
          /\ message'[r] = "none" /\ records'[r].status # "absent" =>
               records'[r].status = "queued" /\ request'[r] \in {"index", "publish", "dropped"}
          /\ message'[r] = "gone" => records'[r].status \in Terminal
      <4>1. CASE LookUp(r) \/ Hit(r) \/ Miss(r)
        BY <4>1 DEF TypeOK, LifecycleInv, RequestInv, Closed, LookUp, Hit, Miss, store, queue
      <4>2. CASE Create(r) \/ CreateIndexed(r)
        BY <4>2, <3>1 DEF TypeOK, LifecycleInv, RequestInv, Closed, Create, CreateIndexed, PutRecord, PutIndex,
                          queue
      <4>3. CASE Publish(r)
        BY <4>3 DEF TypeOK, LifecycleInv, RequestInv, Closed, Publish, store
      <4>4. CASE CreateFails(r)
        BY <4>4, <3>1 DEF TypeOK, LifecycleInv, RequestInv, Closed, CreateFails, store
      <4> QED
        BY <1>1, <4>1, <4>2, <4>3, <4>4 DEF ApiStep
    <3> QED
      BY <3>2, <2>2 DEF LifecycleInv, RequestInv
  <2>4. \A s \in Slots : Busy(s) => UNCHANGED <<message[job[s]], holder[job[s]], records[job[s]]>>
    BY <1>0, <2>1, <2>2
  <2> QED
    BY <2>2, <2>3, <2>4, OtherStepsKeepInv
<1>2. ASSUME NEW j \in Jobs, OperatorReads(j) \/ VisibilityExpires(j)
      PROVE  LifecycleInv'
  <2>1. VisibilityExpires(j) /\ holder[j] = NoSlot
    BY <1>2 DEF LifecycleInv, QuietInv, OperatorReads, VisibilityExpires, Spend
  <2>2. \A s \in Slots : Busy(s) => UNCHANGED <<message[job[s]], holder[job[s]], records[job[s]]>>
    <3>1. \A s \in Slots : Busy(s) => job[s] # j
      BY <1>0, <2>1
    <3>2. \A i \in Jobs : i # j => message'[i] = message[i] /\ holder'[i] = holder[i]
      BY <2>1 DEF TypeOK, VisibilityExpires
    <3>3. records' = records /\ job' = job
      BY <2>1 DEF VisibilityExpires, store, attempts
    <3>4. \A s \in Slots : Busy(s) => job[s] \in Jobs
      BY <1>0
    <3> QED
      BY <3>1, <3>2, <3>3, <3>4
  <2>3. RequestInv'
    BY <2>1 DEF TypeOK, VisibilityExpires, LifecycleInv, RequestInv, store, api
  <2> QED
    BY <2>1, <2>2, <2>3, OtherStepsKeepInv DEF VisibilityExpires, attempts
<1>3. CASE OperatorStep
  BY <1>3 DEF OperatorStep, MarkFailed, MarkIndexed, Delete, DeleteLooksUp, Unindex, OperatorFails,
              LifecycleInv, QuietInv
<1>4. CASE Crash
  <2>1. QuietInv'
    BY <1>4 DEF TypeOK, Crash, LifecycleInv, QuietInv, Spend, Disturbance
  <2>2. RequestInv'
    BY <1>4 DEF Crash, LifecycleInv, RequestInv, store, api
  <2>3. OneAttemptPerJob' /\ CopyInv'
    <3>1. \A s \in Slots : pc'[s] = "free"
      BY <1>4 DEF Crash
    <3> QED
      BY <3>1 DEF OneAttemptPerJob, CopyInv, Busy
  <2> QED
    BY <2>1, <2>2, <2>3 DEF LifecycleInv
<1>5. CASE Tick
  <2>1. UNCHANGED <<records, message, holder, request, pc, job, copy, due, operator, budget>>
    BY <1>5 DEF Tick, store, queue, api, attempts
  <2>2. RequestInv'
    BY <2>1 DEF LifecycleInv, RequestInv
  <2> QED
    BY <2>1, <2>2, OtherStepsKeepInv
<1>6. ASSUME NEW s \in Slots, Receive(s)
      PROVE  LifecycleInv'
  <2>1. PICK j \in Jobs : /\ message[j] = "visible"
                          /\ message' = [message EXCEPT ![j] = "taken"]
                          /\ holder' = [holder EXCEPT ![j] = s]
                          /\ job' = [job EXCEPT ![s] = j]
    BY <1>6 DEF Receive, Deliverable
  <2>2. /\ pc[s] = "free" /\ pc' = [pc EXCEPT ![s] = "get"] /\ due[s] = "none"
        /\ UNCHANGED <<records, request, copy, due, operator, budget>>
    BY <1>6 DEF TypeOK, Receive, store, api
  <2>3. QuietInv'
    BY <2>2 DEF LifecycleInv, QuietInv
  <2>4. RequestInv'
    BY <2>1, <2>2 DEF TypeOK, LifecycleInv, RequestInv
  <2>5. \A t \in Slots : Busy(t) => t # s /\ job[t] # j
    BY <1>0, <2>1, <2>2 DEF Busy
  <2>6. OneAttemptPerJob'
    BY <1>0, <2>1, <2>2, <2>5 DEF TypeOK, LifecycleInv, OneAttemptPerJob, Busy
  <2>7. CopyInv'
    <3>1. Fits("get", copy[s].status, records[j].status) /\ Fits("none", copy[s].status, records[j].status)
      BY DEF Fits
    <3> QED
      BY <3>1, <2>1, <2>2, <2>5 DEF TypeOK, LifecycleInv, CopyInv, Busy
  <2> QED
    BY <2>3, <2>4, <2>6, <2>7 DEF LifecycleInv
<1>7. ASSUME NEW s \in Slots, Attempt(s)
      PROVE  LifecycleInv'
  BY <1>7, EveryAttemptStep, AttemptBudget, AttemptKeepsInv
<1>8. ASSUME NEW s \in Slots, Ack(s) \/ Nack(s)
      PROVE  LifecycleInv'
  <2> DEFINE j == job[s]
  <2>1. Busy(s)
    BY <1>8 DEF Busy, Ack, Nack, Handled, FailedHandling
  <2>2. /\ holder' = [holder EXCEPT ![j] = NoSlot]
        /\ \/ pc[s] = "returned" /\ message' = [message EXCEPT ![j] = "gone"]
           \/ message' = [message EXCEPT ![j] = "visible"]
    BY <1>8, <1>0, <2>1 DEF Ack, Nack, Settle, Handled
  <2>3. /\ pc' = [pc EXCEPT ![s] = "free"] /\ job' = [job EXCEPT ![s] = NoJob]
        /\ copy' = [copy EXCEPT ![s] = Absent]
        /\ UNCHANGED <<records, request, due, operator, budget>>
    BY <1>8 DEF Ack, Nack, Released, store, api
  <2>4. QuietInv'
    BY <2>3 DEF LifecycleInv, QuietInv
  <2>5. RequestInv'
    <3>1. pc[s] = "returned" => records[j].status \in Terminal
      BY <2>1 DEF LifecycleInv, CopyInv, Fits
    <3> QED
      BY <3>1, <1>0, <2>1, <2>2, <2>3 DEF TypeOK, LifecycleInv, RequestInv
  <2>6. \A t \in Slots : t # s /\ Busy(t) => job[t] # j
    BY <2>1 DEF LifecycleInv, OneAttemptPerJob
  <2>7. OneAttemptPerJob'
    BY <1>0, <2>1, <2>2, <2>3, <2>6 DEF TypeOK, LifecycleInv, OneAttemptPerJob, Busy
  <2>8. CopyInv'
    BY <2>3 DEF TypeOK, LifecycleInv, CopyInv, Busy
  <2> QED
    BY <2>4, <2>5, <2>7, <2>8 DEF LifecycleInv
<1>9. CASE UNCHANGED vars
  BY <1>9 DEF vars, LifecycleInv, QuietInv, RequestInv, OneAttemptPerJob, CopyInv, Busy
<1> QED
  BY <1>1, <1>2, <1>3, <1>4, <1>5, <1>6, <1>7, <1>8, <1>9 DEF Next, ApiStep, OperatorStep

LEMMA LifecycleInit == Undisturbed /\ Init => LifecycleInv
BY DEF Undisturbed, Fits, Init, LifecycleInv, QuietInv, RequestInv, OneAttemptPerJob, CopyInv, Busy, NoRequest, Absent

LEMMA LifecycleInvHolds == ASSUME Undisturbed PROVE Spec => [](TypeOK /\ LifecycleInv)
<1>1. Init => TypeOK /\ LifecycleInv
  BY Undisturbed, LifecycleInit, TypeOKInit
<1>2. TypeOK /\ LifecycleInv /\ [Next]_vars => (TypeOK /\ LifecycleInv)'
  BY LifecycleNext, TypeOKNext
<1> QED
  BY <1>1, <1>2, PTL DEF Spec

-----------------------------------------------------------------------------
(* The visibility lock.  It needs no more than receipts that are not       *)
(* outlived: whatever the operator marks or deletes meanwhile changes      *)
(* records, and the lock is a matter of messages.                          *)

NoExpiry == Budget["expire"] = 0

LockInv ==
  /\ budget["expire"] = 0
  /\ OneAttemptPerJob
  /\ \A j \in Jobs : message[j] # "none" => request[j] \in Closed

(* What a step of an attempt leaves alone, whatever the records say.       *)
SlotStep(s) ==
  /\ pc[s] # "free" /\ pc'[s] # "free"
  /\ \A t \in Slots : t # s => pc'[t] = pc[t] /\ copy'[t] = copy[t] /\ due'[t] = due[t]
  /\ \A j \in Jobs : j # job[s] => records'[j] = records[j]
  /\ UNCHANGED <<message, holder, request, job>>

LEMMA EverySlotStep ==
  ASSUME TypeOK, NEW s \in Slots, Attempt(s)
  PROVE  SlotStep(s)
<1>1. OnError(s) # "free"
  BY DEF OnError
<1>2. ASSUME NEW rec, NEW label, label # "free", pc[s] # "free", Update(s, rec, label)
      PROVE  SlotStep(s)
  BY <1>1, <1>2 DEF TypeOK, Update, Goto, PutRecord, SlotStep, store, queue, api
<1>3. CASE TerminalNoop(s) \/ Claim(s) \/ ReportMissingAsset(s) \/ Begin(s) \/ EnterStage(s)
  BY <1>3, <1>2 DEF TerminalNoop, Claim, ReportMissingAsset, Begin, EnterStage
<1>4. CASE LeaveStage(s) \/ Complete(s) \/ Except(s)
  BY <1>4, <1>2 DEF LeaveStage, Complete, Except
<1>5. CASE Get(s) \/ LoadAssetRef(s)
  BY <1>5 DEF TypeOK, Get, LoadAssetRef, Goto, SlotStep, store, queue, api
<1>6. CASE AssetMissing(s) \/ ReadRaises(s) \/ CallRaises(s) \/ EmitFinished(s)
  BY <1>1, <1>6 DEF TypeOK, AssetMissing, ReadRaises, CallRaises, EmitFinished, Goto, SlotStep,
                    store, queue, api
<1>7. CASE CallStage(s)
  BY <1>7 DEF TypeOK, CallStage, Goto, SlotStep, store, queue, api
<1>8. CASE UpdateIndex(s)
  BY <1>8 DEF TypeOK, UpdateIndex, Goto, PutIndex, SlotStep, store, queue, api
<1> QED
  BY <1>3, <1>4, <1>5, <1>6, <1>7, <1>8 DEF Attempt

LEMMA LockNext == TypeOK /\ LockInv /\ [Next]_vars => LockInv'
<1> SUFFICES ASSUME TypeOK, LockInv, [Next]_vars PROVE LockInv'
  OBVIOUS
<1> USE ConstantsAssumption
<1>1. \A s \in Slots : Busy(s) => /\ job[s] \in Jobs /\ message[job[s]] = "taken" /\ holder[job[s]] = s
                                  /\ request[job[s]] \in Closed
  BY DEF TypeOK, LockInv, OneAttemptPerJob, Busy
<1>2. ASSUME UNCHANGED budget \/ \E d : Spend(d) PROVE budget'["expire"] = 0
  BY <1>2 DEF TypeOK, LockInv, Spend, Disturbance
<1>3. ASSUME NEW r \in Jobs, ApiStep(r)
      PROVE  LockInv'
  <2>1. /\ UNCHANGED <<pc, job, holder>>
        /\ UNCHANGED budget \/ \E d : Spend(d)
        /\ \A j \in Jobs : j # r => message'[j] = message[j] /\ request'[j] = request[j]
        /\ request[r] \notin Closed /\ (message'[r] = message[r] \/ request'[r] \in Closed)
    BY <1>3 DEF TypeOK, ApiStep, LookUp, Hit, Miss, Create, CreateIndexed, Publish, CreateFails, Closed,
                queue, attempts
  <2>2. OneAttemptPerJob'
    <3>1. \A s \in Slots : Busy(s) => job[s] # r
      BY <2>1, <1>1
    <3>2. \A s \in Slots : Busy(s) => message'[job[s]] = "taken" /\ holder'[job[s]] = s
      BY <2>1, <3>1, <1>1
    <3> QED BY <2>1, <3>2 DEF LockInv, OneAttemptPerJob, Busy
  <2>3. \A j \in Jobs : message'[j] # "none" => request'[j] \in Closed
    BY <2>1 DEF LockInv
  <2> QED BY <2>1, <2>2, <2>3, <1>2 DEF LockInv
<1>4. ASSUME \/ \E j \in Jobs : OperatorReads(j)
             \/ OperatorStep \/ Tick \/ UNCHANGED vars
      PROVE  LockInv'
  <2>1. UNCHANGED <<pc, job, message, holder, request>> /\ (UNCHANGED budget \/ \E d : Spend(d))
    BY <1>4 DEF OperatorReads, OperatorStep, MarkFailed, MarkIndexed, Delete, DeleteLooksUp, Unindex,
                OperatorFails, Tick, vars, store, queue, api, attempts
  <2> QED BY <2>1, <1>2 DEF LockInv, OneAttemptPerJob, Busy
<1>5. ASSUME NEW j \in Jobs, VisibilityExpires(j) PROVE LockInv'
  <2>1. holder[j] = NoSlot /\ message[j] = "taken"
    BY <1>5 DEF LockInv, VisibilityExpires, Spend
  <2>2. /\ UNCHANGED <<pc, job, request, budget>>
        /\ \A i \in Jobs : i # j => message'[i] = message[i] /\ holder'[i] = holder[i]
    BY <1>5, <2>1 DEF TypeOK, VisibilityExpires, attempts, api
  <2>3. \A s \in Slots : Busy(s) => job[s] # j
    BY <2>1, <1>1
  <2>4. OneAttemptPerJob'
    BY <2>2, <2>3, <1>1 DEF LockInv, OneAttemptPerJob, Busy
  <2> QED BY <2>1, <2>2, <2>4 DEF LockInv
<1>6. CASE Crash
  <2>1. (\A s \in Slots : pc'[s] = "free") /\ UNCHANGED <<message, request>> /\ Spend("crash")
    BY <1>6 DEF Crash, api
  <2> QED BY <2>1, <1>2 DEF LockInv, OneAttemptPerJob, Busy
<1>7. ASSUME NEW s \in Slots, Receive(s) PROVE LockInv'
  <2>1. PICK j \in Jobs : /\ message[j] = "visible"
                          /\ message' = [message EXCEPT ![j] = "taken"]
                          /\ holder' = [holder EXCEPT ![j] = s]
                          /\ job' = [job EXCEPT ![s] = j]
    BY <1>7 DEF Receive, Deliverable
  <2>2. pc[s] = "free" /\ pc' = [pc EXCEPT ![s] = "get"] /\ UNCHANGED <<request, budget>>
    BY <1>7 DEF Receive, api
  <2>3. \A t \in Slots : Busy(t) => t # s /\ job[t] # j
    BY <2>1, <2>2, <1>1 DEF Busy
  <2>4. OneAttemptPerJob'
    BY <2>1, <2>2, <2>3, <1>1 DEF TypeOK, LockInv, OneAttemptPerJob, Busy
  <2> QED BY <2>1, <2>2, <2>4 DEF TypeOK, LockInv
<1>8. ASSUME NEW s \in Slots, Attempt(s) PROVE LockInv'
  <2>1. SlotStep(s) /\ budget'["expire"] = 0
    BY <1>8, <1>2, EverySlotStep, AttemptBudget
  <2>2. \A t \in Slots : pc'[t] # "free" <=> pc[t] # "free"
    BY <2>1 DEF SlotStep
  <2> QED BY <2>1, <2>2 DEF SlotStep, LockInv, OneAttemptPerJob, Busy
<1>9. ASSUME NEW s \in Slots, Ack(s) \/ Nack(s) PROVE LockInv'
  <2>1. Busy(s)
    BY <1>9 DEF Busy, Ack, Nack, Handled, FailedHandling
  <2>2. /\ holder' = [holder EXCEPT ![job[s]] = NoSlot]
        /\ \E fate : message' = [message EXCEPT ![job[s]] = fate]
    BY <1>9, <1>1, <2>1 DEF Ack, Nack, Settle
  <2>3. /\ pc' = [pc EXCEPT ![s] = "free"] /\ job' = [job EXCEPT ![s] = NoJob]
        /\ UNCHANGED <<request, budget>>
    BY <1>9 DEF Ack, Nack, Released, api
  <2>4. \A t \in Slots : t # s /\ Busy(t) => job[t] # job[s]
    BY <2>1 DEF LockInv, OneAttemptPerJob
  <2>5. OneAttemptPerJob'
    BY <1>1, <2>1, <2>2, <2>3, <2>4 DEF TypeOK, LockInv, OneAttemptPerJob, Busy
  <2>6. \A j \in Jobs : message'[j] # "none" => request'[j] \in Closed
    BY <1>1, <2>1, <2>2, <2>3 DEF TypeOK, LockInv
  <2> QED BY <2>3, <2>5, <2>6 DEF LockInv
<1> QED
  BY <1>3, <1>4, <1>5, <1>6, <1>7, <1>8, <1>9 DEF Next, ApiStep, OperatorStep

LEMMA LockHolds == ASSUME NoExpiry PROVE Spec => [](TypeOK /\ LockInv)
<1>1. Init => TypeOK /\ LockInv
  BY TypeOKInit, NoExpiry DEF NoExpiry, Init, LockInv, OneAttemptPerJob, Busy
<1>2. TypeOK /\ LockInv /\ [Next]_vars => (TypeOK /\ LockInv)'
  BY LockNext, TypeOKNext
<1> QED BY <1>1, <1>2, PTL DEF Spec

(* The visibility lock: as long as it is not outlived, two slots never     *)
(* work on the same job, and each holds the receipt it will settle with,   *)
(* whatever the operator does to the records.                              *)
THEOREM OneAttempt == ASSUME NoExpiry PROVE Spec => []OneAttemptPerJob
<1>1. LockInv => OneAttemptPerJob
  BY DEF LockInv
<1> QED BY <1>1, LockHolds, NoExpiry, PTL

-----------------------------------------------------------------------------
(* Lost jobs.  A message is deleted by an attempt that has returned, and   *)
(* nothing that happens to the record between its last update and the ack  *)
(* makes the job live again: the operator only fails or deletes it.        *)

(* An attempt about to do `label` with a copy of status c, while the store *)
(* has status r.                                                           *)
Ends(label, c, r) ==
  /\ label \in {"noop", "complete", "emit"} => c \in Terminal
  /\ label \in {"emit", "returned"} => r \notin Live

MessageInv ==
  /\ \A j \in Jobs : message[j] = "gone" => records[j].status \notin Live
  /\ \A j \in Jobs : message[j] = "none" /\ records[j].status \in Live =>
       request[j] \in {"index", "publish", "dropped"}
  /\ \A s \in Slots : Busy(s) => Ends(pc[s], copy[s].status, records[job[s]].status)

LEMMA UpdateEnds ==
  ASSUME TypeOK, NEW s \in Slots, pc[s] # "free", NEW rec, NEW label,
         Update(s, rec, label), Ends(label, rec.status, rec.status)
  PROVE  Ends(pc'[s], copy'[s].status, records'[job[s]].status)
<1>1. job[s] \in Jobs /\ copy'[s] = rec
  BY DEF TypeOK, Update
<1>2. \/ pc'[s] = label /\ records'[job[s]] = rec
      \/ pc'[s] \in {"raised", "except"}
  BY <1>1 DEF TypeOK, Update, Goto, OnError, PutRecord
<1> QED BY <1>1, <1>2 DEF Ends

LEMMA AttemptEnds ==
  ASSUME TypeOK, MessageInv, NEW s \in Slots, Attempt(s)
  PROVE  Ends(pc'[s], copy'[s].status, records'[job[s]].status)
<1> DEFINE c == copy[s].status
<1>1. /\ Live \cap Terminal = {}
      /\ copy[s] \in Record /\ clock \in 0..MaxClock
      /\ pc[s] # "free" => Ends(pc[s], c, records[job[s]].status)
  BY DEF TypeOK, MessageInv, Busy, Live, Terminal
<1>2. CASE Get(s)
  BY <1>2 DEF TypeOK, Get, Goto, IsTerminal, Ends
<1>3. CASE TerminalNoop(s) \/ Complete(s)
  BY <1>1, <1>3, UpdateEnds DEF TerminalNoop, Complete, Ends
<1>4. ASSUME NEW rec, NEW label \in {"asset", "raised", "enter", "call"},
             pc[s] # "free", Update(s, rec, label)
      PROVE  Ends(pc'[s], copy'[s].status, records'[job[s]].status)
  <2>1. Ends(label, rec.status, rec.status)
    BY DEF Ends
  <2> QED BY <1>4, <2>1, UpdateEnds
<1>8. CASE Claim(s) \/ ReportMissingAsset(s) \/ Begin(s)
  BY <1>8, <1>4 DEF Claim, ReportMissingAsset, Begin
<1>9. CASE LeaveStage(s) \/ EnterStage(s) \/ Except(s)
  BY <1>9, <1>4 DEF LeaveStage, EnterStage, Except
<1>5. CASE LoadAssetRef(s) \/ AssetMissing(s) \/ ReadRaises(s) \/ CallRaises(s)
  <2>1. pc'[s] \in {"start", "raised", "noasset", "except"}
    BY <1>5 DEF TypeOK, LoadAssetRef, AssetMissing, ReadRaises, CallRaises, Goto, OnError
  <2> QED BY <2>1 DEF Ends
<1>6. CASE CallStage(s)
  <2> DEFINE closed == StageClosed(copy[s], stage[s])
  <2>1. closed \in Record
    BY <1>1 DEF StageClosed, Record
  <2>2. Completed(closed, clock).status \in Terminal
    BY <2>1 DEF Completed, Record, Terminal
  <2>3. \/ pc'[s] \in {"leave", "enter"}
        \/ pc'[s] = "complete" /\ copy'[s] = Completed(closed, clock)
    BY <1>6 DEF TypeOK, CallStage, Goto
  <2> QED BY <2>2, <2>3 DEF Ends
<1>7. CASE EmitFinished(s)
  <2>1. /\ pc[s] = "emit" /\ pc'[s] \in {"returned", "except"} /\ UNCHANGED records
    BY <1>7 DEF TypeOK, EmitFinished, Goto, OnError, store
  <2> QED BY <1>1, <2>1 DEF Ends
<1>10. CASE UpdateIndex(s)
  <2>1. /\ pc[s] # "free" /\ UNCHANGED <<records, copy>>
        /\ pc'[s] = pc[s] \/ pc'[s] \in {"raised", "except"}
    BY <1>10 DEF TypeOK, UpdateIndex, Goto, PutIndex, store
  <2> QED BY <1>1, <2>1 DEF Ends
<1> QED
  BY <1>2, <1>3, <1>5, <1>6, <1>7, <1>8, <1>9, <1>10 DEF Attempt

LEMMA MessageNext == TypeOK /\ LockInv /\ MessageInv /\ [Next]_vars => MessageInv'
<1> SUFFICES ASSUME TypeOK, LockInv, MessageInv, [Next]_vars PROVE MessageInv'
  OBVIOUS
<1> USE ConstantsAssumption
<1>1. \A s \in Slots : Busy(s) => job[s] \in Jobs /\ message[job[s]] = "taken" /\ holder[job[s]] = s
  BY DEF TypeOK, LockInv, OneAttemptPerJob, Busy
(* Steps that leave the slots alone and bring no record to life. *)
<1>2. ASSUME UNCHANGED <<pc, job, copy>>,
             \A j \in Jobs : records'[j].status \in Live => records[j].status \in Live,
             \A j \in Jobs : \/ message'[j] = message[j] /\ request'[j] = request[j]
                             \/ message'[j] \notin {"none", "gone"}
                             \/ message'[j] = "none" /\ records'[j].status \notin Live
      PROVE  MessageInv'
  <2>1. \A s \in Slots : Busy(s)' => Ends(pc[s], copy[s].status, records'[job[s]].status)
    BY <1>1, <1>2 DEF MessageInv, Ends, Busy
  <2> QED BY <1>2, <2>1 DEF MessageInv
<1>3. ASSUME NEW r \in Jobs, ApiStep(r), records' = records PROVE MessageInv'
  <2>1. /\ UNCHANGED <<pc, job, copy>>
        /\ \A j \in Jobs : j # r => message'[j] = message[j] /\ request'[j] = request[j]
        /\ \/ message'[r] = "visible"
           \/ /\ message'[r] = message[r] /\ request[r] \notin Closed
              /\ \/ request[r] \in {"new", "lookup", "create"}
                 \/ request'[r] \in {"publish", "dropped"}
    BY <1>3 DEF TypeOK, ApiStep, LookUp, Hit, Miss, Create, CreateIndexed, Publish, CreateFails, Closed,
                store, queue, attempts
  <2>2. /\ request[r] \notin Closed => message[r] = "none"
        /\ request[r] \in {"new", "lookup", "create"} => message[r] = "none" /\ records[r].status \notin Live
    BY DEF TypeOK, LockInv, MessageInv, Closed
  <2>3. \A s \in Slots : Busy(s)' => Ends(pc[s], copy[s].status, records'[job[s]].status)
    BY <1>3, <2>1 DEF MessageInv, Busy
  <2> QED BY <1>3, <2>1, <2>2, <2>3 DEF MessageInv
<1>4. ASSUME NEW r \in Jobs, Create(r) PROVE MessageInv'
  <2>1. /\ UNCHANGED <<pc, job, copy, message>> /\ request[r] \notin Closed
        /\ \A j \in Jobs : j # r => records'[j] = records[j] /\ request'[j] = request[j]
        /\ request'[r] = "index"
    BY <1>4 DEF TypeOK, Create, PutRecord, Closed, store, queue, attempts
  <2>2. message[r] = "none" /\ \A s \in Slots : Busy(s) => job[s] # r
    BY <1>1, <2>1 DEF TypeOK, LockInv
  <2>3. \A s \in Slots : Busy(s)' => Ends(pc[s], copy[s].status, records'[job[s]].status)
    BY <1>1, <2>1, <2>2 DEF MessageInv, Busy
  <2> QED BY <2>1, <2>2, <2>3 DEF MessageInv
<1>11. ASSUME NEW r \in Jobs, ApiStep(r) PROVE MessageInv'
  <2>1. records' = records \/ Create(r)
    BY <1>11 DEF ApiStep, LookUp, Hit, Miss, CreateIndexed, PutIndex, Publish, CreateFails, store
  <2> QED BY <1>3, <1>4, <1>11, <2>1
<1>5. CASE OperatorStep \/ (\E j \in Jobs : OperatorReads(j)) \/ Tick \/ UNCHANGED vars
  <2>1. UNCHANGED <<pc, job, copy, message, request>>
    BY <1>5 DEF OperatorReads, OperatorStep, MarkFailed, MarkIndexed, Delete, DeleteLooksUp, Unindex,
                OperatorFails, Tick, vars, queue, api, attempts
  <2>2. Absent.status \notin Live /\ MarkedFailed(operator.copy, clock).status \notin Live
    BY DEF TypeOK, Record, Absent, MarkedFailed, Live
  <2>3. \/ UNCHANGED records
        \/ \E rec \in {Absent, MarkedFailed(operator.copy, clock)} :
             records' = [records EXCEPT ![operator.job] = rec]
    BY <1>5 DEF OperatorReads, OperatorStep, MarkFailed, MarkIndexed, Delete, DeleteLooksUp, Unindex,
                OperatorFails, Remove, PutRecord, PutIndex, Tick, vars, store
  <2>4. \A j \in Jobs : records'[j].status \in Live => records[j].status \in Live
    BY <2>2, <2>3 DEF TypeOK
  <2> QED BY <1>2, <2>1, <2>4
<1>6. ASSUME NEW j \in Jobs, VisibilityExpires(j) PROVE MessageInv'
  BY <1>2, <1>6 DEF TypeOK, VisibilityExpires, store, api, attempts
<1>7. CASE Crash
  <2>1. (\A s \in Slots : pc'[s] = "free") /\ UNCHANGED <<message, request, records>>
    BY <1>7 DEF Crash, api, store
  <2> QED BY <2>1 DEF MessageInv, Busy
<1>8. ASSUME NEW s \in Slots, Receive(s) PROVE MessageInv'
  <2>1. PICK j \in Jobs : /\ message' = [message EXCEPT ![j] = "taken"]
                          /\ job' = [job EXCEPT ![s] = j]
    BY <1>8 DEF Receive
  <2>2. /\ pc[s] = "free" /\ pc' = [pc EXCEPT ![s] = "get"]
        /\ UNCHANGED <<request, records, copy>>
    BY <1>8 DEF Receive, api, store
  <2>3. \A t \in Slots : Busy(t)' => Ends(pc'[t], copy'[t].status, records'[job'[t]].status)
    BY <2>1, <2>2 DEF TypeOK, MessageInv, Busy, Ends
  <2>4. \A i \in Jobs : message'[i] = message[i] \/ message'[i] = "taken"
    BY <2>1 DEF TypeOK
  <2> QED BY <2>2, <2>3, <2>4 DEF MessageInv
<1>9. ASSUME NEW s \in Slots, Attempt(s) PROVE MessageInv'
  <2>1. SlotStep(s) /\ Ends(pc'[s], copy'[s].status, records'[job[s]].status)
    BY <1>9, EverySlotStep, AttemptEnds
  <2>2. Busy(s) /\ message[job[s]] = "taken"
    BY <1>1, <2>1 DEF SlotStep, Busy
  <2>3. ASSUME NEW t \in Slots, Busy(t)'
        PROVE  Ends(pc'[t], copy'[t].status, records'[job'[t]].status)
    <3>1. CASE t = s
      BY <2>1, <3>1 DEF SlotStep
    <3>2. CASE t # s
      <4>1. Busy(t) /\ pc'[t] = pc[t] /\ copy'[t] = copy[t] /\ job'[t] = job[t]
        BY <2>1, <2>3, <3>2 DEF SlotStep, Busy
      <4>2. job[t] \in Jobs /\ job[t] # job[s]
        BY <1>1, <2>2, <3>2, <4>1
      <4> QED BY <2>1, <4>1, <4>2 DEF SlotStep, MessageInv
    <3> QED BY <3>1, <3>2
  <2> QED BY <2>1, <2>2, <2>3 DEF SlotStep, MessageInv
<1>10. ASSUME NEW s \in Slots, Ack(s) \/ Nack(s) PROVE MessageInv'
  <2>1. Busy(s)
    BY <1>10 DEF Busy, Ack, Nack, Handled, FailedHandling
  <2>2. \/ pc[s] = "returned" /\ message' = [message EXCEPT ![job[s]] = "gone"]
        \/ message' = [message EXCEPT ![job[s]] = "visible"]
    BY <1>1, <1>10, <2>1 DEF Ack, Nack, Settle, Handled
  <2>3. /\ pc' = [pc EXCEPT ![s] = "free"] /\ job' = [job EXCEPT ![s] = NoJob]
        /\ copy' = [copy EXCEPT ![s] = Absent] /\ UNCHANGED <<request, records>>
    BY <1>10 DEF Ack, Nack, Released, api, store
  <2>4. pc[s] = "returned" => records[job[s]].status \notin Live
    BY <2>1 DEF MessageInv, Ends
  <2>5. \A t \in Slots : Busy(t)' => Ends(pc'[t], copy'[t].status, records'[job'[t]].status)
    BY <2>3 DEF TypeOK, MessageInv, Busy
  <2> QED BY <1>1, <2>1, <2>2, <2>3, <2>4, <2>5 DEF TypeOK, MessageInv
<1> QED
  BY <1>11, <1>5, <1>6, <1>7, <1>8, <1>9, <1>10 DEF Next, ApiStep, OperatorStep

(* No job that was published is stranded: until it has ended its message   *)
(* is in the queue or held by a worker, through any crash or failure and   *)
(* any edit of the operator.                                               *)
THEOREM NoJobIsLost == ASSUME NoExpiry PROVE Spec => []NoLostJob
<1>1. Init => MessageInv
  BY DEF Init, MessageInv, Busy, Absent, Live
<1>2. TypeOK /\ MessageInv => NoLostJob
  BY DEF TypeOK, MessageInv, NoLostJob
<1> QED BY <1>1, <1>2, MessageNext, LockHolds, NoExpiry, PTL DEF Spec

-----------------------------------------------------------------------------
(* Results.  An attempt that meets a stored result writes none but a       *)
(* succeeded copy over it, so only the operator can take a result away.    *)

(* An attempt about to do `label` with a copy of status c, while the store *)
(* has status r.                                                           *)
Keeps(label, c, r) ==
  /\ label \in {"claim", "asset", "noasset", "start", "enter", "call", "leave"} =>
       c # "succeeded" /\ r # "succeeded"
  /\ label = "complete" => c = "succeeded"
  /\ label \in {"noop", "emit", "except"} => (r = "succeeded" => c = "succeeded")

ResultInv ==
  /\ \A j \in Jobs : records[j].status = "succeeded" => request[j] \in Closed
  /\ \A s \in Slots : Busy(s) => /\ Keeps(pc[s], copy[s].status, records[job[s]].status)
                                 /\ Keeps(due[s], copy[s].status, records[job[s]].status)

LEMMA UpdateKeeps ==
  ASSUME TypeOK, NEW s \in Slots, pc[s] # "free", due[s] = "none", NEW rec, NEW label,
         Update(s, rec, label), Keeps(label, rec.status, rec.status),
         records[job[s]].status = "succeeded" => rec.status = "succeeded"
  PROVE  /\ Keeps(pc'[s], copy'[s].status, records'[job[s]].status)
         /\ Keeps(due'[s], copy'[s].status, records'[job[s]].status)
         /\ records[job[s]].status = "succeeded" => records'[job[s]].status = "succeeded"
<1>1. job[s] \in Jobs /\ copy'[s] = rec
  BY DEF TypeOK, Update
<1>2. \/ pc'[s] = label /\ records'[job[s]] = rec /\ due'[s] \in {"raised", "except"}
      \/ pc'[s] \in {"raised", "except"} /\ records'[job[s]] = records[job[s]] /\ due'[s] = "none"
  BY <1>1 DEF TypeOK, Update, Goto, OnError, PutRecord, store
<1> QED BY <1>1, <1>2 DEF Keeps

LEMMA AttemptKeeps ==
  ASSUME TypeOK, ResultInv, NEW s \in Slots, Attempt(s)
  PROVE  /\ Keeps(pc'[s], copy'[s].status, records'[job[s]].status)
         /\ Keeps(due'[s], copy'[s].status, records'[job[s]].status)
         /\ records[job[s]].status = "succeeded" => records'[job[s]].status = "succeeded"
<1> DEFINE c == copy[s].status
           r == records[job[s]].status
           Goal == /\ Keeps(pc'[s], copy'[s].status, records'[job[s]].status)
                   /\ Keeps(due'[s], copy'[s].status, records'[job[s]].status)
                   /\ r = "succeeded" => records'[job[s]].status = "succeeded"
<1>1. /\ copy[s] \in Record /\ clock \in 0..MaxClock
      /\ pc[s] # "free" => Keeps(pc[s], c, r) /\ Keeps(due[s], c, r)
      /\ \A st, rt : Keeps("none", st, rt)
  BY DEF TypeOK, ResultInv, Busy, Keeps
<1>11. CASE UpdateIndex(s)
  <2>1. /\ pc[s] # "free" /\ UNCHANGED <<records, copy>> /\ due'[s] = "none"
        /\ pc'[s] = pc[s] \/ pc'[s] = due[s]
    BY <1>11 DEF TypeOK, UpdateIndex, Goto, PutIndex, store
  <2> QED BY <1>1, <2>1
<1> SUFFICES ASSUME due[s] = "none" PROVE Goal
  BY <1>11 DEF Attempt
<1>2. CASE Get(s)
  BY <1>1, <1>2 DEF TypeOK, Get, Goto, IsTerminal, Terminal, Keeps, store
<1>3. CASE TerminalNoop(s) \/ Complete(s)
  BY <1>1, <1>3, UpdateKeeps DEF TerminalNoop, Complete, Keeps
<1>4. ASSUME NEW rec, NEW label \in {"asset", "raised", "enter", "call"},
             pc[s] # "free", Update(s, rec, label), rec.status # "succeeded", r # "succeeded"
      PROVE  Goal
  <2>1. Keeps(label, rec.status, rec.status)
    BY <1>4 DEF Keeps
  <2> QED BY <1>4, <2>1, UpdateKeeps
<1>5. CASE Claim(s) \/ ReportMissingAsset(s) \/ Begin(s)
  BY <1>1, <1>4, <1>5 DEF Claim, ReportMissingAsset, Begin, Keeps
<1>6. CASE LeaveStage(s) \/ EnterStage(s)
  <2>1. StageOpened(copy[s], stage[s]).status = c
    BY <1>1 DEF StageOpened, Record
  <2> QED BY <1>1, <1>4, <1>6, <2>1 DEF LeaveStage, EnterStage, Keeps
<1>7. CASE Except(s)
  <2>1. c = "succeeded" => Failed(copy[s], clock).status = "succeeded"
    BY <1>1 DEF Failed, RunningStageFailed, StageClosed, IsTerminal, Terminal, Record
  <2>2. Keeps("raised", Failed(copy[s], clock).status, Failed(copy[s], clock).status)
    BY DEF Keeps
  <2> QED BY <1>1, <1>7, <2>1, <2>2, UpdateKeeps DEF Except, Keeps
<1>8. CASE LoadAssetRef(s) \/ AssetMissing(s) \/ ReadRaises(s)
  <2>1. UNCHANGED <<records, due>> /\ pc[s] \in {"asset", "get"}
    BY <1>8 DEF LoadAssetRef, AssetMissing, ReadRaises, store
  <2>2. \/ pc'[s] = "raised"
        \/ pc[s] = "asset" /\ pc'[s] = "noasset" /\ copy'[s] = copy[s]
        \/ pc[s] = "asset" /\ pc'[s] = "start" /\ copy'[s] = Started(copy[s], clock)
    BY <1>8 DEF TypeOK, LoadAssetRef, AssetMissing, ReadRaises, Goto, OnError
  <2>3. Started(copy[s], clock).status = "running"
    BY <1>1 DEF Started, Record
  <2> QED BY <1>1, <2>1, <2>2, <2>3 DEF Keeps
<1>9. CASE CallStage(s)
  <2> DEFINE closed == StageClosed(copy[s], stage[s])
  <2>1. closed \in Record /\ closed.status = c
    BY <1>1 DEF StageClosed, Record
  <2>2. Completed(closed, clock).status = "succeeded"
    BY <2>1 DEF Completed, Record
  <2>3. pc[s] = "call" /\ UNCHANGED <<records, due>>
    BY <1>9 DEF CallStage, store
  <2>4. \/ pc'[s] \in {"leave", "enter"} /\ copy'[s] = closed
        \/ pc'[s] = "complete" /\ copy'[s] = Completed(closed, clock)
    BY <1>9 DEF TypeOK, CallStage, Goto
  <2> QED BY <1>1, <2>1, <2>2, <2>3, <2>4 DEF Keeps
<1>10. CASE CallRaises(s) \/ EmitFinished(s)
  <2>1. /\ pc[s] \in {"call", "emit"} /\ pc'[s] \in {"returned", "except"}
        /\ UNCHANGED <<records, copy, due>>
    BY <1>10 DEF TypeOK, CallRaises, EmitFinished, Goto, OnError, store
  <2> QED BY <1>1, <2>1 DEF Keeps
<1> QED
  BY <1>11, <1>2, <1>3, <1>5, <1>6, <1>7, <1>8, <1>9, <1>10 DEF Attempt

LEMMA ResultNext ==
  ASSUME TypeOK, LockInv, ResultInv, [Next]_vars
  PROVE  /\ ResultInv'
         /\ \A j \in Jobs : records[j].status = "succeeded" =>
              records'[j].status = "succeeded" \/ MarkFailed \/ Delete
<1> USE ConstantsAssumption
<1> DEFINE Stays == \A j \in Jobs : records[j].status = "succeeded" => records'[j].status = "succeeded"
<1>1. \A s \in Slots : Busy(s) => /\ job[s] \in Jobs /\ message[job[s]] = "taken" /\ holder[job[s]] = s
                                  /\ request[job[s]] \in Closed
  BY DEF TypeOK, LockInv, OneAttemptPerJob, Busy
(* Steps that leave the slots alone and store no result. *)
<1>2. ASSUME UNCHANGED <<pc, job, copy, due>>,
             \A j \in Jobs : records'[j].status = "succeeded" => records[j].status = "succeeded",
             \A j \in Jobs : request[j] \in Closed => request'[j] \in Closed
      PROVE  ResultInv'
  <2>1. \A s \in Slots : Busy(s)' => /\ Keeps(pc[s], copy[s].status, records'[job[s]].status)
                                     /\ Keeps(due[s], copy[s].status, records'[job[s]].status)
    BY <1>1, <1>2 DEF ResultInv, Keeps, Busy
  <2> QED BY <1>2, <2>1 DEF ResultInv
<1>3. ASSUME NEW r \in Jobs, ApiStep(r), records' = records PROVE ResultInv' /\ Stays
  <2>1. /\ UNCHANGED <<pc, job, copy, due>>
        /\ \A j \in Jobs : request[j] \in Closed => request'[j] \in Closed
    BY <1>3 DEF TypeOK, ApiStep, LookUp, Hit, Miss, Create, CreateIndexed, Publish, CreateFails, Closed, attempts
  <2> QED BY <1>2, <1>3, <2>1
<1>4. ASSUME NEW r \in Jobs, Create(r) PROVE ResultInv' /\ Stays
  <2>1. /\ UNCHANGED <<pc, job, copy, due>> /\ request[r] \notin Closed
        /\ \A j \in Jobs : j # r => records'[j] = records[j]
        /\ records'[r] = NewRecord(clock)
        /\ \A j \in Jobs : request[j] \in Closed => request'[j] \in Closed
    BY <1>4 DEF TypeOK, Create, PutRecord, Closed, attempts
  <2>2. records[r].status # "succeeded" /\ NewRecord(clock).status # "succeeded"
    BY <2>1 DEF ResultInv, NewRecord, Absent
  <2> QED BY <1>2, <2>1, <2>2
<1>11. ASSUME NEW r \in Jobs, ApiStep(r) PROVE ResultInv' /\ Stays
  <2>1. records' = records \/ Create(r)
    BY <1>11 DEF ApiStep, LookUp, Hit, Miss, CreateIndexed, PutIndex, Publish, CreateFails, store
  <2> QED BY <1>3, <1>4, <1>11, <2>1
<1>5. CASE (\E j \in Jobs : OperatorReads(j) \/ VisibilityExpires(j)) \/ Tick \/ UNCHANGED vars
  BY <1>2, <1>5 DEF OperatorReads, VisibilityExpires, Tick, vars, store, api, attempts
<1>6. CASE OperatorStep
  <2>1. UNCHANGED <<pc, job, copy, due, request>>
    BY <1>6 DEF OperatorStep, MarkFailed, MarkIndexed, Delete, DeleteLooksUp, Unindex, OperatorFails,
                attempts, api
  <2>2. Absent.status # "succeeded" /\ MarkedFailed(operator.copy, clock).status # "succeeded"
    BY DEF TypeOK, Record, Absent, MarkedFailed
  <2>3. \/ UNCHANGED records
        \/ /\ MarkFailed \/ Delete
           /\ \E rec \in {Absent, MarkedFailed(operator.copy, clock)} :
                records' = [records EXCEPT ![operator.job] = rec]
    BY <1>6 DEF OperatorStep, MarkFailed, MarkIndexed, Delete, DeleteLooksUp, Unindex, OperatorFails,
                Remove, PutRecord, PutIndex, store
  <2>4. \A j \in Jobs : records'[j].status = "succeeded" => records[j].status = "succeeded"
    BY <2>2, <2>3 DEF TypeOK
  <2> QED BY <1>2, <2>1, <2>3, <2>4
<1>7. CASE Crash
  <2>1. (\A s \in Slots : pc'[s] = "free") /\ UNCHANGED <<records, request>>
    BY <1>7 DEF Crash, store, api
  <2> QED BY <2>1 DEF ResultInv, Busy
<1>8. ASSUME NEW s \in Slots, Receive(s) PROVE ResultInv' /\ Stays
  <2>1. PICK j \in Jobs : job' = [job EXCEPT ![s] = j]
    BY <1>8 DEF Receive
  <2>2. pc[s] = "free" /\ pc' = [pc EXCEPT ![s] = "get"]
    BY <1>8 DEF Receive
  <2>3. UNCHANGED <<records, copy, due, request>> /\ due[s] = "none"
    BY <1>8 DEF TypeOK, Receive, store, api
  <2> QED BY <2>1, <2>2, <2>3 DEF TypeOK, ResultInv, Busy, Keeps
<1>9. ASSUME NEW s \in Slots, Attempt(s) PROVE ResultInv' /\ Stays
  <2>1. /\ SlotStep(s) /\ Keeps(pc'[s], copy'[s].status, records'[job[s]].status)
        /\ Keeps(due'[s], copy'[s].status, records'[job[s]].status)
        /\ records[job[s]].status = "succeeded" => records'[job[s]].status = "succeeded"
    BY <1>9, EverySlotStep, AttemptKeeps
  <2>2. Busy(s) /\ message[job[s]] = "taken" /\ request[job[s]] \in Closed
    BY <1>1, <2>1 DEF SlotStep, Busy
  <2>3. ASSUME NEW t \in Slots, Busy(t)'
        PROVE  /\ Keeps(pc'[t], copy'[t].status, records'[job'[t]].status)
               /\ Keeps(due'[t], copy'[t].status, records'[job'[t]].status)
    <3>1. CASE t = s
      BY <2>1, <3>1 DEF SlotStep
    <3>2. CASE t # s
      <4>1. Busy(t) /\ pc'[t] = pc[t] /\ copy'[t] = copy[t] /\ due'[t] = due[t] /\ job'[t] = job[t]
        BY <2>1, <2>3, <3>2 DEF SlotStep, Busy
      <4>2. job[t] \in Jobs /\ job[t] # job[s]
        BY <1>1, <2>2, <3>2, <4>1
      <4> QED BY <2>1, <4>1, <4>2 DEF SlotStep, ResultInv
    <3> QED BY <3>1, <3>2
  <2> QED BY <2>1, <2>2, <2>3 DEF SlotStep, ResultInv
<1>10. ASSUME NEW s \in Slots, Ack(s) \/ Nack(s) PROVE ResultInv' /\ Stays
  <2>1. /\ pc' = [pc EXCEPT ![s] = "free"] /\ job' = [job EXCEPT ![s] = NoJob]
        /\ copy' = [copy EXCEPT ![s] = Absent] /\ UNCHANGED <<records, request, due>>
    BY <1>10 DEF Ack, Nack, Released, store, api
  <2> QED BY <2>1 DEF TypeOK, ResultInv, Busy
<1> QED
  BY <1>11, <1>5, <1>6, <1>7, <1>8, <1>9, <1>10 DEF Next, ApiStep, OperatorStep

(* A stored result is taken away by nobody but the operator as long as no  *)
(* receipt is outlived: neither a redelivery, nor a crash, nor the except  *)
(* block that runs after the result was stored.                            *)
THEOREM OnlyOperatorTakesResults ==
  ASSUME NoExpiry
  PROVE  Spec => [][\A j \in Jobs : records[j].status = "succeeded" =>
                      records'[j].status = "succeeded" \/ MarkFailed \/ Delete]_vars
<1>1. Init => ResultInv
  BY DEF Init, ResultInv, Busy, Absent
<1>2. TypeOK /\ LockInv /\ ResultInv /\ [Next]_vars => ResultInv'
  BY ResultNext
<1>3. TypeOK /\ LockInv /\ ResultInv /\ [Next]_vars =>
        [\A j \in Jobs : records[j].status = "succeeded" =>
           records'[j].status = "succeeded" \/ MarkFailed \/ Delete]_vars
  BY ResultNext
<1> QED BY <1>1, <1>2, <1>3, LockHolds, NoExpiry, PTL DEF Spec

-----------------------------------------------------------------------------
(* Refinement *)

LEMMA RefinementInit == Init => Lifecycle!Init
<1> SUFFICES ASSUME Init PROVE Lifecycle!Init
  OBVIOUS
<1>1. \A j \in Jobs : records[j].status = "absent"
  BY DEF Init, Absent
<1>2. \A j \in Jobs : (message[j] = "gone") = FALSE
  BY DEF Init
<1> QED
  BY <1>1, <1>2 DEF Lifecycle!Init

(* A step that moves one job, or settles one job that has ended, is a step *)
(* of JobLifecycle.                                                        *)
LEMMA OneJobMoves ==
  ASSUME TypeOK, NEW j \in Jobs,
         \A i \in Jobs : i # j => records'[i].status = records[i].status,
         \A i \in Jobs : message'[i] = "gone" <=> message[i] = "gone",
         \/ records'[j].status = records[j].status
         \/ records[j].status = "absent" /\ records'[j].status = "queued"
         \/ records[j].status = "queued" /\ records'[j].status = "running"
         \/ records[j].status = "running" /\ records'[j].status \in Terminal
  PROVE  [Lifecycle!Next]_(Lifecycle!vars)
<1> DEFINE phase == [i \in Jobs |-> records[i].status]
           settled == [i \in Jobs |-> message[i] = "gone"]
           newPhase == [i \in Jobs |-> records'[i].status]
           newSettled == [i \in Jobs |-> message'[i] = "gone"]
<1>1. newSettled = settled
  OBVIOUS
<1>2. newPhase = [phase EXCEPT ![j] = records'[j].status]
  OBVIOUS
<1>3. CASE records'[j].status = records[j].status
  <2>1. newPhase = phase
    BY <1>3
  <2> QED
    BY <1>1, <2>1 DEF Lifecycle!vars
<1>4. CASE records[j].status = "absent" /\ records'[j].status = "queued"
  <2>1. Lifecycle!Accept(j)
    BY <1>1, <1>2, <1>4 DEF Lifecycle!Accept, Lifecycle!Move
  <2> QED
    BY <2>1 DEF Lifecycle!Next
<1>5. CASE records[j].status = "queued" /\ records'[j].status = "running"
  <2>1. Lifecycle!Begin(j)
    BY <1>1, <1>2, <1>5 DEF Lifecycle!Begin, Lifecycle!Move
  <2> QED
    BY <2>1 DEF Lifecycle!Next
<1>6. CASE records[j].status = "running" /\ records'[j].status \in Terminal
  <2>1. Lifecycle!Succeed(j) \/ Lifecycle!Fail(j)
    BY <1>1, <1>2, <1>6 DEF Lifecycle!Succeed, Lifecycle!Fail, Lifecycle!Move, Terminal
  <2> QED
    BY <2>1 DEF Lifecycle!Next
<1> QED
  BY <1>3, <1>4, <1>5, <1>6

LEMMA RefinementNext ==
  ASSUME TypeOK, TypeOK', LifecycleInv, [Next]_vars
  PROVE  [Lifecycle!Next]_(Lifecycle!vars)
<1> USE ConstantsAssumption
<1>0. \A s \in Slots : Busy(s) => job[s] \in Jobs /\ message[job[s]] = "taken" /\ holder[job[s]] = s
  BY DEF TypeOK, LifecycleInv, OneAttemptPerJob, Busy
<1>a. ASSUME \A i \in Jobs : records'[i].status = records[i].status,
             \A i \in Jobs : message'[i] = "gone" <=> message[i] = "gone"
      PROVE  [Lifecycle!Next]_(Lifecycle!vars)
  BY <1>a DEF Lifecycle!vars
<1>1. ASSUME NEW r \in Jobs, ApiStep(r)
      PROVE  [Lifecycle!Next]_(Lifecycle!vars)
  <2>1. NewRecord(clock).status = "queued"
    BY DEF NewRecord, Absent
  <2>2. \A i \in Jobs : message'[i] = "gone" <=> message[i] = "gone"
    BY <1>1 DEF TypeOK, ApiStep, LookUp, Hit, Miss, Create, CreateIndexed, Publish, CreateFails,
                LifecycleInv, RequestInv, queue
  <2>3. \/ records' = records
        \/ request[r] = "create" /\ records' = [records EXCEPT ![r] = NewRecord(clock)]
    BY <1>1 DEF ApiStep, LookUp, Hit, Miss, Create, CreateIndexed, Publish, CreateFails, PutRecord, PutIndex, store
  <2>4. request[r] = "create" => records[r].status = "absent"
    BY DEF LifecycleInv, RequestInv
  <2> QED
    BY <2>1, <2>2, <2>3, <2>4, OneJobMoves DEF TypeOK
<1>2. ASSUME NEW j \in Jobs, OperatorReads(j) \/ VisibilityExpires(j)
      PROVE  [Lifecycle!Next]_(Lifecycle!vars)
  BY <1>2, <1>a DEF TypeOK, OperatorReads, VisibilityExpires, store, queue
<1>3. CASE OperatorStep
  BY <1>3 DEF OperatorStep, MarkFailed, MarkIndexed, Delete, DeleteLooksUp, Unindex, OperatorFails,
              LifecycleInv, QuietInv
<1>4. CASE Crash \/ Tick
  BY <1>4, <1>a DEF Crash, Tick, store, queue
<1>5. ASSUME NEW s \in Slots, Receive(s)
      PROVE  [Lifecycle!Next]_(Lifecycle!vars)
  BY <1>5, <1>a DEF TypeOK, Receive, Deliverable, store
<1>6. ASSUME NEW s \in Slots, Attempt(s)
      PROVE  [Lifecycle!Next]_(Lifecycle!vars)
  <2>1. AttemptStep(s)
    BY <1>6, EveryAttemptStep
  <2>2. job[s] \in Jobs
    BY <2>1, <1>0 DEF AttemptStep, Busy
  <2>3. Moves(records[job[s]].status, records'[job[s]].status)
    BY <2>1 DEF AttemptStep
  <2>4. \A i \in Jobs : i # job[s] => records'[i].status = records[i].status
    BY <2>1 DEF AttemptStep
  <2>5. \A i \in Jobs : message'[i] = "gone" <=> message[i] = "gone"
    BY <2>1 DEF AttemptStep
  <2> QED
    BY <2>2, <2>3, <2>4, <2>5, OneJobMoves DEF Moves
<1>7. ASSUME NEW s \in Slots, Ack(s)
      PROVE  [Lifecycle!Next]_(Lifecycle!vars)
  <2>1. pc[s] = "returned" /\ records' = records
    BY <1>7 DEF Ack, Handled, store
  <2>2. PICK j \in Jobs : j = job[s]
    BY <2>1, <1>0 DEF Busy
  <2>3. records[j].status \in Terminal
    BY <2>1, <2>2 DEF LifecycleInv, CopyInv, Fits, Busy
  <2>4. message' = [message EXCEPT ![j] = "gone"]
    BY <2>1, <2>2, <1>0, <1>7 DEF Ack, Settle, Busy
  <2>5. \A i \in Jobs : (message'[i] = "gone") = (message[i] = "gone" \/ i \in {j})
    BY <2>4 DEF TypeOK
  <2>6. {j} \subseteq Lifecycle!Over
    BY <2>3 DEF Lifecycle!Over, Terminal
  <2>7. Lifecycle!Settle({j})
    BY <2>1, <2>5, <2>6 DEF Lifecycle!Settle
  <2> QED
    BY <2>6, <2>7 DEF Lifecycle!Next
<1>8. ASSUME NEW s \in Slots, Nack(s)
      PROVE  [Lifecycle!Next]_(Lifecycle!vars)
  <2>1. Busy(s) /\ records' = records
    BY <1>8 DEF Nack, FailedHandling, Busy, store
  <2>2. message' = [message EXCEPT ![job[s]] = "visible"]
    BY <2>1, <1>0, <1>8 DEF Nack, Settle
  <2> QED
    BY <2>1, <2>2, <1>0, <1>a DEF TypeOK
<1>9. CASE UNCHANGED vars
  BY <1>9, <1>a DEF vars
<1> QED
  BY <1>1, <1>2, <1>3, <1>4, <1>5, <1>6, <1>7, <1>8, <1>9 DEF Next, ApiStep, OperatorStep

(* The pipeline keeps the promise of JobLifecycle: a job begins once, ends *)
(* once and keeps its outcome, and its message is deleted only afterwards. *)
THEOREM ImplementsLifecycle == ASSUME Undisturbed PROVE Spec => JobLifecycle
<1>1. Init => Lifecycle!Init
  BY RefinementInit
<1>2. TypeOK /\ TypeOK' /\ LifecycleInv /\ [Next]_vars => [Lifecycle!Next]_(Lifecycle!vars)
  BY RefinementNext
<1> QED
  BY <1>1, <1>2, LifecycleInvHolds, Undisturbed, PTL DEF Spec, JobLifecycle, Lifecycle!Spec

(* A result, once stored, stays a result when the operator keeps out as    *)
(* well: what the duplicated delivery of a job breaks, nothing else does.  *)
THEOREM ResultStays == ASSUME Undisturbed PROVE Spec => ResultSurvives
<1>1. LifecycleInv => ~MarkFailed /\ ~Delete
  BY DEF LifecycleInv, QuietInv, MarkFailed, Delete
<1>2. NoExpiry
  BY Undisturbed DEF Undisturbed, NoExpiry
<1>3. /\ LifecycleInv
      /\ [\A j \in Jobs : records[j].status = "succeeded" =>
            records'[j].status = "succeeded" \/ MarkFailed \/ Delete]_vars
      => [\A j \in Jobs : records[j].status = "succeeded" => records'[j].status = "succeeded"]_vars
  BY <1>1
<1>4. Spec => [](TypeOK /\ LifecycleInv)
  BY Undisturbed, LifecycleInvHolds
<1>5. Spec => [][\A j \in Jobs : records[j].status = "succeeded" =>
                   records'[j].status = "succeeded" \/ MarkFailed \/ Delete]_vars
  BY <1>2, OnlyOperatorTakesResults
<1> QED BY <1>3, <1>4, <1>5, PTL DEF ResultSurvives

(* A job that failed stays failed: no redelivery of it runs again.         *)
THEOREM FailureStays == ASSUME Undisturbed PROVE Spec => MarkedStaysFailed
<1>1. ASSUME TypeOK, TypeOK', LifecycleInv, [Next]_vars, NEW j \in Jobs, records[j].status = "failed"
      PROVE  records'[j].status = "failed"
  <2>1. [Lifecycle!Next]_(Lifecycle!vars)
    BY <1>1, RefinementNext
  <2> DEFINE phase == [i \in Jobs |-> records[i].status]
             newPhase == [i \in Jobs |-> records'[i].status]
  <2>2. \/ newPhase = phase
        \/ \E i \in Jobs : \E to : /\ phase[i] # "failed" \/ to = "withdrawn"
                                  /\ newPhase = [phase EXCEPT ![i] = to]
    BY <2>1 DEF Lifecycle!Next, Lifecycle!vars, Lifecycle!Accept, Lifecycle!Begin, Lifecycle!Succeed,
                Lifecycle!Fail, Lifecycle!Withdraw, Lifecycle!Settle, Lifecycle!Move
  <2>3. newPhase[j] \in {"failed", "withdrawn"}
    BY <2>2, <1>1
  <2>4. newPhase[j] # "withdrawn"
    BY <1>1 DEF TypeOK, Record, Live, Terminal
  <2> QED BY <2>3, <2>4
<1>2. TypeOK /\ TypeOK' /\ LifecycleInv /\ [Next]_vars =>
        [\A j \in Jobs : records[j].status = "failed" => records'[j].status \in {"failed", "absent"}]_vars
  BY <1>1
<1>3. Spec => [](TypeOK /\ LifecycleInv)
  BY Undisturbed, LifecycleInvHolds
<1> QED BY <1>2, <1>3, PTL DEF Spec, MarkedStaysFailed
=============================================================================
