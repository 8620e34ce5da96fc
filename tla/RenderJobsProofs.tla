-------------------------- MODULE RenderJobsProofs --------------------------
(***************************************************************************)
(* Proofs about RenderJobs, for every set of jobs, keys and slots, every   *)
(* assignment of keys to requests and every budget the theorem names.      *)
(***************************************************************************)
EXTENDS RenderJobs, TLAPS, FiniteSetTheorems

(* The record operators stay inside Record. *)
LEMMA RecordOperators ==
  ASSUME NEW rec \in Record, NEW now \in 0..MaxClock, NEW name \in StageName
  PROVE  /\ NewRecord(now) \in Record
         /\ Absent \in Record
         /\ Started(rec, now) \in Record
         /\ Completed(rec, now) \in Record
         /\ StageOpened(rec, name) \in Record
         /\ StageClosed(rec, name) \in Record
         /\ Failed(rec, now) \in Record
         /\ MarkedFailed(rec, now) \in Record
<1> USE MaxClockAssumption
<1>1. Absent \in Record
  BY DEF Absent, Record
<1>2. NewRecord(now) \in Record
  BY <1>1 DEF NewRecord, Absent, Record, Live
<1>3. Started(rec, now) \in Record /\ Completed(rec, now) \in Record /\ MarkedFailed(rec, now) \in Record
  BY DEF Started, Completed, MarkedFailed, Record, Live, Terminal
<1>4. StageOpened(rec, name) \in Record
  BY DEF StageOpened, Record
<1>5. \A n : StageClosed(rec, n) \in Record
  BY DEF StageClosed, Record
<1>6. RunningStageFailed(rec) \in Record
  BY <1>5 DEF RunningStageFailed
<1>7. Failed(rec, now) \in Record
  BY <1>6 DEF Failed, Record, Terminal
<1> QED BY <1>1, <1>2, <1>3, <1>4, <1>5, <1>7

LEMMA StageNames ==
  StageName = {"ml_probe", "asset_bytes_loaded", "ml_submit", "ml_poll", "artifact_store"}
BY DEF StageName, Script

LEMMA SpendType ==
  ASSUME budget \in [Disturbance -> Nat], NEW d, Spend(d)
  PROVE  budget' \in [Disturbance -> Nat]
<1>1. \A e \in Disturbance : budget'[e] \in Nat
  BY DEF Spend
<1> QED
  BY <1>1 DEF Spend

LEMMA NextStages ==
  ASSUME NEW name \in StageName
  PROVE  NextStage(name) \subseteq StageName
BY StageNames DEF NextStage

-----------------------------------------------------------------------------
(* The steps that write through Update change the slot's attempt, the      *)
(* record and the index of its job, and the store failures left.           *)
LEMMA UpdateType ==
  ASSUME TypeOK, NEW s \in Slots, pc[s] # "free",
         NEW rec \in Record, NEW label \in PC \ {"free"},
         Update(s, rec, label), stage' \in [Slots -> StageName]
  PROVE  TypeOK'
<1> USE ConstantsAssumption, MaxClockAssumption
<1>1. job[s] \in Jobs
  BY DEF TypeOK
<1>2. OnError(s) \in PC \ {"free"} /\ OnError(s) \in {"raised", "except"}
  BY DEF OnError, PC
<1>3. /\ copy' \in [Slots -> Record]
      /\ records' \in [Jobs -> Record]
      /\ index' \in [Keys -> Jobs \cup {NoJob}]
      /\ due' \in [Slots -> {"none", "raised", "except"}]
      /\ \A t \in Slots : t # s => due'[t] = due[t]
  BY <1>1, <1>2 DEF TypeOK, Update, PutRecord, store
<1>4. /\ pc' \in [Slots -> PC]
      /\ \A t \in Slots : pc'[t] = "free" <=> pc[t] = "free"
  BY <1>2 DEF TypeOK, Update, Goto
<1>5. budget' \in [Disturbance -> Nat]
  BY DEF TypeOK, Update, Spend, Disturbance
<1> QED
  BY <1>3, <1>4, <1>5 DEF TypeOK, Update, queue, api

LEMMA TypeOKIndexed ==
  ASSUME TypeOK, NEW s \in Slots, UpdateIndex(s)
  PROVE  TypeOK'
<1>1. pc[s] # "free" /\ job[s] \in Jobs /\ due[s] \in PC \ {"free"}
  BY DEF TypeOK, UpdateIndex, PC
<1>2. index' \in [Keys -> Jobs \cup {NoJob}] /\ records' = records
  BY <1>1, ConstantsAssumption DEF TypeOK, UpdateIndex, PutIndex, store
<1>3. /\ pc' \in [Slots -> PC]
      /\ \A t \in Slots : pc'[t] = "free" <=> pc[t] = "free"
  BY <1>1 DEF TypeOK, UpdateIndex, Goto
<1>4. budget' \in [Disturbance -> Nat]
  BY SpendType DEF TypeOK, UpdateIndex
<1>5. due' \in [Slots -> {"none", "raised", "except"}] /\ \A t \in Slots : due[t] = "none" => due'[t] = "none"
  BY DEF TypeOK, UpdateIndex
<1> QED
  BY <1>2, <1>3, <1>4, <1>5 DEF TypeOK, UpdateIndex, queue, api

LEMMA TypeOKInit == Init => TypeOK
<1> USE ConstantsAssumption, MaxClockAssumption
<1>1. Absent \in Record
  BY DEF Absent, Record
<1>2. Script[1] \in StageName
  BY DEF StageName
<1> QED
  BY <1>1, <1>2 DEF Init, TypeOK, NoRequest, PC

LEMMA TypeOKAttempt ==
  ASSUME TypeOK, NEW s \in Slots, Attempt(s)
  PROVE  TypeOK'
<1> USE ConstantsAssumption, MaxClockAssumption
<1>0. copy[s] \in Record /\ stage[s] \in StageName /\ clock \in 0..MaxClock
  BY DEF TypeOK
<1>a. CASE Get(s)
  BY <1>a DEF TypeOK, Get, Goto, PC, store, queue, api
<1>b. CASE TerminalNoop(s)
  BY <1>b, <1>0, UpdateType DEF TypeOK, TerminalNoop, PC
<1>c. CASE Claim(s)
  BY <1>c, <1>0, UpdateType DEF TypeOK, Claim, PC
<1>d. CASE LoadAssetRef(s)
  <2>1. Started(copy[s], clock) \in Record
    BY <1>0, StageNames, RecordOperators
  <2> QED
    BY <1>d, <2>1 DEF TypeOK, LoadAssetRef, Goto, PC, store, queue, api
<1>e. CASE AssetMissing(s)
  BY <1>e, SpendType DEF TypeOK, AssetMissing, Goto, PC, store, queue, api
<1>f. CASE ReportMissingAsset(s)
  BY <1>f, <1>0, UpdateType DEF TypeOK, ReportMissingAsset, PC
<1>g. CASE ReadRaises(s)
  BY <1>g, SpendType DEF TypeOK, ReadRaises, Goto, OnError, PC, store, queue, api
<1>h. CASE Begin(s)
  <2>1. stage' \in [Slots -> StageName]
    BY <1>h, StageNames DEF TypeOK, Begin
  <2> QED
    BY <2>1, <1>h, <1>0, UpdateType DEF Begin, PC
<1>i. CASE EnterStage(s)
  <2>1. StageOpened(copy[s], stage[s]) \in Record
    BY <1>0, RecordOperators
  <2> QED
    BY <2>1, <1>i, UpdateType DEF TypeOK, EnterStage, PC
<1>j. CASE CallStage(s)
  <2> DEFINE closed == StageClosed(copy[s], stage[s])
  <2>1. closed \in Record
    BY <1>0, RecordOperators
  <2>2. Completed(closed, clock) \in Record
    BY <2>1, <1>0, RecordOperators
  <2>3. copy' \in [Slots -> Record]
    BY <1>j, <2>1, <2>2 DEF TypeOK, CallStage
  <2>4. stage' \in [Slots -> StageName]
    BY <1>j, <1>0, NextStages DEF TypeOK, CallStage
  <2>5. pc' \in [Slots -> PC] /\ \A t \in Slots : pc'[t] = "free" <=> pc[t] = "free"
    BY <1>j DEF TypeOK, CallStage, Goto, PC
  <2> QED
    BY <1>j, <2>3, <2>4, <2>5 DEF TypeOK, CallStage, store, queue, api
<1>k. CASE CallRaises(s)
  BY <1>k, SpendType DEF TypeOK, CallRaises, Goto, OnError, PC, store, queue, api
<1>l. CASE LeaveStage(s)
  <2>1. stage' \in [Slots -> StageName]
    BY <1>l, <1>0, NextStages DEF TypeOK, LeaveStage
  <2> QED
    BY <2>1, <1>l, <1>0, UpdateType DEF LeaveStage, PC
<1>m. CASE Complete(s)
  BY <1>m, <1>0, UpdateType DEF TypeOK, Complete, PC
<1>n. CASE EmitFinished(s)
  BY <1>n, SpendType DEF TypeOK, EmitFinished, Goto, OnError, PC, store, queue, api
<1>o. CASE Except(s)
  <2>1. Failed(copy[s], clock) \in Record
    BY <1>0, RecordOperators
  <2> QED
    BY <2>1, <1>o, UpdateType DEF TypeOK, Except, PC
<1>p. CASE UpdateIndex(s)
  BY <1>p, TypeOKIndexed
<1> QED
  BY <1>p, <1>a, <1>b, <1>c, <1>d, <1>e, <1>f, <1>g, <1>h, <1>i, <1>j, <1>k, <1>l,
     <1>m, <1>n, <1>o DEF Attempt

LEMMA TypeOKNext == TypeOK /\ [Next]_vars => TypeOK'
<1> SUFFICES ASSUME TypeOK, [Next]_vars PROVE TypeOK'
  OBVIOUS
<1> USE ConstantsAssumption, MaxClockAssumption
<1>0. /\ \A rec \in Record : MarkedFailed(rec, clock) \in Record
      /\ NewRecord(clock) \in Record /\ Absent \in Record
  <2>1. clock \in 0..MaxClock /\ Script[1] \in StageName
    BY DEF TypeOK, StageName
  <2>2. Absent \in Record
    BY DEF Absent, Record
  <2> QED
    BY <2>1, <2>2, RecordOperators
<1>a. CASE \E r \in Jobs : \/ LookUp(r) \/ Hit(r) \/ Miss(r) \/ Create(r) \/ CreateIndexed(r)
                           \/ Publish(r) \/ CreateFails(r)
  <2>1. PICK r \in Jobs : \/ LookUp(r) \/ Hit(r) \/ Miss(r) \/ Create(r) \/ CreateIndexed(r)
                         \/ Publish(r) \/ CreateFails(r)
    BY <1>a
  <2>2. CASE LookUp(r) \/ Hit(r) \/ Miss(r)
    BY <2>2 DEF TypeOK, LookUp, Hit, Miss, store, queue, attempts
  <2>3. CASE CreateIndexed(r)
    BY <2>3 DEF TypeOK, CreateIndexed, PutIndex, queue, attempts
  <2>4. CASE Create(r)
    BY <2>4, <1>0 DEF TypeOK, Create, PutRecord, queue, attempts
  <2>5. CASE Publish(r)
    BY <2>5 DEF TypeOK, Publish, store, attempts
  <2>6. CASE CreateFails(r)
    BY <2>6, <1>0, SpendType DEF TypeOK, CreateFails, store, attempts
  <2> QED
    BY <2>1, <2>2, <2>3, <2>4, <2>5, <2>6
<1>b. CASE \E j \in Jobs : OperatorReads(j) \/ VisibilityExpires(j)
  <2>1. PICK j \in Jobs : OperatorReads(j) \/ VisibilityExpires(j)
    BY <1>b
  <2>2. CASE OperatorReads(j)
    BY <2>2, SpendType DEF TypeOK, OperatorReads, store, queue, api, attempts
  <2>3. CASE VisibilityExpires(j)
    BY <2>3, SpendType DEF TypeOK, VisibilityExpires, store, api, attempts
  <2> QED
    BY <2>1, <2>2, <2>3
<1>c. CASE MarkFailed
  <2>1. operator.job \in Jobs /\ operator.copy \in Record
    BY <1>c DEF TypeOK, MarkFailed
  <2>2. MarkedFailed(operator.copy, clock) \in Record
    BY <2>1, <1>0
  <2> QED
    BY <1>c, <2>1, <2>2, <1>0 DEF TypeOK, MarkFailed, PutRecord, Continue, queue, api, attempts
<1>d. CASE Delete
  <2>1. operator.job \in Jobs
    BY <1>d DEF TypeOK, Delete
  <2> QED
    BY <1>d, <2>1, <1>0 DEF TypeOK, Delete, Remove, PutRecord, Continue, queue, api, attempts
<1>i. CASE MarkIndexed \/ DeleteLooksUp \/ Unindex \/ OperatorFails
  <2>1. operator.job \in Jobs
    BY <1>i DEF TypeOK, MarkIndexed, DeleteLooksUp, Unindex, OperatorFails
  <2>2. CASE MarkIndexed \/ Unindex
    BY <1>0, <2>1, <2>2 DEF TypeOK, MarkIndexed, Unindex, PutIndex, NoRequest, queue, api, attempts
  <2>3. CASE DeleteLooksUp
    <3>1. operator' = NoRequest \/ Continue("recheck") \/ Continue("unindex")
      BY <2>3 DEF DeleteLooksUp
    <3>2. operator' = NoRequest \/ operator' = [act |-> "recheck", job |-> operator.job, copy |-> Absent]
                              \/ operator' = [act |-> "unindex", job |-> operator.job, copy |-> Absent]
      BY <3>1 DEF TypeOK, Continue
    <3> QED BY <1>0, <2>1, <2>3, <3>2 DEF TypeOK, DeleteLooksUp, NoRequest, store, queue, api, attempts
  <2>4. CASE OperatorFails
    BY <1>0, <2>4, SpendType DEF TypeOK, OperatorFails, NoRequest, store, queue, api, attempts
  <2> QED BY <1>i, <2>2, <2>3, <2>4
<1>e. CASE Crash
  <2>1. Script[1] \in StageName
    BY DEF StageName
  <2> QED
    BY <1>e, <2>1, <1>0, SpendType DEF TypeOK, Crash, PC, store, api
<1>f. CASE Tick
  BY <1>f DEF TypeOK, Tick, store, queue, api, attempts
<1>g. CASE \E s \in Slots : Receive(s) \/ Attempt(s) \/ Ack(s) \/ Nack(s)
  <2>1. PICK s \in Slots : Receive(s) \/ Attempt(s) \/ Ack(s) \/ Nack(s)
    BY <1>g
  <2>2. Script[1] \in StageName
    BY DEF StageName
  <2>3. CASE Receive(s)
    BY <2>3 DEF TypeOK, Receive, PC, store, api
  <2>4. CASE Attempt(s)
    BY <2>4, TypeOKAttempt
  <2>5. CASE Ack(s)
    BY <2>5, <2>2, <1>0 DEF TypeOK, Ack, Settle, Handled, Released, PC, store, queue, api
  <2>6. CASE Nack(s)
    BY <2>6, <2>2, <1>0 DEF TypeOK, Nack, Settle, FailedHandling, Released, PC, store, queue, api
  <2> QED
    BY <2>1, <2>3, <2>4, <2>5, <2>6
<1>h. CASE UNCHANGED vars
  BY <1>h DEF TypeOK, vars
<1> QED
  BY <1>a, <1>b, <1>c, <1>d, <1>e, <1>f, <1>g, <1>h, <1>i DEF Next

(* Every reachable state is well formed: in particular a slot is free      *)
(* exactly when it holds no delivery.                                      *)
THEOREM TypeCorrect == Spec => []TypeOK
BY TypeOKInit, TypeOKNext, PTL DEF Spec

-----------------------------------------------------------------------------
(* OutcomeRecorded, whatever happens: it survives even overlapping         *)
(* attempts, because each attempt's copy is coherent by itself.            *)

CoherentInv == OutcomeRecorded /\ \A s \in Slots : Coherent(copy[s])

LEMMA CoherentOperators ==
  ASSUME NEW rec \in Record, Coherent(rec), NEW now \in 0..MaxClock, NEW name
  PROVE  /\ Coherent(NewRecord(now))
         /\ Coherent(Absent)
         /\ CanStart(rec) => Coherent(Started(rec, now))
         /\ Coherent(Completed(rec, now))
         /\ Coherent(StageOpened(rec, name))
         /\ Coherent(StageClosed(rec, name))
         /\ Coherent(Failed(rec, now))
         /\ Coherent(MarkedFailed(rec, now))
<1>1. Coherent(Absent) /\ Coherent(NewRecord(now))
  BY DEF Coherent, Absent, NewRecord, Live
<1>2. CanStart(rec) => Coherent(Started(rec, now))
  BY DEF Coherent, CanStart, Started, Record, Live
<1>3. Coherent(Completed(rec, now)) /\ Coherent(MarkedFailed(rec, now))
  BY DEF Coherent, Completed, MarkedFailed, Record, Live
<1>4. \A n : Coherent(StageOpened(rec, n)) /\ Coherent(StageClosed(rec, n))
  BY DEF Coherent, StageOpened, StageClosed, Record, Live
<1>5. Coherent(RunningStageFailed(rec)) /\ RunningStageFailed(rec) \in Record
  <2>1. \A n : StageClosed(rec, n) \in Record
    BY DEF StageClosed, Record
  <2> QED
    BY <1>4, <2>1 DEF RunningStageFailed
<1>6. RunningStageFailed(rec).status = rec.status
  BY DEF RunningStageFailed, StageClosed, Record
<1>7. Coherent(Failed(rec, now))
  BY <1>5, <1>6 DEF Coherent, Failed, IsTerminal, Record, Live, Terminal
<1> QED
  BY <1>1, <1>2, <1>3, <1>4, <1>7

LEMMA CoherentUpdate ==
  ASSUME TypeOK, CoherentInv, NEW s \in Slots, NEW rec, Coherent(rec), NEW label, Update(s, rec, label)
  PROVE  CoherentInv'
BY DEF TypeOK, CoherentInv, OutcomeRecorded, Update, PutRecord, store

LEMMA CoherentAttempt ==
  ASSUME TypeOK, CoherentInv, NEW s \in Slots, Attempt(s)
  PROVE  CoherentInv'
<1>0. /\ copy[s] \in Record /\ clock \in 0..MaxClock
      /\ stage[s] \in StageName /\ Coherent(copy[s])
  BY DEF TypeOK, CoherentInv
<1>a. CASE Get(s)
  <2>1. job[s] \in Jobs
    BY <1>a DEF TypeOK, Get
  <2> QED
    BY <1>a, <2>1 DEF Get, CoherentInv, OutcomeRecorded, TypeOK, store
<1>b. CASE TerminalNoop(s) \/ Claim(s) \/ ReportMissingAsset(s) \/ Begin(s) \/ LeaveStage(s) \/ Complete(s)
  BY <1>b, <1>0, CoherentUpdate DEF TerminalNoop, Claim, ReportMissingAsset, Begin, LeaveStage, Complete
<1>c. CASE LoadAssetRef(s)
  <2>1. CanStart(copy[s]) => Coherent(Started(copy[s], clock))
    BY <1>0, CoherentOperators
  <2> QED
    BY <1>c, <2>1 DEF TypeOK, LoadAssetRef, CoherentInv, OutcomeRecorded, store
<1>d. CASE AssetMissing(s) \/ ReadRaises(s) \/ CallRaises(s) \/ EmitFinished(s)
  BY <1>d DEF AssetMissing, ReadRaises, CallRaises, EmitFinished, CoherentInv, OutcomeRecorded, store
<1>e. CASE EnterStage(s)
  BY <1>e, <1>0, CoherentOperators, CoherentUpdate DEF EnterStage
<1>f. CASE CallStage(s)
  <2> DEFINE closed == StageClosed(copy[s], stage[s])
  <2>1. closed \in Record /\ Coherent(closed)
    BY <1>0, RecordOperators, CoherentOperators
  <2>2. Coherent(Completed(closed, clock))
    BY <2>1, <1>0, CoherentOperators
  <2> QED
    BY <1>f, <2>1, <2>2 DEF TypeOK, CallStage, CoherentInv, OutcomeRecorded, store
<1>g. CASE Except(s)
  BY <1>g, <1>0, CoherentOperators, CoherentUpdate DEF Except
<1>h. CASE UpdateIndex(s)
  BY <1>h DEF UpdateIndex, PutIndex, CoherentInv, OutcomeRecorded, store
<1> QED
  BY <1>h, <1>a, <1>b, <1>c, <1>d, <1>e, <1>f, <1>g DEF Attempt

LEMMA CoherentNext == TypeOK /\ CoherentInv /\ [Next]_vars => CoherentInv'
<1> SUFFICES ASSUME TypeOK, CoherentInv, [Next]_vars PROVE CoherentInv'
  OBVIOUS
<1>0. /\ Coherent(NewRecord(clock)) /\ Coherent(Absent)
      /\ \A rec \in Record : Coherent(MarkedFailed(rec, clock))
  BY DEF Coherent, NewRecord, Absent, MarkedFailed, Record, Live
<1>a. CASE \E r \in Jobs : LookUp(r) \/ Hit(r) \/ Miss(r) \/ CreateIndexed(r) \/ Publish(r) \/ CreateFails(r)
  BY <1>a DEF LookUp, Hit, Miss, CreateIndexed, PutIndex, Publish, CreateFails, CoherentInv, OutcomeRecorded,
              store, attempts
<1>b. CASE \E r \in Jobs : Create(r)
  BY <1>b, <1>0 DEF TypeOK, Create, PutRecord, CoherentInv, OutcomeRecorded, attempts
<1>c. CASE \E j \in Jobs : OperatorReads(j) \/ VisibilityExpires(j)
  BY <1>c DEF OperatorReads, VisibilityExpires, CoherentInv, OutcomeRecorded, store, attempts
<1>d. CASE MarkFailed
  <2>1. operator.copy \in Record
    BY DEF TypeOK
  <2> QED
    BY <1>d, <2>1, <1>0 DEF TypeOK, MarkFailed, PutRecord, CoherentInv, OutcomeRecorded, attempts
<1>e. CASE Delete
  BY <1>e, <1>0 DEF TypeOK, Delete, Remove, PutRecord, CoherentInv, OutcomeRecorded, attempts
<1>j. CASE MarkIndexed \/ DeleteLooksUp \/ Unindex \/ OperatorFails
  BY <1>j DEF MarkIndexed, DeleteLooksUp, Unindex, OperatorFails, PutIndex, CoherentInv, OutcomeRecorded,
              store, attempts
<1>f. CASE Crash \/ Tick
  BY <1>f, <1>0 DEF Crash, Tick, CoherentInv, OutcomeRecorded, store, attempts
<1>g. CASE \E s \in Slots : Attempt(s)
  BY <1>g, CoherentAttempt
<1>h. CASE \E s \in Slots : Receive(s) \/ Ack(s) \/ Nack(s)
  BY <1>h, <1>0 DEF TypeOK, Receive, Ack, Nack, Released, CoherentInv, OutcomeRecorded, store
<1>i. CASE UNCHANGED vars
  BY <1>i DEF vars, CoherentInv, OutcomeRecorded
<1> QED
  BY <1>a, <1>b, <1>c, <1>d, <1>e, <1>f, <1>g, <1>h, <1>i, <1>j DEF Next

(* Whatever disturbances happen, duplicate deliveries and operator edits   *)
(* included, every stored record is coherent: a succeeded job has its      *)
(* result, a failed one its error, a live one neither.                     *)
THEOREM OutcomeIsRecorded == Spec => []OutcomeRecorded
<1>1. Init => CoherentInv
  BY DEF Init, CoherentInv, OutcomeRecorded, Coherent, Absent, Live
<1>2. CoherentInv => OutcomeRecorded
  BY DEF CoherentInv
<1> QED
  BY <1>1, <1>2, CoherentNext, TypeCorrect, PTL DEF Spec

-----------------------------------------------------------------------------
(* The trace: an attempt closes the stage it is in before it opens another *)
(* one, and takes up no record that has an open stage already.             *)

(* An operator may mark the job of a running attempt as failed. *)
Edited == Budget["operator"] > 0

Traced(rec) ==
  /\ \A m, n \in rec.open : m = n
  /\ rec.status # "running" /\ (rec.status = "failed" => ~Edited) => rec.open = {}

AttemptTraced(s) ==
  /\ Traced(copy[s])
  /\ pc[s] \in {"start", "enter", "call", "leave"} => copy[s].status = "running"
  /\ pc[s] \in {"start", "enter", "leave", "complete"} => copy[s].open = {}
  /\ pc[s] = "call" => copy[s].open \subseteq {stage[s]}

OperatorTraced ==
  /\ Traced(operator.copy)
  /\ ~Edited => budget["operator"] = 0 /\ operator.act = "none"

TraceInv ==
  /\ \A j \in Jobs : Traced(records[j])
  /\ \A s \in Slots : AttemptTraced(s)
  /\ OperatorTraced

(* _fail_running_stage finds the one open stage there may be. *)
LEMMA FailingClosesTheTrace ==
  ASSUME NEW rec \in Record, Traced(rec), NEW now \in 0..MaxClock
  PROVE  Failed(rec, now).open = {} /\ Traced(Failed(rec, now))
<1>1. RunningStageFailed(rec).open = {}
  <2>1. CASE rec.open = {}
    BY <2>1 DEF RunningStageFailed
  <2>2. CASE rec.open # {}
    <3>1. PICK n \in StageName : rec.open = {n}
      BY <2>2 DEF Traced, Record
    <3>2. PICK i \in 1..5 : Script[i] = n /\ \A k \in 1..5 : k # i => Script[k] # n
      BY <3>1 DEF StageName, Script
    <3>3. LastOpen(rec.open) = n
      <4> DEFINE P(k) == Script[k] \in rec.open /\ \A l \in (k + 1)..5 : Script[l] \notin rec.open
      <4>1. P(i)
        BY <3>1, <3>2
      <4>2. (CHOOSE k \in 1..5 : P(k)) \in 1..5 /\ P(CHOOSE k \in 1..5 : P(k))
        BY <4>1
      <4> QED BY <3>1, <4>2 DEF LastOpen
    <3> QED BY <3>1, <3>3, <2>2 DEF RunningStageFailed, StageClosed, Record
  <2> QED BY <2>1, <2>2
<1>2. Failed(rec, now).open = RunningStageFailed(rec).open
  BY DEF Failed, RunningStageFailed, StageClosed, Record
<1> QED BY <1>1, <1>2 DEF Traced

LEMMA TracedOperators ==
  ASSUME NEW rec \in Record, Traced(rec), NEW now \in 0..MaxClock, NEW name \in StageName
  PROVE  /\ Traced(Absent) /\ Traced(NewRecord(now))
         /\ CanStart(rec) => /\ Traced(Started(rec, now)) /\ Started(rec, now).open = {}
                             /\ Started(rec, now).status = "running"
         /\ rec.open = {} => Traced(Completed(rec, now)) /\ Completed(rec, now).open = {}
         /\ rec.open = {} /\ rec.status = "running" =>
               /\ Traced(StageOpened(rec, name)) /\ StageOpened(rec, name).open = {name}
               /\ StageOpened(rec, name).status = "running"
         /\ rec.open \subseteq {name} => /\ Traced(StageClosed(rec, name)) /\ StageClosed(rec, name).open = {}
                                         /\ StageClosed(rec, name).status = rec.status
         /\ Edited => Traced(MarkedFailed(rec, now))
<1>1. Traced(Absent) /\ Traced(NewRecord(now))
  BY DEF Traced, Absent, NewRecord
<1>2. CanStart(rec) => /\ Traced(Started(rec, now)) /\ Started(rec, now).open = {}
                       /\ Started(rec, now).status = "running"
  BY DEF Traced, CanStart, Started, Record
<1>3. rec.open = {} => Traced(Completed(rec, now)) /\ Completed(rec, now).open = {}
  BY DEF Traced, Completed, Record
<1>4. rec.open = {} /\ rec.status = "running" =>
        /\ Traced(StageOpened(rec, name)) /\ StageOpened(rec, name).open = {name}
        /\ StageOpened(rec, name).status = "running"
  BY DEF Traced, StageOpened, Record
<1>5. rec.open \subseteq {name} => /\ Traced(StageClosed(rec, name)) /\ StageClosed(rec, name).open = {}
                                  /\ StageClosed(rec, name).status = rec.status
  BY DEF Traced, StageClosed, Record
<1>6. Edited => Traced(MarkedFailed(rec, now))
  BY DEF Traced, MarkedFailed, Record
<1> QED BY <1>1, <1>2, <1>3, <1>4, <1>5, <1>6

(* A write of an attempt, whether or not it raises. *)
LEMMA TracedUpdate ==
  ASSUME TypeOK, TraceInv, NEW s \in Slots, job[s] \in Jobs,
         NEW rec, Traced(rec), NEW label, Update(s, rec, label),
         AttemptTraced(s)', \A t \in Slots : t # s => stage'[t] = stage[t]
  PROVE  TraceInv'
<1>1. \A j \in Jobs : Traced(records'[j])
  BY DEF TypeOK, TraceInv, Update, PutRecord, store
<1>2. \A t \in Slots : t # s => pc'[t] = pc[t] /\ copy'[t] = copy[t]
  BY DEF TypeOK, Update, Goto
<1>3. \A t \in Slots : AttemptTraced(t)'
  BY <1>2 DEF TraceInv, AttemptTraced
<1>4. OperatorTraced'
  BY DEF TypeOK, TraceInv, OperatorTraced, Update, Spend, Disturbance
<1> QED BY <1>1, <1>3, <1>4 DEF TraceInv

(* A step of an attempt that writes nothing. *)
LEMMA TracedLocal ==
  ASSUME TypeOK, TraceInv, NEW s \in Slots, UNCHANGED <<records, operator>>,
         budget' = budget \/ \E d \in Disturbance \ {"operator"} : Spend(d),
         AttemptTraced(s)',
         \A t \in Slots : t # s => pc'[t] = pc[t] /\ copy'[t] = copy[t] /\ stage'[t] = stage[t]
  PROVE  TraceInv'
<1>1. OperatorTraced'
  BY DEF TypeOK, TraceInv, OperatorTraced, Spend, Disturbance
<1>2. \A t \in Slots : AttemptTraced(t)'
  BY DEF TraceInv, AttemptTraced
<1> QED BY <1>1, <1>2 DEF TraceInv

LEMMA TracedAttempt ==
  ASSUME TypeOK, TraceInv, NEW s \in Slots, Attempt(s)
  PROVE  TraceInv'
<1>0. /\ copy[s] \in Record /\ clock \in 0..MaxClock /\ stage[s] \in StageName
      /\ Traced(copy[s]) /\ AttemptTraced(s) /\ pc[s] # "free" /\ job[s] \in Jobs
  <2>1. pc[s] # "free"
    BY DEF Attempt, Get, TerminalNoop, Claim, LoadAssetRef, AssetMissing, ReportMissingAsset, ReadRaises,
           Begin, EnterStage, CallStage, CallRaises, LeaveStage, Complete, EmitFinished, Except,
           UpdateIndex, TypeOK
  <2> QED BY <2>1 DEF TypeOK, TraceInv, AttemptTraced
<1>a. CASE Get(s)
  <2>1. copy'[s] = records[job[s]] /\ pc'[s] \in {"raised", "noop", "claim"} /\ Traced(copy'[s])
    BY <1>a, <1>0 DEF Get, Goto, TypeOK, TraceInv
  <2>2. AttemptTraced(s)'
    BY <2>1 DEF AttemptTraced
  <2> QED BY <1>a, <2>2, TracedLocal DEF Get, Goto, TypeOK, store
<1>b. CASE TerminalNoop(s) \/ Claim(s) \/ ReportMissingAsset(s) \/ Complete(s)
  <2>1. PICK label \in {"returned", "asset", "raised", "emit"} : Update(s, copy[s], label) /\ UNCHANGED stage
    BY <1>b DEF TerminalNoop, Claim, ReportMissingAsset, Complete
  <2>2. copy'[s] = copy[s] /\ pc'[s] \in {"returned", "asset", "raised", "emit", "except"}
    BY <2>1 DEF Update, Goto, OnError, TypeOK
  <2>3. AttemptTraced(s)'
    BY <1>0, <2>2 DEF AttemptTraced
  <2> QED BY <1>0, <2>1, <2>3, TracedUpdate
<1>c. CASE LoadAssetRef(s)
  <2>1. \/ pc'[s] = "start" /\ copy'[s] = Started(copy[s], clock) /\ CanStart(copy[s])
        \/ pc'[s] = "raised" /\ copy'[s] = copy[s]
    BY <1>c DEF LoadAssetRef, Goto, TypeOK
  <2>2. AttemptTraced(s)'
    BY <1>0, <2>1, TracedOperators DEF AttemptTraced
  <2> QED BY <1>c, <2>2, TracedLocal DEF LoadAssetRef, Goto, TypeOK, store
<1>d. CASE AssetMissing(s) \/ ReadRaises(s) \/ CallRaises(s) \/ EmitFinished(s)
  <2>1. /\ UNCHANGED <<records, operator, copy, stage>>
        /\ \E label \in {"noasset", "raised", "except", "returned"} : Goto(s, label)
        /\ budget' = budget \/ \E d \in Disturbance \ {"operator"} : Spend(d)
    BY <1>d DEF AssetMissing, ReadRaises, CallRaises, EmitFinished, OnError, Disturbance, store
  <2>2. AttemptTraced(s)'
    BY <1>0, <2>1 DEF AttemptTraced, Goto, TypeOK
  <2> QED BY <2>1, <2>2, TracedLocal DEF Goto, TypeOK
<1>e. CASE Begin(s)
  <2>1. Update(s, copy[s], "enter") /\ stage' = [stage EXCEPT ![s] = "ml_probe"]
    BY <1>e DEF Begin
  <2>2. copy'[s] = copy[s] /\ pc'[s] \in {"enter", "raised"} /\ pc[s] = "start"
    BY <1>e, <2>1 DEF Begin, Update, Goto, OnError, TypeOK
  <2>3. AttemptTraced(s)'
    BY <1>0, <2>2 DEF AttemptTraced
  <2> QED BY <1>0, <2>1, <2>3, TracedUpdate DEF TypeOK
<1>f. CASE EnterStage(s)
  <2> DEFINE rec == StageOpened(copy[s], stage[s])
  <2>1. Update(s, rec, "call") /\ UNCHANGED stage /\ pc[s] = "enter"
    BY <1>f DEF EnterStage
  <2>2. Traced(rec) /\ rec.open = {stage[s]} /\ rec.status = "running"
    BY <1>0, <2>1, TracedOperators DEF AttemptTraced
  <2> HIDE DEF rec
  <2>3. copy'[s] = rec /\ pc'[s] \in {"call", "except"}
    BY <2>1 DEF Update, Goto, OnError, TypeOK
  <2>4. AttemptTraced(s)'
    BY <2>1, <2>2, <2>3 DEF AttemptTraced
  <2> QED BY <1>0, <2>1, <2>2, <2>4, TracedUpdate
<1>g. CASE CallStage(s)
  <2> DEFINE closed == StageClosed(copy[s], stage[s])
  <2>1. /\ closed \in Record /\ Traced(closed) /\ closed.open = {} /\ closed.status = "running"
        /\ pc[s] = "call"
    BY <1>0, <1>g, TracedOperators, RecordOperators DEF AttemptTraced, CallStage
  <2>2. Traced(Completed(closed, clock)) /\ Completed(closed, clock).open = {}
    BY <1>0, <2>1, TracedOperators
  <2>3. \/ pc'[s] = "complete" /\ copy'[s] = Completed(closed, clock)
        \/ pc'[s] \in {"leave", "enter"} /\ copy'[s] = closed
    BY <1>g DEF CallStage, Goto, TypeOK
  <2>4. AttemptTraced(s)'
    BY <2>1, <2>2, <2>3 DEF AttemptTraced
  <2>5. \A t \in Slots : t # s => pc'[t] = pc[t] /\ copy'[t] = copy[t] /\ stage'[t] = stage[t]
    BY <1>g DEF CallStage, Goto, TypeOK
  <2> QED BY <1>g, <2>4, <2>5, TracedLocal DEF CallStage, store
<1>h. CASE LeaveStage(s)
  <2>1. Update(s, copy[s], "enter") /\ pc[s] = "leave" /\ \A t \in Slots : t # s => stage'[t] = stage[t]
    BY <1>h DEF LeaveStage, TypeOK
  <2>2. copy'[s] = copy[s] /\ pc'[s] \in {"enter", "except"}
    BY <2>1 DEF Update, Goto, OnError, TypeOK
  <2>3. AttemptTraced(s)'
    BY <1>0, <2>1, <2>2 DEF AttemptTraced
  <2> QED BY <1>0, <2>1, <2>3, TracedUpdate
<1>i. CASE Except(s)
  <2>1. Update(s, Failed(copy[s], clock), "raised") /\ UNCHANGED stage
    BY <1>i DEF Except
  <2>2. copy'[s] = Failed(copy[s], clock) /\ pc'[s] = "raised" /\ Traced(Failed(copy[s], clock))
    BY <1>0, <1>i, <2>1, FailingClosesTheTrace DEF Except, Update, Goto, OnError, TypeOK
  <2>3. AttemptTraced(s)'
    BY <2>2 DEF AttemptTraced
  <2> QED BY <1>0, <2>1, <2>2, <2>3, TracedUpdate
<1>j. CASE UpdateIndex(s)
  <2>1. /\ UNCHANGED <<records, operator, copy, stage>>
        /\ pc' = pc \/ \E label \in {"raised", "except"} : Goto(s, label)
        /\ budget' = budget \/ \E d \in Disturbance \ {"operator"} : Spend(d)
    BY <1>j DEF UpdateIndex, PutIndex, TypeOK, Disturbance, store
  <2>2. AttemptTraced(s)'
    BY <1>0, <2>1 DEF AttemptTraced, Goto, TypeOK
  <2> QED BY <2>1, <2>2, TracedLocal DEF Goto, TypeOK
<1> QED BY <1>j, <1>a, <1>b, <1>c, <1>d, <1>e, <1>f, <1>g, <1>h, <1>i DEF Attempt

LEMMA TracedNext == TypeOK /\ TraceInv /\ [Next]_vars => TraceInv'
<1> SUFFICES ASSUME TypeOK, TraceInv, [Next]_vars PROVE TraceInv'
  OBVIOUS
<1>0. /\ Traced(NewRecord(clock)) /\ Traced(Absent)
      /\ Edited => \A rec \in Record : Traced(rec) => Traced(MarkedFailed(rec, clock))
  BY DEF Traced, NewRecord, Absent, MarkedFailed, Record
<1> USE DEF TraceInv, OperatorTraced
<1>a. CASE \E r \in Jobs : LookUp(r) \/ Hit(r) \/ Miss(r) \/ CreateIndexed(r) \/ Publish(r)
  BY <1>a DEF LookUp, Hit, Miss, CreateIndexed, PutIndex, Publish, AttemptTraced, store, attempts
<1>b. CASE \E r \in Jobs : Create(r) \/ CreateFails(r)
  <2>1. \A j \in Jobs : Traced(records'[j])
    BY <1>b, <1>0 DEF TypeOK, Create, CreateFails, PutRecord, store
  <2>2. budget' = budget \/ Spend("api")
    BY <1>b DEF Create, CreateFails
  <2>3. budget["operator"] = 0 => budget'["operator"] = 0
    BY <2>2 DEF TypeOK, Spend, Disturbance
  <2> QED BY <1>b, <2>1, <2>3 DEF Create, CreateFails, AttemptTraced, attempts
<1>c. CASE \E j \in Jobs : OperatorReads(j)
  BY <1>c DEF TypeOK, OperatorReads, Spend, Disturbance, AttemptTraced, store, attempts
<1>d. CASE \E j \in Jobs : VisibilityExpires(j)
  <2>1. budget["operator"] = 0 => budget'["operator"] = 0
    BY <1>d DEF TypeOK, VisibilityExpires, Spend, Disturbance
  <2> QED BY <1>d, <2>1 DEF VisibilityExpires, AttemptTraced, store, attempts
<1>e. CASE MarkFailed
  <2>1. Traced(MarkedFailed(operator.copy, clock))
    BY <1>e, <1>0 DEF TypeOK, MarkFailed
  <2>2. Traced(operator'.copy) /\ operator'.act # "none" /\ operator.act # "none" /\ UNCHANGED budget
    BY <1>e, <1>0 DEF TypeOK, MarkFailed, Continue
  <2>3. \A j \in Jobs : Traced(records'[j])
    BY <1>e, <2>1 DEF TypeOK, MarkFailed, PutRecord
  <2> QED BY <1>e, <2>2, <2>3 DEF MarkFailed, AttemptTraced, attempts
<1>f. CASE Delete
  <2>1. Traced(operator'.copy) /\ operator'.act # "none" /\ operator.act # "none" /\ UNCHANGED budget
    BY <1>f, <1>0 DEF TypeOK, Delete, Continue
  <2>2. \A j \in Jobs : Traced(records'[j])
    BY <1>f, <1>0 DEF TypeOK, Delete, Remove, PutRecord
  <2> QED BY <1>f, <2>1, <2>2 DEF Delete, AttemptTraced, attempts
<1>l. CASE MarkIndexed \/ DeleteLooksUp \/ Unindex \/ OperatorFails
  <2>1. Traced(operator'.copy) /\ operator.act # "none"
    <3>1. operator.act # "none" /\ (operator' = NoRequest \/ Continue("recheck") \/ Continue("unindex"))
      <4>1. CASE DeleteLooksUp
        BY <4>1 DEF DeleteLooksUp
      <4>2. CASE MarkIndexed \/ Unindex \/ OperatorFails
        BY <4>2 DEF MarkIndexed, Unindex, OperatorFails
      <4> QED BY <1>l, <4>1, <4>2
    <3>2. CASE operator' = NoRequest
      BY <1>0, <3>1, <3>2 DEF NoRequest
    <3>3. CASE Continue("recheck") \/ Continue("unindex")
      <4>1. \/ operator' = [act |-> "recheck", job |-> operator.job, copy |-> Absent]
            \/ operator' = [act |-> "unindex", job |-> operator.job, copy |-> Absent]
        BY <3>3 DEF TypeOK, Continue
      <4> QED BY <1>0, <3>1, <4>1
    <3> QED BY <3>1, <3>2, <3>3
  <2>2. UNCHANGED <<records, attempts>>
    BY <1>l DEF MarkIndexed, DeleteLooksUp, Unindex, OperatorFails, PutIndex, store
  <2> QED BY <2>1, <2>2 DEF AttemptTraced, attempts
<1>g. CASE Crash
  <2>1. budget["operator"] = 0 => budget'["operator"] = 0
    BY <1>g DEF TypeOK, Crash, Spend, Disturbance
  <2> QED BY <1>g, <1>0, <2>1 DEF Crash, AttemptTraced, store
<1>h. CASE Tick
  BY <1>h DEF Tick, AttemptTraced, store, attempts
<1>i. CASE \E s \in Slots : Attempt(s)
  BY <1>i, TracedAttempt
<1>j. CASE \E s \in Slots : Receive(s) \/ Ack(s) \/ Nack(s)
  BY <1>j, <1>0 DEF TypeOK, Receive, Ack, Nack, Released, AttemptTraced, store
<1>k. CASE UNCHANGED vars
  BY <1>k DEF vars, AttemptTraced
<1> QED
  BY <1>a, <1>b, <1>c, <1>d, <1>e, <1>f, <1>g, <1>h, <1>i, <1>j, <1>k, <1>l DEF Next

LEMMA TraceInvariant == Spec => []TraceInv
<1>1. Init => TraceInv
  BY ConstantsAssumption
     DEF Init, TraceInv, AttemptTraced, OperatorTraced, Traced, Absent, NoRequest, Edited, Disturbance
<1> QED
  BY <1>1, TracedNext, TypeCorrect, PTL DEF Spec

(* Whatever happens, overlapping attempts and operator edits included, no  *)
(* record ever has two trace stages running: _fail_running_stage, which    *)
(* closes one, closes all there are.                                       *)
THEOREM OneStageIsOpen == Spec => []OneOpenStage
<1>1. TypeOK /\ TraceInv => OneOpenStage
  <2> SUFFICES ASSUME TypeOK, TraceInv, NEW j \in Jobs PROVE Cardinality(records[j].open) <= 1
    BY DEF OneOpenStage
  <2>1. CASE records[j].open = {}
    BY <2>1, FS_EmptySet
  <2>2. CASE records[j].open # {}
    <3>1. PICK n : records[j].open = {n}
      BY <2>2 DEF TraceInv, Traced
    <3>2. Cardinality({n}) = 1
      BY FS_Singleton
    <3> QED BY <3>1, <3>2
  <2> QED BY <2>1, <2>2
<1> QED BY <1>1, TraceInvariant, TypeCorrect, PTL

(* Without operator edits a job that is not running has no stage running,  *)
(* through every crash, failed write and second delivery.                  *)
THEOREM TraceIsClosedAtRest == Budget["operator"] = 0 /\ Spec => []TraceClosedAtRest
<1>1. Budget["operator"] = 0 => ~Edited
  BY DEF Edited
<1>2. ~Edited /\ TraceInv => TraceClosedAtRest
  BY DEF TraceInv, Traced, TraceClosedAtRest
<1>3. CASE ~Edited
  BY <1>2, <1>3, TraceInvariant, PTL
<1>4. CASE Edited
  BY <1>1, <1>4
<1> QED BY <1>3, <1>4
=============================================================================
