----------------------------- MODULE ReuseProofs -----------------------------
(***************************************************************************)
(* When the request cache can be relied on: as long as no attempt and no   *)
(* create fails and the operator keeps out, the job that the index names   *)
(* for a key stands for all of that key's jobs, and a create goes to a     *)
(* fresh job only when there is none or that one has gone stale.           *)
(*                                                                         *)
(* The argument: what is written has not failed, and whoever writes a      *)
(* record then points the index at it; so the index names a job that may   *)
(* be reused as soon as the first create of the key has put both objects,  *)
(* and a look-up that found an entry finds a record that may be reused,    *)
(* however much was written between its two gets.  Duplicate deliveries,   *)
(* crashes, missing assets and any number of API threads do not matter.    *)
(***************************************************************************)
EXTENDS RenderJobsProofs

Failures == {"api", "operator", "port", "store"}
Unfailing == \A d \in Failures : Budget[d] = 0

(* What an attempt that does not fail ever holds or writes. *)
Unended == {"queued", "running", "succeeded"}

IndexInv ==
  /\ \A k \in Keys : index[k] # NoJob => records[index[k]].status \in Unended
  /\ \A j \in Jobs : records[j].status # "absent" /\ request[j] # "index" => index[KeyOf[j]] # NoJob
  /\ \A r \in Jobs : request[r] = "lookup" => answer[r] \in Jobs /\ records[answer[r]].status \in Unended

RecordInv ==
  /\ \A j \in Jobs : records[j].status # "failed"
  /\ \A j \in Jobs : request[j] \in {"index", "publish"} \/ message[j] # "none" => records[j].status # "absent"

AttemptInv ==
  \A s \in Slots : Busy(s) =>
    /\ pc[s] # "except"
    /\ records[job[s]].status # "absent"
    /\ pc[s] \notin {"get", "raised"} => copy[s].status \in Unended

UnfailingInv == operator.act = "none" /\ \A d \in Failures : budget[d] = 0

ReuseInv == IndexInv /\ RecordInv /\ AttemptInv /\ UnfailingInv

(* The puts there are while nothing fails. *)
Written(j) == \E rec : rec.status \in Unended /\ PutRecord(j, rec)
StoreStep(j) ==
  \/ UNCHANGED store
  \/ Written(j)
  \/ PutIndex(j) /\ records[j].status # "absent"

(* What they all keep. *)
Kept ==
  /\ \A k \in Keys : index'[k] # NoJob => records'[index'[k]].status \in Unended
  /\ \A k \in Keys : index[k] # NoJob => index'[k] # NoJob
  /\ \A i \in Jobs : records'[i].status # "failed"
  /\ \A i \in Jobs : records[i].status # "absent" => records'[i].status \in Unended

LEMMA StoreKeeps ==
  ASSUME TypeOK, ReuseInv, NEW j \in Jobs, StoreStep(j)
  PROVE  Kept
<1> USE ConstantsAssumption
<1>0. \A i \in Jobs : records[i].status \in Unended \/ records[i].status = "absent"
  BY DEF TypeOK, ReuseInv, RecordInv, Record, Live, Terminal, Unended
<1>1. CASE UNCHANGED store
  BY <1>0, <1>1 DEF store, ReuseInv, IndexInv, RecordInv, Kept
<1>2. CASE Written(j)
  <2>1. PICK rec : rec.status \in Unended /\ PutRecord(j, rec)
    BY <1>2 DEF Written
  <2>2. /\ records'[j] = rec /\ index' = index
        /\ \A i \in Jobs : i # j => records'[i] = records[i]
    BY <2>1 DEF TypeOK, PutRecord
  <2>3. \A i \in Jobs : records'[i].status # "failed"
    BY <2>1, <2>2 DEF ReuseInv, RecordInv, Unended
  <2>4. \A i \in Jobs : records[i].status # "absent" => records'[i].status \in Unended
    BY <1>0, <2>1, <2>2
  <2>5. \A k \in Keys : index'[k] # NoJob => records'[index'[k]].status \in Unended
    BY <2>1, <2>2 DEF TypeOK, ReuseInv, IndexInv
  <2> QED BY <2>2, <2>3, <2>4, <2>5 DEF Kept
<1>3. CASE PutIndex(j) /\ records[j].status # "absent"
  <2>1. /\ records' = records /\ index'[KeyOf[j]] = j
        /\ \A k \in Keys : k # KeyOf[j] => index'[k] = index[k]
    BY <1>3 DEF TypeOK, PutIndex
  <2> QED BY <1>0, <1>3, <2>1 DEF ReuseInv, IndexInv, RecordInv, Kept
<1> QED BY <1>1, <1>2, <1>3 DEF StoreStep

(* What every step of an attempt does when nothing fails. *)
SoundStep(s) ==
  /\ pc[s] # "free" /\ pc'[s] \notin {"free", "except"}
  /\ \A t \in Slots : t # s => pc'[t] = pc[t] /\ copy'[t] = copy[t]
  /\ StoreStep(job[s])
  /\ UNCHANGED <<message, request, answer, job, operator>>
  /\ pc'[s] \notin {"get", "raised"} => copy'[s].status \in Unended
  /\ UNCHANGED budget \/ Spend("asset")

LEMMA SoundUpdate ==
  ASSUME TypeOK, ReuseInv, NEW s \in Slots, pc[s] # "free",
         NEW rec, rec.status \in Unended,
         NEW label, label \notin {"free", "except"}, Update(s, rec, label)
  PROVE  SoundStep(s)
<1>1. PutRecord(job[s], rec) /\ Goto(s, label) /\ UNCHANGED budget
  BY DEF Update, Spend, ReuseInv, UnfailingInv, Failures
<1>2. StoreStep(job[s])
  BY <1>1 DEF StoreStep, Written
<1> QED
  BY <1>1, <1>2 DEF TypeOK, Update, Goto, SoundStep, queue, api

LEMMA EveryStepSound ==
  ASSUME TypeOK, ReuseInv, NEW s \in Slots, Attempt(s)
  PROVE  SoundStep(s)
<1>0. /\ copy[s] \in Record /\ clock \in 0..MaxClock /\ stage[s] \in StageName
      /\ pc[s] # "free" => job[s] \in Jobs
      /\ pc[s] \notin {"free", "get", "raised"} => copy[s].status \in Unended
      /\ pc[s] # "except"
      /\ pc[s] # "free" => records[job[s]].status \in Unended
  BY DEF TypeOK, ReuseInv, AttemptInv, RecordInv, Busy, Unended, Record, Live, Terminal
<1>1. ~Spend("store") /\ ~Spend("port")
  BY DEF Spend, ReuseInv, UnfailingInv, Failures
<1>2. CASE TerminalNoop(s) \/ Claim(s) \/ ReportMissingAsset(s) \/ Begin(s)
  BY <1>0, <1>2, SoundUpdate DEF TerminalNoop, Claim, ReportMissingAsset, Begin
<1>3. CASE EnterStage(s)
  <2>1. StageOpened(copy[s], stage[s]).status = copy[s].status
    BY <1>0 DEF StageOpened, Record
  <2> QED BY <1>0, <1>3, <2>1, SoundUpdate DEF EnterStage
<1>4. CASE LeaveStage(s) \/ Complete(s)
  BY <1>0, <1>4, SoundUpdate DEF LeaveStage, Complete
<1>5. CASE Get(s)
  BY <1>0, <1>5 DEF TypeOK, Get, Goto, SoundStep, StoreStep, store, queue, api, IsTerminal, Terminal, Unended
<1>6. CASE LoadAssetRef(s)
  <2>1. Started(copy[s], clock).status \in Unended
    BY <1>0 DEF Started, Record, Unended
  <2> QED BY <1>0, <1>6, <2>1 DEF TypeOK, LoadAssetRef, Goto, SoundStep, StoreStep, store, queue, api
<1>7. CASE AssetMissing(s)
  BY <1>0, <1>7 DEF TypeOK, AssetMissing, Goto, SoundStep, StoreStep, store, queue, api
<1>8. CASE CallStage(s)
  <2> DEFINE closed == StageClosed(copy[s], stage[s])
  <2>1. closed \in Record /\ closed.status = copy[s].status
    BY <1>0 DEF StageClosed, Record
  <2>2. Completed(closed, clock).status \in Unended
    BY <2>1 DEF Completed, Record, Unended
  <2>3. /\ pc[s] = "call" /\ pc'[s] \in {"leave", "enter", "complete"}
        /\ copy'[s] \in {closed, Completed(closed, clock)}
    BY <1>8 DEF TypeOK, CallStage, Goto
  <2>4. /\ \A t \in Slots : t # s => pc'[t] = pc[t] /\ copy'[t] = copy[t]
        /\ UNCHANGED <<store, message, request, answer, job, operator, budget>>
    BY <1>8 DEF TypeOK, CallStage, Goto, store, queue, api
  <2>5. copy'[s].status \in Unended
    BY <1>0, <2>1, <2>2, <2>3
  <2> QED BY <2>3, <2>4, <2>5 DEF SoundStep, StoreStep
<1>9. CASE EmitFinished(s)
  BY <1>0, <1>1, <1>9 DEF TypeOK, EmitFinished, Goto, SoundStep, StoreStep, store, queue, api
<1>10. ~ReadRaises(s) /\ ~CallRaises(s) /\ ~Except(s)
  BY <1>0, <1>1 DEF ReadRaises, CallRaises, Except
<1>11. CASE UpdateIndex(s)
  <2>1. /\ pc[s] # "free" /\ PutIndex(job[s]) /\ UNCHANGED <<pc, budget>>
    BY <1>1, <1>11 DEF TypeOK, UpdateIndex
  <2> QED BY <1>0, <1>11, <2>1 DEF UpdateIndex, SoundStep, StoreStep, Unended, queue, api
<1> QED
  BY <1>11, <1>2, <1>3, <1>4, <1>5, <1>6, <1>7, <1>8, <1>9, <1>10 DEF Attempt

LEMMA ReuseNext == TypeOK /\ ReuseInv /\ [Next]_vars => ReuseInv'
<1> SUFFICES ASSUME TypeOK, ReuseInv, [Next]_vars PROVE ReuseInv'
  OBVIOUS
<1> USE ConstantsAssumption
<1>1. \A s \in Slots : Busy(s) => job[s] \in Jobs
  BY DEF TypeOK, Busy
<1>2. ASSUME NEW d, UNCHANGED budget \/ Spend(d), UNCHANGED operator PROVE UnfailingInv'
  BY <1>2 DEF TypeOK, ReuseInv, UnfailingInv, Failures, Disturbance, Spend
<1>3. \A d \in Failures : ~Spend(d)
  BY DEF ReuseInv, UnfailingInv, Spend
(* Steps that leave the slots alone and make at most one sound put. *)
<1>4. ASSUME NEW j \in Jobs, StoreStep(j), UNCHANGED <<pc, job, copy>>,
             \A i \in Jobs : request'[i] \in {"index", "publish"} \/ message'[i] # "none" =>
               records'[i].status # "absent",
             \A i \in Jobs : records'[i].status # "absent" /\ request'[i] # "index" => index'[KeyOf[i]] # NoJob,
             \A i \in Jobs : request'[i] = "lookup" =>
               \/ request[i] = "lookup" /\ answer'[i] = answer[i]
               \/ answer'[i] # NoJob /\ answer'[i] = index'[KeyOf[i]],
             UnfailingInv'
      PROVE  ReuseInv'
  <2>1. Kept
    BY <1>4, StoreKeeps
  <2>2. AttemptInv'
    BY <1>1, <1>4, <2>1 DEF ReuseInv, AttemptInv, Busy, Kept, Unended
  <2>3. \A i \in Jobs : request'[i] = "lookup" => answer'[i] \in Jobs /\ records'[answer'[i]].status \in Unended
    <3> SUFFICES ASSUME NEW i \in Jobs, request'[i] = "lookup"
                 PROVE  answer'[i] \in Jobs /\ records'[answer'[i]].status \in Unended
      OBVIOUS
    <3>1. CASE request[i] = "lookup" /\ answer'[i] = answer[i]
      BY <2>1, <3>1 DEF ReuseInv, IndexInv, Kept, Unended
    <3>2. CASE answer'[i] # NoJob /\ answer'[i] = index'[KeyOf[i]]
      <4>1. index'[KeyOf[i]] \in Jobs
        BY <3>2, TypeOKNext DEF TypeOK
      <4> QED BY <2>1, <3>2, <4>1 DEF Kept
    <3> QED BY <1>4, <3>1, <3>2
  <2> QED BY <1>4, <2>1, <2>2, <2>3 DEF ReuseInv, IndexInv, RecordInv, Kept
<1>5. ASSUME NEW r \in Jobs, LookUp(r) \/ Hit(r) \/ Miss(r) PROVE ReuseInv'
  <2>1. /\ UNCHANGED <<store, message, pc, job, copy, budget, operator>>
        /\ \A i \in Jobs : request'[i] \in {"index", "publish"} <=> request[i] \in {"index", "publish"}
        /\ \A i \in Jobs : request'[i] = "index" <=> request[i] = "index"
        /\ \A i \in Jobs : request'[i] = "lookup" =>
             \/ request[i] = "lookup" /\ answer'[i] = answer[i]
             \/ answer'[i] # NoJob /\ answer'[i] = index[KeyOf[i]]
    BY <1>5 DEF TypeOK, LookUp, Hit, Miss, queue, attempts
  <2> QED BY <1>2, <1>4, <2>1 DEF ReuseInv, IndexInv, RecordInv, StoreStep, store
<1>6. ASSUME NEW r \in Jobs, Create(r) PROVE ReuseInv'
  <2>1. NewRecord(clock).status \in Unended
    BY DEF NewRecord, Absent, Unended
  <2>2. /\ StoreStep(r) /\ UNCHANGED <<index, answer, message, pc, job, copy, budget, operator>>
        /\ request' = [request EXCEPT ![r] = "index"] /\ records'[r] = NewRecord(clock)
        /\ \A i \in Jobs : i # r => records'[i] = records[i]
    BY <1>6, <2>1 DEF TypeOK, Create, PutRecord, StoreStep, Written, queue, attempts
  <2>3. \A i \in Jobs : i # r => request'[i] = request[i]
    BY <2>2 DEF TypeOK
  <2>4. request'[r] = "index"
    BY <2>2 DEF TypeOK
  <2> QED BY <1>2, <1>4, <2>1, <2>2, <2>3, <2>4 DEF ReuseInv, IndexInv, RecordInv, Unended
<1>7. ASSUME NEW r \in Jobs, CreateIndexed(r) \/ Publish(r) PROVE ReuseInv'
  <2>1. CASE CreateIndexed(r)
    <3>1. /\ request[r] = "index" /\ records[r].status # "absent" /\ StoreStep(r)
          /\ request' = [request EXCEPT ![r] = "publish"] /\ index' = [index EXCEPT ![KeyOf[r]] = r]
          /\ UNCHANGED <<records, answer, message, pc, job, copy, budget, operator>>
      BY <2>1 DEF CreateIndexed, PutIndex, StoreStep, ReuseInv, RecordInv, queue, attempts
    <3>2. \A i \in Jobs : i # r => request'[i] = request[i]
      BY <3>1 DEF TypeOK
    <3>3. request'[r] = "publish" /\ index'[KeyOf[r]] = r /\ r # NoJob
      BY <3>1 DEF TypeOK
    <3>4. \A k \in Keys : index[k] # NoJob => index'[k] # NoJob
      BY <3>1 DEF TypeOK
    <3> QED BY <1>2, <1>4, <3>1, <3>2, <3>3, <3>4 DEF ReuseInv, IndexInv, RecordInv
  <2>2. CASE Publish(r)
    <3>1. /\ request[r] = "publish" /\ message' = [message EXCEPT ![r] = "visible"]
          /\ request' = [request EXCEPT ![r] = "answered"] /\ answer' = [answer EXCEPT ![r] = r]
          /\ UNCHANGED <<store, pc, job, copy, budget, operator>>
      BY <2>2 DEF Publish, attempts
    <3>2. /\ \A i \in Jobs : i # r => message'[i] = message[i] /\ request'[i] = request[i] /\ answer'[i] = answer[i]
          /\ request'[r] = "answered" /\ records[r].status # "absent"
      BY <3>1 DEF TypeOK, ReuseInv, RecordInv
    <3> QED BY <1>2, <1>4, <3>1, <3>2 DEF ReuseInv, IndexInv, RecordInv, StoreStep, store
  <2> QED BY <1>7, <2>1, <2>2
<1>8. ASSUME NEW j \in Jobs, VisibilityExpires(j) PROVE ReuseInv'
  <2>1. /\ message[j] = "taken" /\ message' = [message EXCEPT ![j] = "visible"]
        /\ UNCHANGED <<store, request, answer, pc, job, copy, operator>>
        /\ UNCHANGED budget \/ Spend("expire")
    BY <1>8 DEF VisibilityExpires, api, attempts
  <2>2. \A i \in Jobs : request'[i] \in {"index", "publish"} \/ message'[i] # "none" => records'[i].status # "absent"
    BY <2>1 DEF TypeOK, ReuseInv, RecordInv, store
  <2> QED BY <1>2, <1>4, <2>1, <2>2 DEF ReuseInv, IndexInv, StoreStep, store
<1>9. ~MarkFailed /\ ~MarkIndexed /\ ~Delete /\ ~DeleteLooksUp /\ ~Unindex /\ ~OperatorFails
  BY DEF MarkFailed, MarkIndexed, Delete, DeleteLooksUp, Unindex, OperatorFails, ReuseInv, UnfailingInv
<1>10. \A j \in Jobs : ~OperatorReads(j) /\ ~CreateFails(j)
  BY <1>3 DEF OperatorReads, CreateFails, Failures
<1>11. CASE Tick \/ UNCHANGED vars
  BY <1>11 DEF Tick, vars, store, queue, api, attempts, ReuseInv, IndexInv, RecordInv, AttemptInv,
               UnfailingInv, Busy
<1>12. CASE Crash
  <2>1. /\ \A s \in Slots : pc'[s] = "free"
        /\ UNCHANGED <<store, message, request, answer, operator>> /\ Spend("crash")
    BY <1>12 DEF Crash, api
  <2> QED BY <1>2, <2>1 DEF store, ReuseInv, IndexInv, RecordInv, AttemptInv, Busy
<1>13. ASSUME NEW s \in Slots, Receive(s) PROVE ReuseInv'
  <2>1. PICK j \in Jobs : /\ message[j] = "visible"
                          /\ message' = [message EXCEPT ![j] = "taken"]
                          /\ job' = [job EXCEPT ![s] = j]
    BY <1>13 DEF Receive, Deliverable
  <2>2. /\ pc' = [pc EXCEPT ![s] = "get"]
        /\ UNCHANGED <<store, request, answer, copy, operator, budget>>
    BY <1>13 DEF Receive, api
  <2>3. records[j].status # "absent"
    BY <2>1 DEF ReuseInv, RecordInv
  <2>4. AttemptInv'
    BY <2>1, <2>2, <2>3 DEF TypeOK, store, ReuseInv, AttemptInv, Busy
  <2>5. RecordInv'
    BY <2>1, <2>2, <2>3 DEF TypeOK, store, ReuseInv, RecordInv
  <2> QED BY <1>2, <2>2, <2>4, <2>5 DEF store, ReuseInv, IndexInv
<1>14. ASSUME NEW s \in Slots, Attempt(s) PROVE ReuseInv'
  <2>1. SoundStep(s) /\ Busy(s)
    BY <1>14, EveryStepSound DEF SoundStep, Busy
  <2>2. Kept /\ job[s] \in Jobs /\ records[job[s]].status # "absent"
    BY <1>1, <2>1, StoreKeeps DEF SoundStep, ReuseInv, AttemptInv
  <2>3. RecordInv'
    BY <2>1, <2>2 DEF SoundStep, ReuseInv, RecordInv, Kept, Unended
  <2>5. \A i \in Jobs : i # job[s] => records'[i] = records[i]
    BY <2>1, <2>2 DEF SoundStep, StoreStep, Written, PutRecord, PutIndex, store, TypeOK
  <2>6. IndexInv'
    BY <2>1, <2>2, <2>5 DEF SoundStep, ReuseInv, IndexInv, Kept, Unended
  <2>4. AttemptInv'
    <3> SUFFICES ASSUME NEW t \in Slots, Busy(t)'
                 PROVE  /\ pc'[t] # "except" /\ records'[job'[t]].status # "absent"
                        /\ pc'[t] \notin {"get", "raised"} => copy'[t].status \in Unended
      BY DEF AttemptInv
    <3>1. Busy(t) /\ job'[t] = job[t] /\ records[job[t]].status # "absent"
      BY <2>1 DEF SoundStep, ReuseInv, AttemptInv, Busy
    <3>2. records'[job'[t]].status # "absent"
      BY <1>1, <2>2, <3>1 DEF Kept, Unended
    <3>3. CASE t = s
      BY <2>1, <3>2, <3>3 DEF SoundStep
    <3>4. CASE t # s
      BY <2>1, <3>1, <3>2, <3>4 DEF SoundStep, ReuseInv, AttemptInv
    <3> QED BY <3>3, <3>4
  <2> QED BY <1>2, <2>1, <2>3, <2>4, <2>6 DEF SoundStep, ReuseInv
<1>15. ASSUME NEW s \in Slots, Ack(s) \/ Nack(s) PROVE ReuseInv'
  <2>1. /\ pc[s] \in {"returned", "raised"} /\ job[s] \in Jobs
        /\ pc' = [pc EXCEPT ![s] = "free"] /\ job' = [job EXCEPT ![s] = NoJob]
        /\ copy' = [copy EXCEPT ![s] = Absent]
        /\ UNCHANGED <<store, request, answer, operator, budget>>
    BY <1>1, <1>15 DEF Ack, Nack, Released, Handled, FailedHandling, Busy, api
  <2>2. UNCHANGED message \/ \E fate : message' = [message EXCEPT ![job[s]] = fate]
    BY <1>15 DEF Ack, Nack, Settle, queue
  <2>3. records[job[s]].status # "absent"
    BY <2>1 DEF ReuseInv, AttemptInv, Busy
  <2>4. RecordInv'
    BY <2>1, <2>2, <2>3 DEF TypeOK, store, ReuseInv, RecordInv
  <2>5. AttemptInv'
    BY <2>1 DEF TypeOK, store, ReuseInv, AttemptInv, Busy
  <2> QED BY <1>2, <2>1, <2>4, <2>5 DEF store, ReuseInv, IndexInv
<1> QED
  BY <1>5, <1>6, <1>7, <1>8, <1>9, <1>10, <1>11, <1>12, <1>13, <1>14, <1>15 DEF Next

LEMMA ReuseHolds == ASSUME Unfailing PROVE Spec => [](TypeOK /\ ReuseInv)
<1>1. Init => TypeOK /\ ReuseInv
  BY TypeOKInit, Unfailing, ConstantsAssumption
     DEF Unfailing, Init, Absent, ReuseInv, IndexInv, RecordInv, AttemptInv, UnfailingInv, Busy, NoRequest
<1>2. TypeOK /\ ReuseInv /\ [Next]_vars => (TypeOK /\ ReuseInv)'
  BY ReuseNext, TypeOKNext
<1> QED BY <1>1, <1>2, PTL DEF Spec

(* A create misses only when no job of its key has been put with its index *)
(* entry, or when the job that its look-up found, whose record it reads in *)
(* this step, is live and has not been updated for too long.               *)
Justified(r) ==
  \/ \A j \in Jobs : KeyOf[j] = KeyOf[r] /\ request[j] # "index" => records[j].status = "absent"
  \/ LET rec == records[answer[r]] IN
     request[r] = "lookup" /\ answer[r] \in Jobs /\ rec.status \in Live /\ Stale(rec)

LEMMA MissStep == TypeOK /\ ReuseInv => \A r \in Jobs : Miss(r) => Justified(r)
<1> SUFFICES ASSUME TypeOK, ReuseInv, NEW r \in Jobs, Miss(r) PROVE Justified(r)
  OBVIOUS
<1>1. CASE index[KeyOf[r]] = NoJob
  BY <1>1 DEF ReuseInv, IndexInv, Justified
<1>2. CASE request[r] = "lookup" /\ ~Reusable(records[answer[r]])
  <2>1. answer[r] \in Jobs /\ records[answer[r]].status \in Unended
    BY <1>2 DEF ReuseInv, IndexInv
  <2> QED BY <1>2, <2>1 DEF Reusable, Unended, Live, Justified
<1> QED BY <1>1, <1>2 DEF Miss

(* The request cache, whatever goes stale: a fresh job is made only when   *)
(* no create for the key has put its job's record and index entry yet, or  *)
(* when the job found by the look-up has been live and silent for longer   *)
(* than the threshold.                                                     *)
THEOREM MissOnlyWhenStale ==
  ASSUME Unfailing
  PROVE  Spec => [][\A r \in Jobs : Miss(r) => Justified(r)]_vars
<1>1. TypeOK /\ ReuseInv /\ [Next]_vars => [\A r \in Jobs : Miss(r) => Justified(r)]_vars
  BY MissStep
<1> QED BY <1>1, ReuseHolds, Unfailing, PTL DEF Spec

(* No job is silent for longer than the threshold while it is live. *)
NoneStale == \A j \in Jobs : records[j].status \in Live => ~Stale(records[j])

(* As long as no live job goes stale the promise of jobs.md holds: a fresh *)
(* job is made only when no job for its key could be reused, but for jobs  *)
(* whose own create is between its two puts.                               *)
THEOREM MissesAreJustified == ASSUME Unfailing PROVE Spec /\ []NoneStale => MissIsJustified
<1> DEFINE Fresh(r) == \A j \in Jobs : KeyOf[j] = KeyOf[r] /\ request[j] # "index" =>
                         /\ records[j].status # "succeeded"
                         /\ records[j].status \in Live => clock - records[j].updated > StaleAfter
<1>1. ASSUME TypeOK, ReuseInv, NoneStale, NEW r \in Jobs, Miss(r)
      PROVE  Fresh(r)
  <2>1. \A j \in Jobs : KeyOf[j] = KeyOf[r] /\ request[j] # "index" => records[j].status = "absent"
    BY <1>1, MissStep DEF Justified, NoneStale
  <2> QED BY <2>1 DEF Live
<1>2. TypeOK /\ ReuseInv /\ NoneStale /\ [Next]_vars => [\A r \in Jobs : Miss(r) => Fresh(r)]_vars
  BY <1>1
<1> HIDE DEF Fresh
<1>3. Spec /\ []NoneStale => [][\A r \in Jobs : Miss(r) => Fresh(r)]_vars
  BY <1>2, ReuseHolds, Unfailing, PTL DEF Spec
<1> QED BY <1>3 DEF MissIsJustified, Fresh
=============================================================================
