---------------------------- MODULE StoreProofs ----------------------------
(* What the order of the writes guarantees across the three stores of the  *)
(* file backend, for any number of jobs and slots: the steps that preserve *)
(* it, one by one. HostProofs puts them together.                          *)
EXTENDS LocalStores, TLAPS

(* The request of j has written its asset, its record, its message. *)
Uploading == {"none", "bytes"}
Recording == {"creating", "created", "publishing"}
Unpublished == Uploading \cup {"uploaded", "looked", "creating", "created"}

(* What upload and creation have behind them is in the stores. *)
CreationInv(j) ==
    /\ request[j] \in {"uploaded", "looked"} \cup Recording => asset[j] = "ready"
    /\ request[j] \in Recording => record[j] # "none" \/ j \in deleted
    /\ request[j] \in Unpublished => message[j] = "none"
    /\ message[j] # "none" => asset[j] = "ready" /\ (record[j] # "none" \/ j \in deleted)

(* A claim belongs to an attempt or has lost it, and is given up for an    *)
(* attempt that has ended its job.                                         *)
ClaimInv(j) ==
    /\ work[j] # "none" => message[j] = "claimed"
    /\ work[j] \in {"succeeding", "failing", "ack"} => record[j] \in Ended \cup {"none"}
    /\ message[j] = "claimed" /\ work[j] = "none" => j \in cutOff
    /\ message[j] = "gone" => record[j] \in Ended \cup {"none"}

(* Until an operator deletes it or marks it failed, a job has no record     *)
(* before its creation, and only the one attempt that holds its claim      *)
(* writes the record.                                                      *)
LifeInv(j) ==
    j \notin deleted \cup marked =>
        /\ request[j] \in Uploading \cup {"uploaded", "looked"} => record[j] = "none"
        /\ work[j] \in {"saving", "rendering"} => record[j] = "running"
        /\ work[j] = "succeeding" => record[j] = "succeeded"
        /\ work[j] = "failing" => record[j] = "failed"

AttemptPen(j) == pen[<<"attempt", j>>]

(* An operator's request is about a job there is or was; and a record is   *)
(* left torn behind the last attempt by nobody but an operator.            *)
PenInv(j) ==
    /\ operator[j] # "none" => record[j] # "none" \/ j \in deleted
    /\ operator[j] = "writes" => j \in marked
    /\ AttemptPen(j) # "up" => work[j] \in {"saving", "succeeding", "failing"}
    /\ AttemptPen(j) = "over" => j \in marked
    /\ AttemptPen(j) = "unlinked" \/ work[j] = "ack" \/ message[j] = "gone" =>
         (j \in torn => j \in marked)

StoreInv == \A j \in Jobs : CreationInv(j) /\ ClaimInv(j) /\ LifeInv(j) /\ PenInv(j)

StoresOK == LocalTypeOK /\ StoreInv

(* The invariant implies the properties of the runs. *)
LEMMA StoreInvSuffices ==
  ASSUME StoresOK
  PROVE  DeliveredIsReady /\ AcknowledgedHasEnded /\ StrandedWasCutOff
BY DEF StoresOK, StoreInv, CreationInv, ClaimInv, PenInv,
       DeliveredIsReady, AcknowledgedHasEnded, StrandedWasCutOff

Record == {"none", "queued", "running"} \cup Ended
Pens == {"up", "down", "over", "unlinked"}

LEMMA RecordWriterFacts ==
  /\ \A w \in {"attempt", "operator"}, i \in Jobs :
       <<w, i>> \in RecordWriters /\ <<w, i>>[1] = w /\ <<w, i>>[2] = i
  /\ \A w, v \in {"attempt", "operator"}, i, k \in Jobs : <<w, i>> = <<v, k>> <=> w = v /\ i = k
BY DEF RecordWriters

LEMMA StoresInit ==
  ASSUME NEW b \in [{"jobs", "page", "api", "operator"} -> Nat], LocalInit(b)
  PROVE  StoresOK
BY RecordWriterFacts DEF StoresOK, StoreInv, CreationInv, ClaimInv, LifeInv, PenInv, AttemptPen, LocalInit,
       LocalTypeOK, Ended, Uploading, Recording, Unpublished

LEMMA SpendType ==
  ASSUME LocalTypeOK, NEW what \in {"jobs", "page", "api", "operator"}, Spend(what)
  PROVE  trouble' \in [{"jobs", "page", "api", "operator"} -> Nat]
BY DEF LocalTypeOK, Spend

-----------------------------------------------------------------------------
(* What opening, filling and unlinking a record does *)

LEMMA OpenFacts ==
  ASSUME LocalTypeOK, NEW w \in {"attempt", "operator"}, NEW j \in Jobs, NEW status \in Record,
         OpenRecord(w, j, status)
  PROVE  /\ record' \in [Jobs -> Record] /\ torn' \subseteq Jobs /\ pen' \in [RecordWriters -> Pens]
         /\ record'[j] = status
         /\ \A i \in Jobs : i # j => /\ record'[i] = record[i] /\ (i \in torn' <=> i \in torn)
                                     /\ AttemptPen(i)' = AttemptPen(i)
         /\ w = "attempt" => AttemptPen(j)' = "down"
         /\ w = "operator" => AttemptPen(j)' \in {AttemptPen(j), "down"}
                              /\ (AttemptPen(j) = "up" => AttemptPen(j)' = "up")
<1> USE RecordWriterFacts DEF OpenRecord, LocalTypeOK, Record, Pens
<1>1. record' \in [Jobs -> Record] /\ torn' \subseteq Jobs
  OBVIOUS
<1>2. pen' \in [RecordWriters -> Pens]
  OBVIOUS
<1>3. /\ record'[j] = status
      /\ \A i \in Jobs : i # j => record'[i] = record[i] /\ (i \in torn' <=> i \in torn)
  OBVIOUS
<1>4. \A i \in Jobs : i # j => AttemptPen(i)' = AttemptPen(i)
  BY DEF AttemptPen
<1>5. w = "attempt" => AttemptPen(j)' = "down"
  BY DEF AttemptPen
<1>6. w = "operator" => AttemptPen(j)' \in {AttemptPen(j), "down"}
                        /\ (AttemptPen(j) = "up" => AttemptPen(j)' = "up")
  BY DEF AttemptPen
<1> QED BY <1>1, <1>2, <1>3, <1>4, <1>5, <1>6

LEMMA FillFacts ==
  ASSUME LocalTypeOK, NEW w \in {"attempt", "operator"}, NEW j \in Jobs, NEW status \in Record,
         FillRecord(w, j, status)
  PROVE  /\ record' \in [Jobs -> Record] /\ torn' \subseteq Jobs /\ pen' \in [RecordWriters -> Pens]
         /\ record'[j] \in {record[j], status}
         /\ \A i \in Jobs : i # j => /\ record'[i] = record[i] /\ (i \in torn' <=> i \in torn)
                                     /\ AttemptPen(i)' = AttemptPen(i)
         /\ j \in torn' => \/ pen[<<w, j>>] = "over"
                           \/ pen[<<w, j>>] = "unlinked" /\ j \in torn
         /\ w = "attempt" => AttemptPen(j)' = "up"
         /\ w = "operator" => \/ AttemptPen(j)' = AttemptPen(j)
                              \/ AttemptPen(j) = "down" /\ AttemptPen(j)' = "over"
<1> USE RecordWriterFacts DEF LocalTypeOK, Record, Pens
<1>1. CASE pen[<<w, j>>] = "unlinked"
  <2>1. pen' = [pen EXCEPT ![<<w, j>>] = "up"] /\ UNCHANGED <<record, torn>>
    BY <1>1 DEF FillRecord
  <2>2. /\ \A i \in Jobs : i # j => AttemptPen(i)' = AttemptPen(i)
        /\ w = "attempt" => AttemptPen(j)' = "up"
        /\ w = "operator" => AttemptPen(j)' = AttemptPen(j)
    BY <2>1 DEF AttemptPen
  <2> QED BY <1>1, <2>1, <2>2
<1>2. CASE pen[<<w, j>>] # "unlinked"
  <2>1. /\ record' = [record EXCEPT ![j] = status]
        /\ torn' = torn \ {j} \/ (pen[<<w, j>>] = "over" /\ torn' = torn \cup {j})
        /\ pen' = [v \in RecordWriters |->
                     CASE v = <<w, j>> -> "up"
                       [] v # <<w, j>> /\ v[2] = j /\ pen[v] = "down" -> "over"
                       [] OTHER -> pen[v]]
    BY <1>2 DEF FillRecord
  <2>2. pen' \in [RecordWriters -> Pens]
    BY <2>1
  <2>3. \A i \in Jobs : i # j => AttemptPen(i)' = AttemptPen(i)
    BY <2>1 DEF AttemptPen
  <2>4. w = "attempt" => AttemptPen(j)' = "up"
    BY <2>1 DEF AttemptPen
  <2>5. w = "operator" => \/ AttemptPen(j)' = AttemptPen(j)
                          \/ AttemptPen(j) = "down" /\ AttemptPen(j)' = "over"
    BY <2>1 DEF AttemptPen
  <2> QED BY <2>1, <2>2, <2>3, <2>4, <2>5
<1> QED BY <1>1, <1>2

LEMMA UnlinkFacts ==
  ASSUME LocalTypeOK, NEW j \in Jobs, UnlinkRecord(j)
  PROVE  /\ record' \in [Jobs -> Record] /\ torn' \subseteq Jobs /\ pen' \in [RecordWriters -> Pens]
         /\ record'[j] = "none" /\ j \notin torn'
         /\ \A i \in Jobs : i # j => /\ record'[i] = record[i] /\ (i \in torn' <=> i \in torn)
                                     /\ AttemptPen(i)' = AttemptPen(i)
         /\ AttemptPen(j)' = IF AttemptPen(j) = "up" THEN "up" ELSE "unlinked"
<1> USE RecordWriterFacts DEF UnlinkRecord, LocalTypeOK, Record, Pens
<1>1. /\ record' \in [Jobs -> Record] /\ torn' \subseteq Jobs /\ pen' \in [RecordWriters -> Pens]
      /\ record'[j] = "none" /\ j \notin torn'
  OBVIOUS
<1>2. /\ \A i \in Jobs : i # j => AttemptPen(i)' = AttemptPen(i)
      /\ AttemptPen(j)' = IF AttemptPen(j) = "up" THEN "up" ELSE "unlinked"
  BY DEF AttemptPen
<1> QED BY <1>1, <1>2

LEMMA PensUpFacts ==
  ASSUME LocalTypeOK, NEW w \in {"attempt", "operator"}, PensUp(w)
  PROVE  /\ pen' \in [RecordWriters -> Pens]
         /\ \A i \in Jobs : AttemptPen(i)' = IF w = "attempt" THEN "up" ELSE AttemptPen(i)
BY RecordWriterFacts DEF PensUp, LocalTypeOK, Pens, AttemptPen

-----------------------------------------------------------------------------
(* The API *)

LEMMA ApiStepKeeps ==
  ASSUME StoresOK, NEW j \in Jobs, ApiStep(j) \/ PutBytes(j)
  PROVE  StoresOK'
<1> USE DEF StoresOK, StoreInv, CreationInv, ClaimInv, LifeInv, PenInv, AttemptPen, LocalTypeOK, Goes, recordVars,
            operatorVars, workerVars, Uploading, Recording, Unpublished
<1>1. CASE PutBytes(j)
  BY <1>1, SpendType DEF PutBytes
<1>2. CASE PutMeta(j)
  BY <1>2 DEF PutMeta
<1>3. CASE LookUp(j)
  BY <1>3 DEF LookUp
<1>4. CASE CreateBegins(j)
  BY <1>4 DEF CreateBegins
<1>5. CASE CreateEnds(j)
  BY <1>5 DEF CreateEnds
<1>6. CASE PublishBegins(j)
  BY <1>6 DEF PublishBegins
<1>7. CASE PublishEnds(j)
  BY <1>7 DEF PublishEnds
<1> QED BY <1>1, <1>2, <1>3, <1>4, <1>5, <1>6, <1>7 DEF ApiStep

LEMMA ApiDiesKeeps == ASSUME StoresOK, ApiDies PROVE StoresOK'
BY SpendType, PensUpFacts DEF StoresOK, StoreInv, CreationInv, ClaimInv, LifeInv, PenInv, LocalTypeOK, Pens, ApiDies,
       workerVars, Uploading, Recording, Unpublished

LEMMA OperatorStepKeeps == ASSUME StoresOK, NEW j \in Jobs, OperatorStep(j) PROVE StoresOK'
<1> USE DEF StoresOK, StoreInv, CreationInv, ClaimInv, LifeInv, PenInv, LocalTypeOK, Record, Pens, Ended, Requested,
            apiVars, workerVars, Uploading, Recording, Unpublished
<1>1. CASE OperatorReads(j)
  BY <1>1, SpendType DEF OperatorReads, Answer, recordVars, AttemptPen
<1>2. CASE MarkBegins(j)
  <2>1. OpenRecord("operator", j, "failed")
    BY <1>2 DEF MarkBegins
  <2> QED BY <1>2, <2>1, OpenFacts DEF MarkBegins
<1>3. CASE MarkEnds(j)
  <2>1. FillRecord("operator", j, "failed")
    BY <1>3 DEF MarkEnds
  <2>2. /\ record' \in [Jobs -> Record] /\ torn' \subseteq Jobs /\ pen' \in [RecordWriters -> Pens]
        /\ record'[j] \in {record[j], "failed"}
        /\ AttemptPen(j)' = AttemptPen(j) \/ (AttemptPen(j) = "down" /\ AttemptPen(j)' = "over")
        /\ \A i \in Jobs : i # j => /\ record'[i] = record[i] /\ (i \in torn' <=> i \in torn)
                                    /\ AttemptPen(i)' = AttemptPen(i)
    BY <2>1, FillFacts
  <2>3. /\ operator[j] = "writes" /\ operator' = [operator EXCEPT ![j] = "none"]
        /\ UNCHANGED <<request, asset, message, trouble, loop, work, cutOff, deleted, marked>>
    BY <1>3 DEF MarkEnds
  <2>4. StoreInv'
    <3> SUFFICES ASSUME NEW i \in Jobs
                 PROVE  CreationInv(i)' /\ ClaimInv(i)' /\ LifeInv(i)' /\ PenInv(i)'
      OBVIOUS
    <3>1. CASE i = j
      BY <2>2, <2>3, <3>1
    <3>2. CASE i # j
      BY <2>2, <2>3, <3>2
    <3> QED BY <3>1, <3>2
  <2> QED BY <2>2, <2>3, <2>4
<1>4. CASE Delete(j)
  BY <1>4, UnlinkFacts DEF Delete
<1> QED BY <1>1, <1>2, <1>3, <1>4 DEF OperatorStep

-----------------------------------------------------------------------------
(* The worker loop *)

LEMMA LoopStepKeeps == ASSUME StoresOK, LoopStep PROVE StoresOK'
<1> USE DEF StoresOK, StoreInv, CreationInv, ClaimInv, LifeInv, PenInv, AttemptPen, LocalTypeOK, apiVars,
            recordVars, operatorVars, Uploading, Recording, Unpublished
<1>1. CASE Receive
  <2>1. PICK j \in Visible :
          /\ message' = [message EXCEPT ![j] = Claimed]
          /\ IF message[j] = "torn"
             THEN loop' = "dead" /\ cutOff' = cutOff \cup {j} /\ UNCHANGED work
             ELSE work' = [work EXCEPT ![j] = "claimed"] /\ UNCHANGED <<loop, cutOff>>
    BY <1>1 DEF Receive
  <2> QED BY <1>1, <2>1 DEF Receive, Visible, Claimed
<1>2. CASE FillEnds
  BY <1>2 DEF FillEnds
<1>3. CASE Drain
  BY <1>3 DEF Drain, Settled
<1> QED BY <1>1, <1>2, <1>3 DEF LoopStep

-----------------------------------------------------------------------------
(* One attempt, and the end of the process *)

LEMMA AttemptKeeps == ASSUME StoresOK, NEW j \in Jobs, Attempt(j) PROVE StoresOK'
<1>0. Finished(j) => \E status \in Ended, verdict \in {"ack", "nack"} :
                        Works(j, Saving(status), verdict) /\ FillRecord("attempt", j, status)
  BY Zenon DEF Finished
<1> USE DEF StoresOK, StoreInv, CreationInv, ClaimInv, LifeInv, PenInv, LocalTypeOK, Record, Pens, Ended, Works,
            apiVars, operatorVars, Saving, Uploading, Recording, Unpublished
<1>1. CASE Load(j)
  <2>1. CASE Works(j, "claimed", "nack") /\ UNCHANGED recordVars
    BY <2>1 DEF recordVars, AttemptPen
  <2>2. CASE CanStart(j) /\ Works(j, "claimed", "saving") /\ OpenRecord("attempt", j, "running")
    BY <2>2, OpenFacts DEF CanStart, Answer
  <2>3. CASE Answer(j) \in Ended /\ Works(j, "claimed", Saving(record[j])) /\ OpenRecord("attempt", j, record[j])
    <3>1. record[j] \in Ended
      BY <2>3 DEF Answer
    <3> QED BY <2>3, <3>1, OpenFacts
  <2> QED BY <1>1, <2>1, <2>2, <2>3 DEF Load
<1>2. CASE Saved(j)
  <2>1. FillRecord("attempt", j, "running")
    BY <1>2 DEF Saved
  <2>2. /\ record' \in [Jobs -> Record] /\ torn' \subseteq Jobs /\ pen' \in [RecordWriters -> Pens]
        /\ record'[j] \in {record[j], "running"}
        /\ AttemptPen(j)' = "up"
        /\ j \in torn' => AttemptPen(j) = "over" \/ (AttemptPen(j) = "unlinked" /\ j \in torn)
        /\ \A i \in Jobs : i # j => /\ record'[i] = record[i] /\ (i \in torn' <=> i \in torn)
                                    /\ AttemptPen(i)' = AttemptPen(i)
    <3>1. pen[<<"attempt", j>>] = AttemptPen(j)
      BY DEF AttemptPen
    <3> QED BY <2>1, <3>1, FillFacts
  <2>3. work[j] = "saving" /\ work' = [work EXCEPT ![j] = "rendering"]
        /\ UNCHANGED <<request, asset, message, trouble, loop, cutOff, operator, deleted, marked>>
    BY <1>2 DEF Saved
  <2> QED BY <2>2, <2>3
<1>3. CASE Finish(j)
  <2>1. PICK status \in Ended : Works(j, "rendering", Saving(status)) /\ OpenRecord("attempt", j, status)
    BY <1>3 DEF Finish
  <2> QED BY <2>1, OpenFacts
<1>4. CASE Finished(j)
  <2>1. PICK status \in Ended, verdict \in {"ack", "nack"} :
          Works(j, Saving(status), verdict) /\ FillRecord("attempt", j, status)
    BY <1>0, <1>4
  <2>2. /\ record' \in [Jobs -> Record] /\ torn' \subseteq Jobs /\ pen' \in [RecordWriters -> Pens]
        /\ record'[j] \in {record[j], status}
        /\ AttemptPen(j)' = "up"
        /\ j \in torn' => AttemptPen(j) = "over" \/ (AttemptPen(j) = "unlinked" /\ j \in torn)
        /\ \A i \in Jobs : i # j => /\ record'[i] = record[i] /\ (i \in torn' <=> i \in torn)
                                    /\ AttemptPen(i)' = AttemptPen(i)
    <3>1. pen[<<"attempt", j>>] = AttemptPen(j)
      BY DEF AttemptPen
    <3> QED BY <2>1, <3>1, FillFacts
  <2>3. work[j] = Saving(status) /\ work' = [work EXCEPT ![j] = verdict]
        /\ UNCHANGED <<request, asset, message, trouble, loop, cutOff, operator, deleted, marked>>
    BY <2>1
  <2> QED BY <2>2, <2>3
<1> QED BY <1>1, <1>2, <1>3, <1>4 DEF Attempt

LEMMA WorkerStepKeeps == ASSUME StoresOK, WorkerStep PROVE StoresOK'
BY LoopStepKeeps, AttemptKeeps DEF WorkerStep

LEMMA ProcessLostKeeps == ASSUME StoresOK, ProcessLost PROVE StoresOK'
BY PensUpFacts DEF StoresOK, StoreInv, CreationInv, ClaimInv, LifeInv, PenInv, LocalTypeOK, Pens, ProcessLost, Busy,
       apiVars, operatorVars, Uploading, Recording, Unpublished

LEMMA StoresStutter == ASSUME StoresOK, UNCHANGED storeVars PROVE StoresOK'
<1> USE DEF storeVars, apiVars, recordVars, operatorVars, workerVars
<1>1. LocalTypeOK'
  BY DEF StoresOK, LocalTypeOK
<1>2. \A j \in Jobs : AttemptPen(j)' = AttemptPen(j)
  BY DEF AttemptPen
<1>3. StoreInv'
  BY <1>2 DEF StoresOK, StoreInv, CreationInv, ClaimInv, LifeInv, PenInv
<1> QED BY <1>1, <1>3 DEF StoresOK

-----------------------------------------------------------------------------
(* What a step makes of the jobs: it takes one of them one step further in *)
(* its life, or settles the messages of some that are over.                *)

Advances(from, to) ==
    \/ to = from
    \/ from = "none" /\ to = "queued"
    \/ from = "queued" /\ to = "running"
    \/ from = "running" /\ to \in Ended

Withdrawn == deleted \cup marked

Progresses(j) ==
    /\ \A i \in Jobs : i # j => record'[i] = record[i] /\ (i \in Withdrawn' <=> i \in Withdrawn)
    /\ \A i \in Jobs : message'[i] = "gone" <=> message[i] = "gone"
    /\ \/ j \in Withdrawn /\ j \in Withdrawn'
       \/ j \notin Withdrawn /\ j \in Withdrawn' /\ record[j] # "none"
       \/ j \notin Withdrawn /\ j \notin Withdrawn' /\ Advances(record[j], record'[j])

Settles ==
    /\ UNCHANGED <<record, deleted, marked>>
    /\ \A j \in Jobs : message[j] = "gone" => message'[j] = "gone"
    /\ \A j \in Jobs : message'[j] = "gone" =>
         message[j] = "gone" \/ record[j] \in Ended \/ j \in Withdrawn

LEMMA ApiStepMoves ==
  ASSUME StoresOK, NEW j \in Jobs, ApiStep(j) \/ PutBytes(j) \/ OperatorStep(j)
  PROVE  Progresses(j)
<1> USE DEF StoresOK, StoreInv, CreationInv, LifeInv, PenInv, LocalTypeOK, Record, Goes, Requested, recordVars,
            operatorVars, workerVars, apiVars, Uploading, Recording, Unpublished, Withdrawn, Progresses, Advances
<1>1. CASE PutBytes(j) \/ PutMeta(j) \/ LookUp(j) \/ CreateEnds(j)
  BY <1>1 DEF PutBytes, PutMeta, LookUp, CreateEnds
<1>2. CASE CreateBegins(j)
  BY <1>2 DEF CreateBegins
<1>3. CASE PublishBegins(j) \/ PublishEnds(j)
  BY <1>3 DEF PublishBegins, PublishEnds
<1>4. CASE OperatorReads(j)
  BY <1>4 DEF OperatorReads
<1>5. CASE MarkBegins(j)
  <2>1. \A i \in Jobs : i # j => record'[i] = record[i]
    BY <1>5 DEF MarkBegins, OpenRecord
  <2> QED BY <1>5, <2>1 DEF MarkBegins
<1>6. CASE MarkEnds(j)
  <2>1. \A i \in Jobs : i # j => record'[i] = record[i]
    BY <1>6 DEF MarkEnds, FillRecord
  <2> QED BY <1>6, <2>1 DEF MarkEnds
<1>7. CASE Delete(j)
  <2>1. \A i \in Jobs : i # j => record'[i] = record[i]
    BY <1>7 DEF Delete, UnlinkRecord
  <2> QED BY <1>7, <2>1 DEF Delete
<1> QED BY <1>1, <1>2, <1>3, <1>4, <1>5, <1>6, <1>7 DEF ApiStep, OperatorStep

LEMMA AttemptMoves ==
  ASSUME StoresOK, NEW j \in Jobs, Attempt(j)
  PROVE  Progresses(j)
<1>0. Finished(j) => \E status \in Ended, verdict \in {"ack", "nack"} :
                        Works(j, Saving(status), verdict) /\ FillRecord("attempt", j, status)
  BY Zenon DEF Finished
<1> USE DEF StoresOK, StoreInv, CreationInv, ClaimInv, LifeInv, LocalTypeOK, Record, Ended, Works, operatorVars,
            Saving, Withdrawn, Progresses, Advances
<1>1. CASE Load(j)
  BY <1>1 DEF Load, OpenRecord, recordVars, Answer, CanStart
<1>2. CASE Saved(j)
  <2>1. /\ \A i \in Jobs : i # j => record'[i] = record[i]
        /\ record'[j] \in {record[j], "running"}
    BY <1>2 DEF Saved, FillRecord
  <2> QED BY <1>2, <2>1 DEF Saved
<1>3. CASE Finish(j)
  BY <1>3 DEF Finish, OpenRecord
<1>4. CASE Finished(j)
  <2>1. PICK status \in Ended, verdict \in {"ack", "nack"} :
          Works(j, Saving(status), verdict) /\ FillRecord("attempt", j, status)
    BY <1>0, <1>4
  <2>2. /\ \A i \in Jobs : i # j => record'[i] = record[i]
        /\ record'[j] \in {record[j], status}
    BY <2>1 DEF FillRecord
  <2> QED BY <2>1, <2>2
<1> QED BY <1>1, <1>2, <1>3, <1>4 DEF Attempt

LEMMA LoopStepMoves == ASSUME StoresOK, LoopStep PROVE Settles
<1> USE DEF StoresOK, StoreInv, CreationInv, ClaimInv, LocalTypeOK, recordVars, operatorVars, Withdrawn, Settles
<1>1. CASE Receive
  BY <1>1 DEF Receive, Visible, Claimed
<1>2. CASE FillEnds
  BY <1>2 DEF FillEnds
<1>3. CASE Drain
  BY <1>3 DEF Drain, Settled
<1> QED BY <1>1, <1>2, <1>3 DEF LoopStep
=============================================================================
