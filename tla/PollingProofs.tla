--------------------------- MODULE PollingProofs ---------------------------
(* What holds of the attempts and the ML services behind them, for any     *)
(* number of jobs, deliveries, addresses, retries, ticks and faults.       *)
EXTENDS MLPolling, TLAPS

Address == Urls \cup {None}

Published == [url : Address, mode : Modes \cup {"unknown"}, probed : Address]

-----------------------------------------------------------------------------
(* The operators stay in their types *)

LEMMA EffectiveType == ASSUME NEW o \in Address PROVE Effective(o) \in Address
BY MLConstantsAssumption DEF Effective, Address

LEMMA SyncedType ==
  ASSUME NEW s \in Published, NEW o \in Address
  PROVE  /\ Synced(s, o) \in Published
         /\ Synced(s, o) = s \/ Synced(s, o).probed = Synced(s, o).url
BY EffectiveType DEF Synced, Published

LEMMA ReportType ==
  ASSUME shown \in Published, override \in Address, Report
  PROVE  /\ shown' \in Published
         /\ shown' = shown \/ shown'.probed = shown'.url
BY SyncedType DEF Report

LEMMA RefreshedType ==
  ASSUME shown \in Published, override \in Address,
         NEW a \in Attempts, url[a] \in Address, NEW md
  PROVE  /\ Refreshed(shown, a, md) \in Published
         /\ \/ Refreshed(shown, a, md).probed = Refreshed(shown, a, md).url
            \/ Refreshed(shown, a, md).probed = url[a]
<1> DEFINE s == [shown EXCEPT !.mode = IF md = "async" THEN "async" ELSE "sync", !.probed = url[a]]
<1>1. s \in Published /\ s.probed = url[a]
  BY DEF Published, Modes
<1>2. Refreshed(shown, a, md) = Synced(s, override)
  BY DEF Refreshed
<1> QED BY <1>1, <1>2, SyncedType

LEMMA ProbedModes ==
  ASSUME service \in [Urls -> Offer], NEW u \in Address, NEW fails \in BOOLEAN
  PROVE  Probed(u, fails) \subseteq Modes
BY DEF Probed, Handshake, AnswersTest, Address, Modes

LEMMA CapabilityModes ==
  ASSUME MLTypeOK, NEW a \in Attempts, NEW fails \in BOOLEAN
  PROVE  Capabilities(a, fails) \subseteq Modes
<1>1. url[a] \in Address /\ mode[a] \in Modes \cup {"unknown"} /\ service \in [Urls -> Offer]
  BY DEF MLTypeOK, Address
<1> QED BY <1>1, ProbedModes DEF Capabilities

LEMMA SpendType ==
  ASSUME trouble \in [Faults -> Nat], NEW kind \in Faults, Spend(kind)
  PROVE  trouble' \in [Faults -> Nat]
<1>1. "any" \in Faults
  BY DEF Faults
<1>2. trouble[kind] - 1 \in Nat /\ trouble["any"] - 1 \in Nat
  BY <1>1 DEF Spend
<1>3. trouble' \in [Faults -> Int]
  BY <1>1 DEF Spend
<1>4. \A f \in Faults : trouble'[f] \in Nat
  BY <1>1, <1>2 DEF Spend
<1> QED BY <1>3, <1>4

LEMMA TakenType ==
  ASSUME MLTypeOK, NEW a \in Attempts, NEW m, Taken(a, m)
  PROVE  ml' \in [Attempts -> MLStatus] /\ served' \subseteq Attempts /\ blank' \subseteq Attempts
BY DEF MLTypeOK, Taken, Answered, MLStatus, answers

-----------------------------------------------------------------------------
(* Types *)

LEMMA InitType == Init => MLTypeOK
<1> SUFFICES ASSUME Init PROVE MLTypeOK
  OBVIOUS
<1>1. None \in Address /\ Effective(None) \in Address
  BY EffectiveType DEF Address
<1>2. shown \in Published
  BY <1>1 DEF Init, Published
<1> QED BY <1>1, <1>2, MLConstantsAssumption DEF Init, MLTypeOK, MLStatus, JobStatus, Published, Address

(* A step of one attempt. *)
LEMMA StepType ==
  ASSUME MLTypeOK, NEW a \in Attempts, Step(a)
  PROVE  MLTypeOK'
<1> USE DEF MLTypeOK
<1>0. shown \in Published /\ override \in Address /\ url[a] \in Address
  BY DEF Published, Address
<1>1. ASSUME Report PROVE shown' \in [url : Urls \cup {None}, mode : Modes \cup {"unknown"}, probed : Urls \cup {None}]
  BY <1>0, <1>1, ReportType DEF Published, Address
<1>2. ASSUME NEW kind \in Faults, Spend(kind) PROVE trouble' \in [Faults -> Nat]
  BY <1>2, SpendType
<1>3. ASSUME NEW fails \in BOOLEAN, Call(fails) PROVE trouble' \in [Faults -> Nat]
  BY <1>2, <1>3 DEF Call, Faults
<1>4. CASE Probe(a)
  <2>1. PICK fails \in BOOLEAN :
          /\ Call(fails)
          /\ \/ \E md \in Probed(url[a], fails) :
                  /\ mode' = [mode EXCEPT ![a] = md]
                  /\ shown' = Refreshed(shown, a, md)
                  /\ pc' = [pc EXCEPT ![a] = "submit"]
                  /\ Put(a, "running")
                  /\ UNCHANGED hit
             \/ Probed(url[a], fails) = {} /\ Fail(a) /\ UNCHANGED mode
    BY <1>4 DEF Probe
  <2>2. trouble' \in [Faults -> Nat]
    BY <2>1, <1>3
  <2>3. CASE Probed(url[a], fails) = {} /\ Fail(a) /\ UNCHANGED mode
    BY <1>4, <1>1, <2>2, <2>3, MLConstantsAssumption DEF Probe, Fail, Raise, Put, JobStatus, answers
  <2>4. ASSUME NEW md \in Probed(url[a], fails),
               /\ mode' = [mode EXCEPT ![a] = md]
               /\ shown' = Refreshed(shown, a, md)
               /\ pc' = [pc EXCEPT ![a] = "submit"]
               /\ Put(a, "running")
               /\ UNCHANGED hit
        PROVE  MLTypeOK'
    <3>1. md \in Modes
      BY <1>0, ProbedModes
    <3>2. shown' \in Published
      BY <1>0, <2>4, RefreshedType
    <3> QED BY <1>4, <2>2, <2>4, <3>1, <3>2 DEF Probe, Published, Address, Put, JobStatus, answers
  <2> QED BY <2>1, <2>3, <2>4
<1>5. CASE Submit(a)
  <2>1. PICK fails \in BOOLEAN : \E md \in Capabilities(a, fails) :
          /\ Call(fails)
          /\ Taken(a, md)
          /\ mode' = [mode EXCEPT ![a] = md]
          /\ pc' = [pc EXCEPT ![a] = IF md = "async" THEN "poll" ELSE "store"]
    BY <1>5 DEF Submit
  <2>2. PICK md \in Modes : 
          /\ Call(fails)
          /\ Taken(a, md)
          /\ mode' = [mode EXCEPT ![a] = md]
          /\ pc' = [pc EXCEPT ![a] = IF md = "async" THEN "poll" ELSE "store"]
    BY <2>1, CapabilityModes
  <2>3. trouble' \in [Faults -> Nat] /\ mode' \in [Attempts -> Modes \cup {"unknown"}]
    BY <2>2, <1>3
  <2>4. ml' \in [Attempts -> MLStatus] /\ served' \subseteq Attempts /\ blank' \subseteq Attempts
    BY <2>2, TakenType
  <2>5. pc' = [pc EXCEPT ![a] = "poll"] \/ pc' = [pc EXCEPT ![a] = "store"]
    BY <2>2
  <2>6. cacheAge' \in [Attempts -> 0 .. Refresh]
    BY <1>5, MLConstantsAssumption DEF Submit
  <2> QED BY <1>5, <1>1, <2>3, <2>4, <2>5, <2>6 DEF Submit, Put, JobStatus
<1>6. CASE SubmitRefused(a)
  BY <1>6, <1>1 DEF SubmitRefused, Fail, Raise, Put, JobStatus, answers
<1>7. CASE SubmitFails(a)
  <2>1. ml' \in [Attempts -> MLStatus] /\ served' \subseteq Attempts /\ blank' \subseteq Attempts
    <3>1. UNCHANGED <<ml, answers>> \/ \E md : Taken(a, md)
      BY <1>7 DEF SubmitFails
    <3> QED BY <3>1, TakenType DEF answers
  <2> QED BY <1>7, <1>1, <1>2, <2>1 DEF SubmitFails, Fail, Raise, Put, JobStatus, Faults
<1>8. CASE Poll(a)
  BY <1>8, <1>1 DEF Poll, Raise, Put, JobStatus, answers
<1>9. CASE PollTimesOut(a)
  <2>1. retries' \in [Attempts -> 0 .. MaxRetries]
    BY <1>9, MLConstantsAssumption DEF PollTimesOut, MayRetry
  <2>2. timedOut' \in [Attempts -> Nat]
    BY <1>9 DEF PollTimesOut
  <2> QED BY <1>9, <1>1, <1>2, <2>1, <2>2 DEF PollTimesOut, Raise, Put, JobStatus, answers, Faults
<1>10. CASE PollRejected(a)
  BY <1>10, <1>1, <1>2 DEF PollRejected, Fail, Raise, Put, JobStatus, answers, Faults
<1>11. CASE PollExpires(a)
  <2>1. PICK fails \in BOOLEAN : Call(fails) /\ Cancel(a, fails)
    BY <1>11 DEF PollExpires
  <2>2. trouble' \in [Faults -> Nat]
    BY <2>1, <1>3
  <2>3. ml' \in [Attempts -> MLStatus] /\ hit' \subseteq Attempts
    BY <2>1 DEF Cancel, MLStatus
  <2> QED BY <1>11, <1>1, <2>2, <2>3 DEF PollExpires, Raise, Put, JobStatus, answers
<1>12. CASE Store(a)
  BY <1>12, <1>1, <1>2 DEF Store, Put, JobStatus, answers, Faults
<1>13. CASE Claim(a) \/ Start(a)
  BY <1>13 DEF Claim, Start, Put, JobStatus, answers, history
<1>14. CASE ClaimRaises(a)
  BY <1>14, <1>2 DEF ClaimRaises, answers, Faults
<1>15. CASE WorkRaises(a)
  BY <1>15, <1>1, <1>2 DEF WorkRaises, Fail, Raise, Put, JobStatus, answers, Faults
<1> QED BY <1>4, <1>5, <1>6, <1>7, <1>8, <1>9, <1>10, <1>11, <1>12, <1>13, <1>14, <1>15 DEF Step

LEMMA NextType == MLTypeOK /\ [MLNext]_vars => MLTypeOK'
<1> SUFFICES ASSUME MLTypeOK, [MLNext]_vars PROVE MLTypeOK'
  OBVIOUS
<1> USE DEF MLTypeOK
<1>0. shown \in Published /\ override \in Address
  BY DEF Published, Address
<1>1. ASSUME Report PROVE shown' \in [url : Urls \cup {None}, mode : Modes \cup {"unknown"}, probed : Urls \cup {None}]
  BY <1>0, <1>1, ReportType DEF Published, Address
<1>2. ASSUME NEW kind \in Faults, Spend(kind) PROVE trouble' \in [Faults -> Nat]
  BY <1>2, SpendType
<1>3. ASSUME NEW a \in Attempts, Begin(a) PROVE MLTypeOK'
  <2>1. trouble' \in [Faults -> Nat] /\ doubled' \subseteq Jobs
    <3>1. \/ Spend("expire") /\ doubled' = doubled \cup {JobOf[a]}
          \/ UNCHANGED <<trouble, doubled>>
      BY <1>3 DEF Begin
    <3>2. "expire" \in Faults /\ JobOf[a] \in Jobs
      BY MLConstantsAssumption DEF Faults
    <3> QED BY <1>2, <3>1, <3>2
  <2>2. copy' \in [Attempts -> JobStatus]
    BY <1>3, MLConstantsAssumption DEF Begin
  <2>3. url' \in [Attempts -> Urls \cup {None}]
    BY <1>0, <1>3, EffectiveType DEF Begin, Address
  <2> QED BY <1>3, <2>1, <2>2, <2>3 DEF Begin, answers
<1>4. ASSUME NEW a \in Attempts, Step(a) PROVE MLTypeOK'
  BY <1>4, StepType
<1>5. ASSUME NEW a \in Attempts, Progress(a) PROVE MLTypeOK'
  BY <1>5 DEF Progress, attemptVars, MLStatus
<1>6. ASSUME NEW o \in Urls \cup {None}, SavedByApi(o) PROVE MLTypeOK'
  BY <1>6, <1>2 DEF SavedByApi, Saved, Faults, attemptVars, answers, history
<1>7. ASSUME NEW o \in Urls \cup {None}, SavedByWorker(o) PROVE MLTypeOK'
  <2>1. shown' \in Published
    BY <1>0, <1>7, SyncedType DEF SavedByWorker, Address
  <2> QED BY <1>7, <1>2, <2>1 DEF SavedByWorker, Saved, Faults, attemptVars, answers, history, Published, Address
<1>8. ASSUME NEW u \in Urls, ServiceRestarts(u) PROVE MLTypeOK'
  <2>1. service' \in [Urls -> Offer]
    BY <1>8, MLConstantsAssumption DEF ServiceRestarts
  <2> QED BY <1>8, <1>2, <2>1 DEF ServiceRestarts, MLStatus, Faults, attemptVars, answers, history
<1>9. CASE Crash
  BY <1>9, <1>1, <1>2 DEF Crash, Active, answers, Faults
<1>10. CASE Heartbeat
  BY <1>10, <1>1 DEF Heartbeat, attemptVars, answers, history
<1>11. CASE Tick
  <2>1. cacheAge' \in [Attempts -> 0 .. Refresh]
    BY <1>11, MLConstantsAssumption DEF Tick
  <2>2. age' \in [Attempts -> 0 .. TTL + 1]
    BY <1>11, MLConstantsAssumption DEF Tick
  <2> QED BY <1>11, <2>1, <2>2 DEF Tick, answers, history
<1>12. CASE UNCHANGED vars
  BY <1>12 DEF vars, attemptVars, answers, history
<1> QED
  BY <1>3, <1>4, <1>5, <1>6, <1>7, <1>8, <1>9, <1>10, <1>11, <1>12 DEF MLNext

(* Every variable keeps its type; above all the retries stay within        *)
(* MAX_RETRIES and no age passes its cap.                                  *)
THEOREM MLTypeCorrect == MLSpec => []MLTypeOK
<1> QED BY InitType, NextType, PTL DEF MLSpec

-----------------------------------------------------------------------------
(* An attempt that has read its job while no other had it in hand finds it *)
(* as it was until it starts it; what its stage, its ML job and its        *)
(* counters say of each other; and where a status in a record or in a copy *)
(* comes from.                                                             *)

Working == {"probe", "submit", "poll", "store"}

Reached(a) == a \in served \cup blank \/ ml[a] # "none"

On(a) == pc[a] \in Working \/ Reached(a)

OnceInv ==
    /\ \A a, b \in Attempts :
        JobOf[a] = JobOf[b] /\ a # b /\ JobOf[a] \notin doubled =>
            /\ ~(a \in Active /\ b \in Active)
            /\ ~(On(a) /\ On(b))
    /\ \A a \in Attempts :
        JobOf[a] \notin doubled =>
            /\ On(a) => record[JobOf[a]] # "queued"
            /\ pc[a] = "read" => copy[a] = record[JobOf[a]]
            /\ pc[a] = "claimed" => record[JobOf[a]] = "queued"

StageInv(a) ==
    /\ pc[a] \in {"new", "read", "claimed", "probe", "submit"} => ~Reached(a)
    /\ pc[a] = "poll" => ml[a] # "none"
    /\ pc[a] = "store" => a \in served \cup blank /\ ml[a] \notin AtWork
    /\ ml[a] = "completed" => a \in served
    /\ ml[a] = "blank" => a \in blank
    /\ timedOut[a] >= retries[a]

Justified(a) ==
    pc[a] = "raised" =>
        \/ a \in hit \cup puzzled
        \/ timedOut[a] > MaxRetries
        \/ Expired(a)
        \/ ml[a] \in {"empty", "failed", "cancelled", "gone"}

Accounted(a) == Ended(a) /\ ml[a] \in AtWork => a \in hit \cup puzzled \/ timedOut[a] > MaxRetries

Sound(a) == StageInv(a) /\ Justified(a) /\ Accounted(a)

(* A status that a record of j may have. *)
Backed(j, status) ==
    /\ status = "succeeded" => \E a \in served \cup blank : JobOf[a] = j
    /\ status = "failed" => \E a \in Attempts : JobOf[a] = j /\ pc[a] = "raised"

BackedInv ==
    /\ \A j \in Jobs : Backed(j, record[j])
    /\ \A a \in Attempts : Backed(JobOf[a], copy[a])

MLInv ==
    /\ MLTypeOK
    /\ OnceInv
    /\ BackedInv
    /\ \A a \in Attempts : Sound(a)

(* What a step of attempt a leaves alone. *)
OthersStay(a) ==
    /\ \A b \in Attempts \ {a} :
        /\ pc'[b] = pc[b] /\ ml'[b] = ml[b]
        /\ age'[b] = age[b] /\ retries'[b] = retries[b] /\ timedOut'[b] = timedOut[b]
        /\ b \in served' <=> b \in served
        /\ b \in blank' <=> b \in blank
        /\ b \in hit' <=> b \in hit
        /\ b \in puzzled' <=> b \in puzzled
    /\ \A j \in Jobs \ {JobOf[a]} : record'[j] = record[j]
    /\ served \subseteq served' /\ blank \subseteq blank'
    /\ copy' = copy /\ doubled' = doubled

LEMMA StepStays ==
  ASSUME MLTypeOK, NEW a \in Attempts, Step(a)
  PROVE  OthersStay(a)
<1> USE DEF MLTypeOK, OthersStay, Put, answers
<1>0. JobOf[a] \in Jobs
  BY MLConstantsAssumption
<1>1. CASE Probe(a)
  BY <1>0, <1>1 DEF Probe, Fail, Raise
<1>2. CASE Submit(a)
  BY <1>0, <1>2 DEF Submit, Taken, Answered
<1>3. CASE SubmitRefused(a)
  BY <1>0, <1>3 DEF SubmitRefused, Fail, Raise
<1>4. CASE SubmitFails(a)
  <2>1. UNCHANGED <<ml, answers>> \/ \E md : Taken(a, md)
    BY <1>4 DEF SubmitFails
  <2> QED BY <1>0, <1>4, <2>1 DEF SubmitFails, Fail, Raise, Taken, Answered
<1>5. CASE Poll(a)
  BY <1>0, <1>5 DEF Poll, Raise
<1>6. CASE PollTimesOut(a)
  BY <1>0, <1>6 DEF PollTimesOut, Raise
<1>7. CASE PollRejected(a)
  BY <1>0, <1>7 DEF PollRejected, Fail, Raise
<1>8. CASE PollExpires(a)
  <2>1. PICK fails \in BOOLEAN : Cancel(a, fails)
    BY <1>8 DEF PollExpires
  <2> QED BY <1>0, <1>8, <2>1 DEF PollExpires, Cancel, Raise
<1>9. CASE Store(a)
  BY <1>0, <1>9 DEF Store
<1>10. CASE Claim(a) \/ Start(a) \/ ClaimRaises(a)
  BY <1>0, <1>10 DEF Claim, Start, ClaimRaises, history
<1>11. CASE WorkRaises(a)
  BY <1>0, <1>11 DEF WorkRaises, Fail, Raise
<1> QED
  BY <1>1, <1>2, <1>3, <1>4, <1>5, <1>6, <1>7, <1>8, <1>9, <1>10, <1>11 DEF Step

(* What an attempt does to its job: it puts back what it has read, it      *)
(* starts it, or it writes the record of a job it has started.             *)
Moves(a) ==
    \/ /\ pc[a] = "read" /\ ~Reached(a)'
       /\ record'[JobOf[a]] \in {record[JobOf[a]], copy[a]}
       /\ \/ pc'[a] = "done"
          \/ pc'[a] = "claimed" /\ copy[a] = "queued" /\ record'[JobOf[a]] = copy[a]
    \/ /\ pc[a] = "claimed" /\ ~Reached(a)'
       /\ \/ pc'[a] = "probe" /\ record'[JobOf[a]] = "running"
          \/ pc'[a] = "done" /\ record'[JobOf[a]] = record[JobOf[a]]
    \/ /\ pc[a] \in Working
       /\ pc'[a] \in Working \cup {"done", "raised"}
       /\ \/ record'[JobOf[a]] \in {record[JobOf[a]], "running"}
          \/ record'[JobOf[a]] = "failed" /\ pc'[a] = "raised"
          \/ record'[JobOf[a]] = "succeeded" /\ a \in served \cup blank

(* What it makes of its own. *)
LEMMA StepSound ==
  ASSUME MLTypeOK, NEW a \in Attempts, Step(a), Sound(a)
  PROVE  Sound(a)' /\ Moves(a)
<1> USE DEF MLTypeOK, Sound, StageInv, Justified, Accounted, Expired, Ended, Reached, AtWork,
            Moves, Working, Put, answers
<1>0. JobOf[a] \in Jobs
  BY MLConstantsAssumption
<1>1. CASE Probe(a)
  BY <1>0, <1>1 DEF Probe, Fail, Raise
<1>2. CASE Submit(a)
  BY <1>0, <1>2 DEF Submit, Taken, Answered
<1>3. CASE SubmitRefused(a)
  BY <1>0, <1>3 DEF SubmitRefused, Fail, Raise
<1>4. CASE SubmitFails(a)
  <2>1. UNCHANGED <<ml, answers>> \/ \E md : Taken(a, md)
    BY <1>4 DEF SubmitFails
  <2> QED BY <1>0, <1>4, <2>1 DEF SubmitFails, Fail, Raise, Taken, Answered
<1>5. CASE Poll(a)
  BY <1>0, <1>5 DEF Poll, Polling, PollStatus, Raise, MLStatus
<1>6. CASE PollTimesOut(a)
  BY <1>0, <1>6, MLConstantsAssumption DEF PollTimesOut, Polling, MayRetry, Raise
<1>7. CASE PollRejected(a)
  BY <1>0, <1>7 DEF PollRejected, Polling, Fail, Raise
<1>8. CASE PollExpires(a)
  <2>1. PICK fails \in BOOLEAN : Cancel(a, fails)
    BY <1>8 DEF PollExpires
  <2> QED BY <1>0, <1>8, <2>1 DEF PollExpires, Cancel, Raise
<1>9. CASE Store(a)
  BY <1>0, <1>9 DEF Store
<1>10. CASE Claim(a) \/ Start(a) \/ ClaimRaises(a)
  <2>1. CASE Claim(a)
    BY <1>0, <2>1 DEF Claim, Claims, history
  <2>2. CASE Start(a)
    BY <1>0, <2>2 DEF Start, history
  <2>3. CASE ClaimRaises(a)
    BY <1>0, <2>3 DEF ClaimRaises
  <2> QED BY <1>10, <2>1, <2>2, <2>3
<1>11. CASE WorkRaises(a)
  BY <1>0, <1>11 DEF WorkRaises, Fail, Raise
<1> QED
  BY <1>1, <1>2, <1>3, <1>4, <1>5, <1>6, <1>7, <1>8, <1>9, <1>10, <1>11 DEF Step

(* A step of one attempt keeps the invariant of all. *)
LEMMA StepKeepsInv ==
  ASSUME MLInv, NEW a \in Attempts, Step(a)
  PROVE  MLInv'
<1>1. MLTypeOK /\ Sound(a) /\ JobOf \in [Attempts -> Jobs]
  BY MLConstantsAssumption DEF MLInv
<1>2. MLTypeOK'
  BY <1>1, StepType
<1>3. OthersStay(a) /\ Sound(a)' /\ Moves(a)
  BY <1>1, StepStays, StepSound
<1>4. a \in Active /\ \A b \in Attempts : b \in Active' => b \in Active
  BY <1>1, <1>3 DEF Moves, Working, Active, Ended, OthersStay
<1>5. /\ \A b \in Attempts \ {a} : On(b)' <=> On(b)
      /\ On(a)' => On(a) \/ (pc[a] = "claimed" /\ record'[JobOf[a]] = "running")
  <2>1. \A b \in Attempts \ {a} : On(b)' <=> On(b)
    BY <1>3 DEF OthersStay, On, Reached
  <2>2. CASE pc[a] = "read"
    <3>1. ~Reached(a)' /\ pc'[a] \in {"done", "claimed"}
      BY <1>3, <2>2 DEF Moves, Working
    <3> QED BY <2>1, <3>1 DEF On, Working
  <2>3. CASE pc[a] = "claimed"
    <3>1. ~Reached(a)' /\ ((pc'[a] = "probe" /\ record'[JobOf[a]] = "running") \/ pc'[a] = "done")
      BY <1>3, <2>3 DEF Moves, Working
    <3> QED BY <2>1, <2>3, <3>1 DEF On, Working
  <2>4. CASE pc[a] \in Working
    BY <2>1, <2>4 DEF On
  <2> QED BY <1>3, <2>2, <2>3, <2>4 DEF Moves
<1>6. OnceInv'
  <2>1. ASSUME NEW b \in Attempts, NEW c \in Attempts,
               JobOf[b] = JobOf[c], b # c, JobOf[b] \notin doubled
        PROVE  ~(b \in Active' /\ c \in Active') /\ ~(On(b)' /\ On(c)')
    <3>1. ~(b \in Active /\ c \in Active) /\ ~(On(b) /\ On(c))
      BY <2>1 DEF MLInv, OnceInv
    <3>2. pc[a] = "claimed" /\ JobOf[a] \notin doubled => record[JobOf[a]] = "queued"
      BY DEF MLInv, OnceInv
    <3>3. \A d \in Attempts : On(d) /\ JobOf[d] \notin doubled => record[JobOf[d]] # "queued"
      BY DEF MLInv, OnceInv
    <3> QED BY <1>4, <1>5, <2>1, <3>1, <3>2, <3>3
  <2>2. ASSUME NEW b \in Attempts, JobOf[b] \notin doubled
        PROVE  /\ On(b)' => record'[JobOf[b]] # "queued"
               /\ pc'[b] = "read" => copy'[b] = record'[JobOf[b]]
               /\ pc'[b] = "claimed" => record'[JobOf[b]] = "queued"
    <3>0. JobOf[b] \in Jobs /\ JobOf[a] \in Jobs
      BY <1>1
    <3>1. /\ On(b) => record[JobOf[b]] # "queued"
          /\ pc[b] = "read" => copy[b] = record[JobOf[b]]
          /\ pc[b] = "claimed" => record[JobOf[b]] = "queued"
      BY <2>2 DEF MLInv, OnceInv
    <3>2. CASE JobOf[b] # JobOf[a]
      BY <1>3, <1>5, <3>0, <3>1, <3>2 DEF OthersStay
    <3>3. CASE JobOf[b] = JobOf[a] /\ b # a
      <4>1. b \notin Active
        BY <1>4, <2>2, <3>3 DEF MLInv, OnceInv
      <4>2. pc[b] \notin {"read", "claimed"} /\ pc'[b] = pc[b]
        BY <1>3, <3>3, <4>1 DEF Active, Ended, OthersStay
      <4>3. ASSUME On(b) PROVE record'[JobOf[b]] # "queued"
        <5>1. pc[a] = "read" => copy[a] = record[JobOf[a]]
          BY <2>2, <3>3 DEF MLInv, OnceInv
        <5>2. record[JobOf[a]] # "queued"
          BY <3>1, <3>3, <4>3
        <5> QED BY <1>3, <3>3, <5>1, <5>2 DEF Moves
      <4> QED BY <1>5, <3>3, <4>2, <4>3
    <3>4. CASE b = a
      <4>1. On(a)' => record'[JobOf[a]] # "queued"
        <5>1. CASE On(a)
          BY <1>3, <3>1, <3>4, <5>1 DEF Moves
        <5> QED BY <1>5, <5>1
      <4>2. pc'[a] = "read" => FALSE
        BY <1>3 DEF Moves, Working
      <4>3. pc'[a] = "claimed" => record'[JobOf[a]] = "queued"
        BY <1>3 DEF Moves, Working
      <4> QED BY <3>4, <4>1, <4>2, <4>3
    <3> QED BY <3>2, <3>3, <3>4
  <2>3. doubled' = doubled
    BY <1>3 DEF OthersStay
  <2> QED BY <2>1, <2>2, <2>3 DEF OnceInv
<1>7. BackedInv'
  <2>1. ASSUME NEW j \in Jobs, NEW status, Backed(j, status) PROVE Backed(j, status)'
    <3>1. \A b \in Attempts : pc[b] = "raised" => pc'[b] = "raised"
      BY <1>3, <1>4 DEF OthersStay, Active, Ended
    <3> QED BY <1>1, <1>3, <2>1, <3>1 DEF Backed, OthersStay
  <2>2. \A b \in Attempts : Backed(JobOf[b], copy[b])'
    BY <1>1, <1>3, <2>1 DEF MLInv, BackedInv, OthersStay
  <2>3. ASSUME NEW j \in Jobs PROVE Backed(j, record[j])'
    <3>1. CASE record'[j] = record[j]
      BY <2>1, <3>1 DEF MLInv, BackedInv
    <3>2. CASE j = JobOf[a] /\ record'[j] = copy[a]
      BY <2>1, <3>2 DEF MLInv, BackedInv
    <3>3. CASE j = JobOf[a] /\ record'[j] \in {"queued", "running"}
      BY <3>3 DEF Backed
    <3>4. CASE j = JobOf[a] /\ record'[j] = "failed" /\ pc'[a] = "raised"
      BY <3>4 DEF Backed
    <3>5. CASE j = JobOf[a] /\ record'[j] = "succeeded" /\ a \in served \cup blank
      BY <1>3, <3>5 DEF Backed, OthersStay
    <3> QED BY <1>3, <3>1, <3>2, <3>3, <3>4, <3>5 DEF OthersStay, Moves
  <2> QED BY <2>2, <2>3 DEF BackedInv
<1>8. ASSUME NEW b \in Attempts \ {a} PROVE Sound(b)'
  <2>1. Sound(b)
    BY DEF MLInv
  <2> QED BY <1>1, <1>3, <2>1
          DEF Sound, StageInv, Justified, Accounted, Expired, Ended, Reached, OthersStay
<1> QED BY <1>2, <1>3, <1>6, <1>7, <1>8 DEF MLInv

LEMMA InvInit == Init => MLInv
<1> SUFFICES ASSUME Init PROVE MLInv
  OBVIOUS
<1>1. MLTypeOK
  BY InitType
<1>2. JobOf \in [Attempts -> Jobs]
  BY MLConstantsAssumption
<1>3. \A a \in Attempts : ~On(a) /\ a \notin Active /\ Sound(a) /\ pc[a] = "new" /\ copy[a] = "queued"
  BY <1>1 DEF Init, On, Reached, Working, Active, Sound, StageInv, Justified, Accounted, Ended
<1>4. \A j \in Jobs : record[j] = "queued"
  BY DEF Init
<1> QED BY <1>1, <1>2, <1>3, <1>4 DEF MLInv, OnceInv, BackedInv, Backed

(* The steps around the attempts leave the records and the copies alone. *)
LEMMA InvAround ==
  ASSUME MLInv, MLTypeOK', UNCHANGED <<record, copy, doubled>>,
         served \subseteq served', blank \subseteq blank',
         \A a \in Attempts : /\ pc'[a] \in {pc[a], "done"}
                             /\ pc[a] = "raised" => pc'[a] = "raised"
                             /\ Reached(a)' => Reached(a)
                             /\ Sound(a)'
  PROVE  MLInv'
<1>1. \A a \in Attempts : (On(a)' => On(a)) /\ (a \in Active' => a \in Active)
  BY DEF On, Active, Ended, Working
<1>2. OnceInv'
  BY <1>1 DEF MLInv, OnceInv
<1>3. \A j \in Jobs : \A status : Backed(j, status) => Backed(j, status)'
  BY DEF Backed
<1>4. BackedInv'
  BY <1>3, MLConstantsAssumption DEF MLInv, BackedInv
<1> QED BY <1>2, <1>4 DEF MLInv

LEMMA InvNext == MLInv /\ [MLNext]_vars => MLInv'
<1> SUFFICES ASSUME MLInv, [MLNext]_vars PROVE MLInv'
  OBVIOUS
<1>0. /\ MLTypeOK /\ MLTypeOK' /\ JobOf \in [Attempts -> Jobs]
      /\ \A a \in Attempts : Sound(a)
  BY NextType, MLConstantsAssumption DEF MLInv
<1> DEFINE Facts(a) == /\ pc'[a] \in {pc[a], "done"}
                       /\ pc[a] = "raised" => pc'[a] = "raised"
                       /\ Reached(a)' => Reached(a)
                       /\ Sound(a)'
<1>1. ASSUME NEW a \in Attempts, Step(a) PROVE MLInv'
  BY <1>1, StepKeepsInv
<1>2. ASSUME UNCHANGED <<ml, record, copy, pc, age, retries, history>> PROVE MLInv'
  <2>1. \A a \in Attempts : Facts(a)
    BY <1>0, <1>2 DEF Sound, StageInv, Justified, Accounted, Expired, Ended, Reached, answers, history
  <2> QED BY <1>0, <1>2, <2>1, InvAround DEF answers, history
<1>3. ASSUME NEW a \in Attempts, Begin(a) PROVE MLInv'
  <2> USE <1>0, <1>3 DEF Begin, MLTypeOK, answers
  <2>1. /\ a \notin Active /\ ~On(a) /\ ~On(a)' /\ pc' = [pc EXCEPT ![a] = "read"]
        /\ \A b \in Attempts \ {a} : On(b)' <=> On(b)
    BY DEF On, Reached, Working, Active, Sound, StageInv
  <2>2. OnceInv'
    <3>1. doubled \subseteq doubled' /\ (JobOf[a] \notin doubled' => \A b \in Active : JobOf[b] # JobOf[a])
      OBVIOUS
    <3>2. \A b \in Attempts : b # a => (b \in Active' <=> b \in Active)
      BY <2>1 DEF Active, Ended
    <3>3. ASSUME NEW b \in Attempts, NEW c \in Attempts,
                 JobOf[b] = JobOf[c], b # c, JobOf[b] \notin doubled'
          PROVE  ~(b \in Active' /\ c \in Active') /\ ~(On(b)' /\ On(c)')
      <4>1. ~(b \in Active /\ c \in Active) /\ ~(On(b) /\ On(c))
        BY <3>1, <3>3 DEF MLInv, OnceInv
      <4> QED BY <2>1, <3>1, <3>2, <3>3, <4>1
    <3>4. ASSUME NEW b \in Attempts, JobOf[b] \notin doubled'
          PROVE  /\ On(b)' => record'[JobOf[b]] # "queued"
                 /\ pc'[b] = "read" => copy'[b] = record'[JobOf[b]]
                 /\ pc'[b] = "claimed" => record'[JobOf[b]] = "queued"
      BY <2>1, <3>1, <3>4 DEF MLInv, OnceInv
    <3> QED BY <3>3, <3>4 DEF OnceInv
  <2>3. BackedInv'
    <3>1. \A j \in Jobs : \A status : Backed(j, status) => Backed(j, status)'
      BY <2>1 DEF Backed
    <3> QED BY <3>1 DEF MLInv, BackedInv
  <2>4. \A b \in Attempts : Sound(b)'
    BY <2>1 DEF Sound, StageInv, Justified, Accounted, Expired, Ended, Reached
  <2> QED BY <2>2, <2>3, <2>4 DEF MLInv
<1>4. ASSUME NEW a \in Attempts, Progress(a) PROVE MLInv'
  <2> USE <1>0, <1>4 DEF Progress, MLTypeOK, attemptVars
  <2>1. \A b \in Attempts : Facts(b)
    BY DEF Sound, StageInv, Justified, Accounted, Expired, Ended, Reached, AtWork
  <2> QED BY <2>1, InvAround
<1>5. ASSUME NEW u \in Urls, ServiceRestarts(u) PROVE MLInv'
  <2> USE <1>0, <1>5 DEF ServiceRestarts, MLTypeOK, attemptVars, answers, history
  <2>1. \A b \in Attempts : Facts(b)
    BY DEF Sound, StageInv, Justified, Accounted, Expired, Ended, Reached, AtWork
  <2> QED BY <2>1, InvAround
<1>6. CASE Crash
  <2> USE <1>0, <1>6 DEF Crash, MLTypeOK, answers
  <2>1. \A b \in Attempts : Facts(b)
    BY DEF Sound, StageInv, Justified, Accounted, Expired, Ended, Reached, AtWork, Active
  <2> QED BY <2>1, InvAround
<1>7. CASE Tick
  <2> USE <1>0, <1>7 DEF Tick, MLTypeOK, answers, history
  <2>1. \A b \in Attempts : Facts(b)
    BY DEF Sound, StageInv, Justified, Accounted, Expired, Ended, Reached
  <2> QED BY <2>1, InvAround
<1>8. CASE Heartbeat \/ UNCHANGED vars \/ \E o \in Urls \cup {None} : SavedByApi(o) \/ SavedByWorker(o)
  BY <1>2, <1>8 DEF Heartbeat, SavedByApi, SavedByWorker, vars, attemptVars, history
<1> QED BY <1>1, <1>3, <1>4, <1>5, <1>6, <1>7, <1>8 DEF MLNext

LEMMA InvAlways == MLSpec => []MLInv
<1> QED BY InvInit, InvNext, PTL DEF MLSpec

-----------------------------------------------------------------------------
(* However often a job is delivered and whatever fails, one attempt of it  *)
(* at most reaches an ML service, as long as no two attempts of it overlap *)
(* (doubled).                                                              *)
THEOREM JobsAreRenderedOnce == MLSpec => []RenderedOnce
<1>1. MLInv => RenderedOnce
  BY MLConstantsAssumption DEF MLInv, MLTypeOK, OnceInv, On, Reached, RenderedOnce
<1> QED BY <1>1, InvAlways, PTL

(* A record is stored as succeeded only with an answer to its own job      *)
(* behind it, also when attempts of the job overlap: a render, or one of   *)
(* the blanks that the code takes for a render.                            *)
THEOREM SuccessWasAnswered == MLSpec => []SucceededWasAnswered
<1>1. MLInv => SucceededWasAnswered
  BY DEF MLInv, BackedInv, Backed, SucceededWasAnswered
<1> QED BY <1>1, InvAlways, PTL

(* Every failure has its reason, for every MAX_RETRIES and every deadline. *)
THEOREM FailuresAreJustified == MLSpec => []FailureIsJustified
<1>1. MLInv => FailureIsJustified
  BY DEF MLInv, Sound, Justified, BackedInv, Backed, FailureIsJustified
<1> QED BY <1>1, InvAlways, PTL

(* No ML job is left running by an attempt that met no fault and was told  *)
(* no status the adapter does not know.                                    *)
THEOREM OrphansNeedACause == MLSpec => []OrphanNeedsACause
<1>1. MLInv => OrphanNeedsACause
  BY DEF MLInv, Sound, Accounted, OrphanNeedsACause
<1> QED BY <1>1, InvAlways, PTL

-----------------------------------------------------------------------------
(* A report sets the published address right, or leaves it alone: only the *)
(* probe of an attempt for another address can mislabel it.                *)
LEMMA MislabelStep ==
  ASSUME MLTypeOK, [MLNext]_vars, shown.probed = shown.url, shown'.probed # shown'.url
  PROVE  \E a \in Attempts : pc[a] = "probe" /\ pc'[a] = "submit" /\ url[a] = shown'.probed
<1> USE DEF MLTypeOK
<1>0. shown \in Published /\ override \in Address /\ \A a \in Attempts : url[a] \in Address
  BY DEF Published, Address
<1>1. ~Report /\ shown' # shown
  BY <1>0, ReportType
<1>2. ASSUME NEW a \in Attempts, Step(a)
      PROVE  pc[a] = "probe" /\ pc'[a] = "submit" /\ url[a] = shown'.probed
  <2>1. CASE Probe(a)
    <3>1. PICK fails \in BOOLEAN :
            \/ \E md \in Probed(url[a], fails) :
                  shown' = Refreshed(shown, a, md) /\ pc' = [pc EXCEPT ![a] = "submit"]
            \/ Fail(a)
      BY <2>1 DEF Probe
    <3>2. ~Fail(a)
      BY <1>1 DEF Fail, Raise
    <3> QED BY <1>0, <2>1, <3>1, <3>2, RefreshedType DEF Probe
  <2>2. ~(Claim(a) \/ Start(a) \/ ClaimRaises(a) \/ WorkRaises(a) \/ Submit(a) \/ SubmitRefused(a) \/ SubmitFails(a) \/ Poll(a) \/ PollTimesOut(a)
          \/ PollRejected(a) \/ PollExpires(a) \/ Store(a))
    BY <1>1 DEF Claim, Start, ClaimRaises, WorkRaises, Submit, SubmitRefused, SubmitFails, Poll, PollTimesOut, PollRejected, PollExpires,
                Store, Fail, Raise
  <2> QED BY <1>2, <2>1, <2>2 DEF Step
<1>3. ~Heartbeat /\ ~Crash /\ ~Tick /\ ~UNCHANGED vars
  BY <1>1 DEF Heartbeat, Crash, Tick, vars
<1>4. ASSUME NEW o \in Urls \cup {None} PROVE ~SavedByApi(o) /\ ~SavedByWorker(o)
  BY <1>0, <1>1, SyncedType DEF SavedByApi, SavedByWorker, Address
<1>5. ASSUME NEW u \in Urls PROVE ~ServiceRestarts(u)
  BY <1>1 DEF ServiceRestarts
<1>6. ASSUME NEW a \in Attempts PROVE ~Begin(a) /\ ~Progress(a)
  BY <1>1 DEF Begin, Progress
<1> QED BY <1>2, <1>3, <1>4, <1>5, <1>6 DEF MLNext

(* The published capabilities belong to the published address, until an    *)
(* attempt that was begun before a switch probes after it.                 *)
THEOREM OnlyOldAttemptsMislabel == MLSpec => MislabelledByOldAttempt
<1>1. MLTypeOK /\ [MLNext]_vars =>
        [shown.probed = shown.url /\ shown'.probed # shown'.url =>
          \E a \in Attempts : pc[a] = "probe" /\ pc'[a] = "submit" /\ url[a] = shown'.probed]_vars
  BY MislabelStep
<1> QED BY <1>1, MLTypeCorrect, PTL DEF MLSpec, MislabelledByOldAttempt

=============================================================================
