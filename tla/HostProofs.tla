---------------------------- MODULE HostProofs ----------------------------
(* The application on one host, for any number of jobs, slots, commands,   *)
(* polls under way and faults: every step of the composition is a step of  *)
(* the control plane, of the stores or of the page, or, when the worker's  *)
(* process ends, of two of them at once.                                   *)
EXTENDS LocalHost, ActionsProofs, StoreProofs

HostOK == ActionsOK /\ StoresOK /\ PageTypeOK

-----------------------------------------------------------------------------
(* The page *)

LEMMA PageStutter == ASSUME PageTypeOK, UNCHANGED pageVars PROVE PageTypeOK'
BY DEF PageTypeOK, pageVars

LEMMA SetJobType ==
  ASSUME NEW status \in JobStatus, SetJob(status)
  PROVE  shown' \in JobStatus \cup {"nothing"} /\ polling' \in BOOLEAN /\ mine' \in [Calls -> BOOLEAN]
BY DEF SetJob, isJobStillProcessing

LEMMA AnswerType == ASSUME LocalTypeOK PROVE Answer(Watched) \in JobStatus \cup {"error"}
BY HostConstantsAssumption DEF LocalTypeOK, Answer, JobStatus, Ended

LEMMA PagePollsKeeps ==
  ASSUME LocalTypeOK, PageTypeOK, NEW c \in Calls, PagePolls(c)
  PROVE  PageTypeOK'
<1>1. CASE PollSent(c)
  BY <1>1 DEF PollSent, PageTypeOK
<1>2. CASE PollServed(c, Answer(Watched))
  BY <1>2, AnswerType DEF PollServed, PageTypeOK
<1>3. CASE PollReturns(c)
  <2>1. CASE call[c] = "error"
    BY <1>3, <2>1 DEF PollReturns, PageTypeOK
  <2>2. CASE call[c] # "error"
    <3>1. call[c] \in JobStatus /\ SetJob(call[c])
      BY <1>3, <2>2 DEF PollReturns, PageTypeOK
    <3> QED BY <1>3, <2>2, <3>1, SetJobType DEF PollReturns, PageTypeOK
  <2> QED BY <2>1, <2>2
<1> QED BY <1>1, <1>2, <1>3 DEF PagePolls

LEMMA PageSubmitsKeeps ==
  ASSUME StoresOK, PageTypeOK, PageSubmits
  PROVE  StoresOK' /\ PageTypeOK'
<1>1. StoresOK'
  <2> USE DEF PageSubmits, apiVars, recordVars, operatorVars, workerVars
  <2>1. LocalTypeOK'
    BY SpendType DEF StoresOK, LocalTypeOK
  <2>2. \A j \in Jobs : AttemptPen(j)' = AttemptPen(j)
    BY DEF AttemptPen
  <2>3. StoreInv'
    BY <2>2 DEF StoresOK, StoreInv, CreationInv, ClaimInv, LifeInv, PenInv
  <2> QED BY <2>1, <2>3 DEF StoresOK
<1>2. Answer(Watched) \in JobStatus /\ SetJob(Answer(Watched))
  BY AnswerType DEF StoresOK, PageSubmits, Submitted
<1>3. PageTypeOK'
  BY <1>2, SetJobType DEF PageSubmits, Submitted, PageTypeOK
<1> QED BY <1>1, <1>3

-----------------------------------------------------------------------------
(* The invariant of the composition *)

LEMMA HostInitOK == ASSUME HostInit PROVE HostOK
<1>1. PICK s \in Scenarios : ActionsInit(s.control) /\ LocalInit(s.local)
  BY DEF HostInit
<1>2. /\ s.control \in [Kinds \cup Mishaps -> Nat]
      /\ s.local \in [{"jobs", "page", "api", "operator"} -> Nat]
  BY HostConstantsAssumption
<1>3. PageTypeOK
  BY DEF HostInit, PageInit, PageTypeOK, JobStatus
<1> QED BY <1>1, <1>2, <1>3, ActionsInitOK, StoresInit DEF HostOK

LEMMA HostStepOK == ASSUME HostOK, [HostNext]_vars PROVE HostOK'
<1> USE DEF HostOK
<1>1. CASE ControlRuns
  BY <1>1, ProcessStaysKeeps, StoresStutter, PageStutter DEF ControlRuns
<1>2. CASE ProcessReplaced
  BY <1>2, ProcessStopsKeeps, ProcessLostKeeps, PageStutter DEF ProcessReplaced
<1>3. CASE WorkerRuns
  BY <1>3, ActionsStutter, WorkerStepKeeps, PageStutter DEF WorkerRuns
<1>4. CASE ApiRuns
  <2>1. StoresOK'
    BY <1>4, ApiStepKeeps, OperatorStepKeeps DEF ApiRuns
  <2> QED BY <1>4, <2>1, ActionsStutter, PageStutter DEF ApiRuns
<1>5. CASE PageSubmits
  BY <1>5, PageSubmitsKeeps, ActionsStutter DEF PageSubmits
<1>6. CASE (\E c \in Calls : PagePolls(c)) /\ UNCHANGED <<actionVars, storeVars>>
  BY <1>6, PagePollsKeeps, ActionsStutter, StoresStutter DEF StoresOK
<1>7. CASE UNCHANGED vars
  BY <1>7, ActionsStutter, StoresStutter, PageStutter DEF vars
<1>8. CASE ApiEnds
  BY <1>8, ApiDiesKeeps, AskLostKeeps, PageStutter DEF ApiEnds
<1> QED BY <1>1, <1>2, <1>3, <1>4, <1>5, <1>6, <1>7, <1>8 DEF HostNext, PageRuns

LEMMA HostInvariant == HostSpec => []HostOK
<1>1. HostInit => HostOK
  BY HostInitOK
<1>2. HostOK /\ [HostNext]_vars => HostOK'
  BY HostStepOK
<1> QED BY <1>1, <1>2, PTL DEF HostSpec

-----------------------------------------------------------------------------
(* Every variable of the host keeps its type. *)
THEOREM HostTypeCorrect == HostSpec => []HostTypeOK
<1>1. HostOK => HostTypeOK
  BY DEF HostOK, ActionsOK, StoresOK, HostTypeOK
<1> QED BY <1>1, HostInvariant, PTL

(* A command the operator got an answer for stays in the action list, in a *)
(* file that can be read or is being filled, unless FileWorkerActionStore  *)
(* writes a list over a newer one or is cut off in the middle of a write.  *)
THEOREM AcceptedCommandsKept == HostSpec => []AcceptedIsKept
<1>1. HostOK => AcceptedIsKept
  BY ActionsInvSuffices DEF HostOK
<1> QED BY <1>1, HostInvariant, PTL

(* WorkerControlLoop executes no command twice, whatever restarts or       *)
(* crashes in between, unless a list is written over a newer one.          *)
THEOREM CommandsTakeEffectOnce == HostSpec => []TakesEffectOnce
<1>1. HostOK => TakesEffectOnce
  BY ActionsInvSuffices DEF HostOK
<1> QED BY <1>1, HostInvariant, PTL

(* A command is left as running only by whoever was stopped at it; every   *)
(* failure the control loop survives is recorded.                          *)
THEOREM StuckCommandsForsaken == HostSpec => []StuckWasForsaken
<1>1. HostOK => StuckWasForsaken
  BY ActionsInvSuffices DEF HostOK
<1> QED BY <1>1, HostInvariant, PTL

(* A message the worker has claimed has its asset and its record, however  *)
(* the API's writes are interleaved with the worker's or cut short.        *)
THEOREM DeliveriesAreReady == HostSpec => []DeliveredIsReady
<1>1. HostOK => DeliveredIsReady
  BY StoreInvSuffices DEF HostOK
<1> QED BY <1>1, HostInvariant, PTL

(* FileJobQueue gives a message up only when its job has ended or is gone. *)
THEOREM AcknowledgedJobsEnded == HostSpec => []AcknowledgedHasEnded
<1>1. HostOK => AcknowledgedHasEnded
  BY StoreInvSuffices DEF HostOK
<1> QED BY <1>1, HostInvariant, PTL

(* A .claimed file without an attempt was left by a process that ended or  *)
(* a thread that died.                                                     *)
THEOREM StrandedMessagesCutOff == HostSpec => []StrandedWasCutOff
<1>1. HostOK => StrandedWasCutOff
  BY StoreInvSuffices DEF HostOK
<1> QED BY <1>1, HostInvariant, PTL

-----------------------------------------------------------------------------
(* A finished command is not reopened: only a lost update does it, or the  *)
(* record of a launch whose helper was faster.                             *)
THEOREM FinishedCommandsStay == HostSpec => FinishedStaysFinished
<1> DEFINE Stays == \A c \in Commands :
                      items[c] \in Final /\ items'[c] \notin Final =>
                          clobbered' \/ (stage = "launch" /\ doing = c)
<1>1. HostOK /\ [HostNext]_vars => [Stays]_actionVars
  <2> SUFFICES ASSUME HostOK, [HostNext]_vars, ~UNCHANGED actionVars PROVE Stays
    OBVIOUS
  <2>1. ActionsNext \/ UNCHANGED items
    BY DEF HostNext, ControlRuns, ProcessReplaced, WorkerRuns, ApiRuns, ApiEnds, AskLost, LetGo, PageRuns,
           PageSubmits, ActionsNext, vars
  <2>2. clobbered' \in BOOLEAN
    BY HostStepOK DEF HostOK, ActionsOK, ActionsTypeOK
  <2> QED BY <2>1, <2>2, FinishedStays DEF HostOK
<1> QED BY <1>1, HostInvariant, PTL DEF HostSpec, FinishedStaysFinished

-----------------------------------------------------------------------------
(* Refinement *)

LEMMA HostLifecycleInit == HostInit => Lifecycle!Init
<1> SUFFICES ASSUME HostInit PROVE Lifecycle!Init
  OBVIOUS
<1>1. \A j \in Jobs : record[j] = "none" /\ j \notin deleted \cup marked /\ message[j] # "gone"
  BY DEF HostInit, LocalInit
<1> QED BY <1>1 DEF Lifecycle!Init

(* The life of one job goes on. *)
LEMMA ProgressIsAStep ==
  ASSUME LocalTypeOK, LocalTypeOK', NEW j \in Jobs, Progresses(j)
  PROVE  [Lifecycle!Next]_(Lifecycle!vars)
<1> DEFINE phase == [i \in Jobs |-> IF i \in deleted \cup marked THEN "withdrawn"
                                    ELSE IF record[i] = "none" THEN "absent" ELSE record[i]]
           newPhase == [i \in Jobs |-> IF i \in deleted' \cup marked' THEN "withdrawn"
                                       ELSE IF record'[i] = "none" THEN "absent" ELSE record'[i]]
           settled == [i \in Jobs |-> message[i] = "gone"]
           newSettled == [i \in Jobs |-> message'[i] = "gone"]
<1>1. newSettled = settled
  BY DEF Progresses
<1>2. newPhase = [phase EXCEPT ![j] = newPhase[j]]
  BY DEF Progresses, Withdrawn
<1>3. phase[j] \in Lifecycle!Phase
  BY DEF LocalTypeOK, Ended, Lifecycle!Phase
<1>4. CASE newPhase[j] = phase[j]
  <2>1. newPhase = phase
    BY <1>2, <1>4
  <2> QED BY <1>1, <2>1 DEF Lifecycle!vars
<1>5. CASE phase[j] # "absent" /\ newPhase[j] = "withdrawn"
  <2>1. Lifecycle!Withdraw(j)
    BY <1>1, <1>2, <1>3, <1>5 DEF Lifecycle!Withdraw, Lifecycle!Move
  <2> QED BY <2>1 DEF Lifecycle!Next
<1>6. CASE phase[j] = "absent" /\ newPhase[j] = "queued"
  <2>1. Lifecycle!Accept(j)
    BY <1>1, <1>2, <1>6 DEF Lifecycle!Accept, Lifecycle!Move
  <2> QED BY <2>1 DEF Lifecycle!Next
<1>7. CASE phase[j] = "queued" /\ newPhase[j] = "running"
  <2>1. Lifecycle!Begin(j)
    BY <1>1, <1>2, <1>7 DEF Lifecycle!Begin, Lifecycle!Move
  <2> QED BY <2>1 DEF Lifecycle!Next
<1>8. CASE phase[j] = "running" /\ newPhase[j] \in Ended
  <2>1. Lifecycle!Succeed(j) \/ Lifecycle!Fail(j)
    BY <1>1, <1>2, <1>8 DEF Lifecycle!Succeed, Lifecycle!Fail, Lifecycle!Move, Ended
  <2> QED BY <2>1 DEF Lifecycle!Next
<1>9. \/ newPhase[j] = phase[j]
      \/ phase[j] # "absent" /\ newPhase[j] = "withdrawn"
      \/ phase[j] = "absent" /\ newPhase[j] = "queued"
      \/ phase[j] = "queued" /\ newPhase[j] = "running"
      \/ phase[j] = "running" /\ newPhase[j] \in Ended
  BY DEF Progresses, Withdrawn, Advances, Ended, LocalTypeOK
<1> QED BY <1>4, <1>5, <1>6, <1>7, <1>8, <1>9

(* Several messages are given up, each of a job that is over. *)
LEMMA SettlingIsAStep ==
  ASSUME Settles
  PROVE  [Lifecycle!Next]_(Lifecycle!vars)
<1>1. PICK done \in SUBSET Jobs : done = {j \in Jobs : message'[j] = "gone" /\ message[j] # "gone"}
  OBVIOUS
<1>2. done \in SUBSET Lifecycle!Over
  BY <1>1 DEF Settles, Withdrawn, Ended, Lifecycle!Over
<1>3. \A j \in Jobs : (message'[j] = "gone") = (message[j] = "gone" \/ j \in done)
  BY <1>1 DEF Settles
<1>4. Lifecycle!Settle(done)
  BY <1>2, <1>3 DEF Lifecycle!Settle, Settles
<1> QED BY <1>2, <1>4 DEF Lifecycle!Next

LEMMA HostLifecycleNext ==
  ASSUME HostOK, HostOK', [HostNext]_vars
  PROVE  [Lifecycle!Next]_(Lifecycle!vars)
<1>1. LocalTypeOK /\ LocalTypeOK' /\ StoresOK
  BY DEF HostOK, StoresOK
<1>2. CASE UNCHANGED <<record, message, deleted, marked>>
  BY <1>2, SettlingIsAStep DEF Settles
<1>3. CASE WorkerRuns
  BY <1>1, <1>3, AttemptMoves, LoopStepMoves, ProgressIsAStep, SettlingIsAStep DEF WorkerRuns, WorkerStep
<1>4. CASE ApiRuns
  BY <1>1, <1>4, ApiStepMoves, ProgressIsAStep DEF ApiRuns
<1>5. CASE ControlRuns \/ ProcessReplaced \/ PageRuns \/ UNCHANGED vars
  BY <1>2, <1>5 DEF ControlRuns, ProcessReplaced, ProcessLost, PageRuns, PageSubmits, recordVars, operatorVars,
                    storeVars, vars
<1>6. CASE ApiEnds
  BY <1>2, <1>6 DEF ApiEnds, ApiDies
<1> QED BY <1>3, <1>4, <1>5, <1>6 DEF HostNext

(* The file backend keeps the promised lifecycle: a job that nobody has    *)
(* deleted or marked failed is accepted, begun and ended once, through     *)
(* every replacement of the worker's process and every half-written file,  *)
(* and FileJobQueue and WorkerLoop give its message up only afterwards.    *)
THEOREM HostImplementsLifecycle == HostSpec => HostLifecycle
<1>1. HostInit => Lifecycle!Init
  BY HostLifecycleInit
<1>2. HostOK /\ HostOK' /\ [HostNext]_vars => [Lifecycle!Next]_(Lifecycle!vars)
  BY HostLifecycleNext
<1> QED BY <1>1, <1>2, HostInvariant, PTL DEF HostSpec, HostLifecycle, Lifecycle!Spec
=============================================================================
