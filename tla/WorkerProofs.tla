---------------------------- MODULE WorkerProofs ----------------------------
(* What holds of the worker's published state, for any number of jobs,     *)
(* slots and disturbances.                                                 *)
EXTENDS WorkerRuntime, TLAPS

USE DEF Disturbance

(* Agrees(st): the status of st is the one its list calls for. *)
Agrees(st) == st.status = "processing" <=> st.listed # {}

(* What each report makes of a state and of its list. *)
LEMMA Reports ==
  ASSUME NEW st \in State, NEW j \in Jobs, NEW ok \in BOOLEAN
  PROVE  /\ Booted(st) \in State /\ Booted(st).listed = st.listed
         /\ Rested(st) \in State /\ Rested(st).listed = st.listed
         /\ Probed(st, ok) \in State /\ Probed(st, ok).listed = st.listed
         /\ InFlight(st, j) \in State /\ InFlight(st, j).listed = st.listed \cup {j}
         /\ Finished(st, j) \in State /\ Finished(st, j).listed = st.listed \ {j}
         /\ FailedState(st, j) \in State /\ FailedState(st, j).listed = st.listed \ {j}
BY DEF State, Booted, Rested, Probed, InFlight, Finished, FailedState

LEMMA ReportsAgree ==
  ASSUME NEW st \in State, Agrees(st), NEW j \in Jobs, NEW ok \in BOOLEAN
  PROVE  /\ Agrees(Booted(st))
         /\ Agrees(Rested(st))
         /\ Agrees(Probed(st, ok))
         /\ Agrees(InFlight(st, j))
         /\ Agrees(Finished(st, j))
         /\ Agrees(FailedState(st, j))
BY DEF State, Agrees, Booted, Rested, Probed, InFlight, Finished, FailedState

(* A busy slot holds the delivery of a job. *)
LEMMA BusyHolds ==
  ASSUME WorkerTypeOK, NEW s \in Slots, attempt[s] # "free"
  PROVE  delivery[s] \in Jobs
BY DEF WorkerTypeOK

-----------------------------------------------------------------------------
(* Types, one group of variables after the other *)

LEMMA TypeInit == Init => WorkerTypeOK
<1> SUFFICES ASSUME Init PROVE WorkerTypeOK
  OBVIOUS
<1>1. NewState \in State
  BY DEF NewState, State
<1>2. \A s \in Slots : attempt[s] = "free" <=> delivery[s] = NoJob
  BY DEF Init
<1>3. /\ delivery \in [Slots -> Jobs \cup {NoJob}]
      /\ attempt \in [Slots -> {"free"}]
      /\ record \in [Jobs -> {"absent"}]
      /\ message \in [Jobs -> {"none"}]
  BY DEF Init
<1>4. troubles \in 0..Troubles
  BY WorkerConstantsAssumption DEF Init
<1>5. loop = "boot" /\ batch = {} /\ processed = FALSE /\ memory = NewState /\ stored = NewState
      /\ seen = {} /\ abandoned = {} /\ doubled = {} /\ revived = {} /\ dropped = {}
  BY DEF Init
<1>6. /\ attempt \in [Slots -> {"free", "early", "probe", "submit", "poll", "finished",
                                "except", "emit", "returned", "raised", "reported"}]
      /\ record \in [Jobs -> {"absent", "queued", "running", "ended"}]
      /\ message \in [Jobs -> {"none", "visible", "taken", "gone"}]
  BY <1>3
<1>7. helper \in [Helpers -> {"none", "reading", "writing"}] /\ copy \in [Helpers -> State]
  BY <1>1 DEF Init
<1> QED BY <1>1, <1>2, <1>3, <1>4, <1>5, <1>6, <1>7 DEF WorkerTypeOK

(* What a step does to the update helpers, and they to the history.        *)
LEMMA HelperStep ==
  ASSUME WorkerTypeOK, [Next]_vars
  PROVE  /\ helper' \in [Helpers -> {"none", "reading", "writing"}]
         /\ copy' \in [Helpers -> State]
         /\ revived' \subseteq Jobs /\ dropped' \subseteq Jobs
         /\ revived \subseteq revived' /\ dropped \subseteq dropped'
         /\ \A h \in Helpers : copy'[h] \in {copy[h], stored, NewState}
<1> USE DEF WorkerTypeOK
<1>0. NewState \in State
  BY DEF NewState, State
<1>1. CASE UNCHANGED helpers
  BY <1>1 DEF helpers
<1>2. ASSUME NEW h \in Helpers, HelperUpdates(h) PROVE UNCHANGED <<copy, revived, dropped>>
                                                       /\ helper' = [helper EXCEPT ![h] = "reading"]
  BY <1>2 DEF HelperUpdates
<1>3. ASSUME NEW h \in Helpers, HelperReads(h)
      PROVE  /\ UNCHANGED <<revived, dropped>>
             /\ helper' = [helper EXCEPT ![h] = "writing"]
             /\ copy' = [copy EXCEPT ![h] = stored]
  BY <1>3 DEF HelperReads
<1>4. ASSUME NEW h \in Helpers, HelperWrites(h)
      PROVE  /\ revived \subseteq revived' /\ dropped \subseteq dropped'
             /\ revived' \subseteq Jobs /\ dropped' \subseteq Jobs
             /\ helper' = [helper EXCEPT ![h] = "none"]
             /\ copy' = [copy EXCEPT ![h] = NewState]
  <2>1. copy[h].listed \subseteq Jobs /\ stored.listed \subseteq Jobs
    BY DEF State
  <2> QED BY <1>4, <2>1 DEF HelperWrites
<1>5. CASE \E s \in Slots : Ack(s) \/ Nack(s) \/ ReportFailure(s) \/ Receive(s) \/ Proceed(s) \/ Poll(s)
  BY <1>1, <1>5 DEF Ack, Nack, ReportFailure, Receive, LoopDies, Proceed, Begin, Probe, Submit, Poll,
                    WorkRaises, Complete, EmitFinished, Except, EmitFailed, Observe, history
<1>6. CASE \/ Boot \/ Drain \/ EndDrain \/ EndReceive \/ ReceiveRaises \/ Heartbeat \/ DiagnosticProbe
           \/ ActionReported \/ DiagnosisReads \/ DiagnosisAnswers \/ Crash
           \/ (\E j \in Jobs : Publish(j) \/ VisibilityExpires(j)) \/ UNCHANGED vars
  <2>1. UNCHANGED helpers
    BY <1>6 DEF Boot, Drain, EndDrain, EndReceive, ReceiveRaises, Heartbeat, DiagnosticProbe,
                ActionReported, DiagnosisReads, DiagnosisAnswers, Crash, Publish, VisibilityExpires,
                vars, history, helpers
  <2> QED BY <1>1, <2>1
<1>7. ASSUME NEW h \in Helpers, HelperUpdates(h) \/ HelperReads(h) \/ HelperWrites(h)
      PROVE  /\ helper' \in [Helpers -> {"none", "reading", "writing"}]
             /\ copy' \in [Helpers -> State]
             /\ revived' \subseteq Jobs /\ dropped' \subseteq Jobs
             /\ revived \subseteq revived' /\ dropped \subseteq dropped'
             /\ \A i \in Helpers : copy'[i] \in {copy[i], stored, NewState}
  BY <1>7, <1>0, <1>2, <1>3, <1>4
<1>8. (\E h \in Helpers : HelperUpdates(h) \/ HelperReads(h) \/ HelperWrites(h)) \/ ~Next
      \/ LoopThread \/ (\E s \in Slots : Proceed(s) \/ Poll(s)) \/ DiagnosticProbe \/ ActionReported
      \/ DiagnosisReads \/ DiagnosisAnswers \/ Crash
      \/ (\E j \in Jobs : Publish(j) \/ VisibilityExpires(j))
  BY DEF Next
<1> QED BY <1>5, <1>6, <1>7, <1>8 DEF LoopThread

(* The worker state changes only by a report, or is reloaded. *)
LEMMA ServiceStep ==
  ASSUME WorkerTypeOK, [Next]_vars
  PROVE  \/ UNCHANGED service
         \/ memory' = stored /\ UNCHANGED stored
         \/ UNCHANGED memory /\ \E h \in Helpers : stored' = copy[h]
         \/ \E st \in State :
              /\ memory' = st /\ stored' \in {stored, st}
              /\ Agrees(memory) => Agrees(st)
<1> USE DEF WorkerTypeOK
<1> DEFINE Goal == \/ UNCHANGED service
                   \/ memory' = stored /\ UNCHANGED stored
                   \/ UNCHANGED memory /\ \E h \in Helpers : stored' = copy[h]
                   \/ \E st \in State :
                        /\ memory' = st /\ stored' \in {stored, st}
                        /\ Agrees(memory) => Agrees(st)
<1>1. ASSUME NEW st \in State, Agrees(memory) => Agrees(st), Report(st) \/ ReportRaises(st)
      PROVE  Goal
  BY <1>1 DEF Report, ReportRaises
<1>2. CASE Boot
  <2>1. Report(Booted(memory)) \/ ReportRaises(Booted(memory))
    BY <1>2 DEF Boot
  <2> QED BY <2>1, <1>1, BusyHolds, Reports, ReportsAgree DEF Agrees, Booted, State
<1>3. CASE Heartbeat
  <2>1. Report(Rested(memory)) \/ ReportRaises(Rested(memory)) \/ UNCHANGED service
    BY <1>3 DEF Heartbeat, service
  <2>2. Rested(memory) \in State /\ (Agrees(memory) => Agrees(Rested(memory)))
    BY DEF Agrees, Rested, State
  <2> QED BY <2>1, <2>2, <1>1
<1>4. ASSUME NEW s \in Slots, ReportFailure(s) \/ EmitFailed(s) PROVE Goal
  <2>1. delivery[s] \in Jobs
    BY <1>4, BusyHolds DEF ReportFailure, EmitFailed
  <2>2. \/ Report(FailedState(memory, delivery[s]))
        \/ ReportRaises(FailedState(memory, delivery[s]))
    BY <1>4 DEF ReportFailure, EmitFailed, Observe
  <2> QED BY <2>1, <2>2, <1>1, Reports, ReportsAgree
<1>5. ASSUME NEW s \in Slots, EmitFinished(s) PROVE Goal
  <2>1. delivery[s] \in Jobs
    BY <1>5, BusyHolds DEF EmitFinished
  <2>2. \/ Report(Finished(memory, delivery[s]))
        \/ ReportRaises(Finished(memory, delivery[s]))
    BY <1>5 DEF EmitFinished, Observe
  <2> QED BY <2>1, <2>2, <1>1, Reports, ReportsAgree
<1>6. ASSUME NEW s \in Slots, Submit(s) \/ Poll(s) PROVE Goal
  <2>1. delivery[s] \in Jobs
    BY <1>6, BusyHolds DEF Submit, Poll
  <2>2. \/ Report(InFlight(memory, delivery[s]))
        \/ ReportRaises(InFlight(memory, delivery[s]))
    BY <1>6 DEF Submit, Poll, Observe
  <2> QED BY <2>1, <2>2, <1>1, Reports, ReportsAgree
<1>7. ASSUME NEW s \in Slots, Probe(s) PROVE Goal
  BY <1>7, <1>1 DEF Probe, Observe
<1>8. CASE DiagnosticProbe
  <2>1. PICK ok \in BOOLEAN : Report(Probed(memory, ok)) \/ ReportRaises(Probed(memory, ok))
    BY <1>8 DEF DiagnosticProbe
  <2>2. Probed(memory, ok) \in State /\ (Agrees(memory) => Agrees(Probed(memory, ok)))
    BY DEF Agrees, Probed, State
  <2> QED BY <2>1, <2>2, <1>1
<1>9. CASE Crash
  BY <1>9 DEF Crash, Restarted
<1>10. CASE UNCHANGED vars
  BY <1>10 DEF vars, service
<1>11. CASE Drain \/ EndDrain \/ EndReceive \/ ReceiveRaises \/ DiagnosisReads \/ DiagnosisAnswers
  BY <1>11 DEF Drain, EndDrain, EndReceive, ReceiveRaises, DiagnosisReads, DiagnosisAnswers, service
<1>12. ASSUME NEW s \in Slots,
              Ack(s) \/ Nack(s) \/ Receive(s) \/ Begin(s) \/ WorkRaises(s) \/ Complete(s) \/ Except(s)
       PROVE  Goal
  BY <1>12 DEF Ack, Nack, Receive, Begin, WorkRaises, Complete, Except, service
<1>13. ASSUME NEW j \in Jobs, Publish(j) \/ VisibilityExpires(j) PROVE Goal
  BY <1>13 DEF Publish, VisibilityExpires, service
<1>14. CASE ActionReported
  BY <1>14, <1>1 DEF ActionReported
<1>15. ASSUME NEW h \in Helpers, HelperUpdates(h) \/ HelperReads(h) \/ HelperWrites(h) PROVE Goal
  BY <1>15 DEF HelperUpdates, HelperReads, HelperWrites, Restarted, service
<1> QED
  BY <1>2, <1>3, <1>4, <1>5, <1>6, <1>7, <1>8, <1>9, <1>10, <1>11, <1>12, <1>13, <1>14, <1>15
     DEF Next, LoopThread, Proceed

LEMMA TypeNext == WorkerTypeOK /\ [Next]_vars => WorkerTypeOK'
<1> SUFFICES ASSUME WorkerTypeOK, [Next]_vars PROVE WorkerTypeOK'
  OBVIOUS
<1> USE DEF WorkerTypeOK
<1>1. /\ memory' \in State /\ stored' \in State
      /\ helper' \in [Helpers -> {"none", "reading", "writing"}] /\ copy' \in [Helpers -> State]
      /\ revived' \subseteq Jobs /\ dropped' \subseteq Jobs
  BY ServiceStep, HelperStep DEF service
<1>2. ASSUME NEW d, Spend(d) PROVE troubles' \in 0..Troubles
  BY <1>2, WorkerConstantsAssumption DEF Spend
<1>3. ASSUME NEW st, ReportRaises(st) PROVE troubles' \in 0..Troubles
  BY <1>3, <1>2 DEF ReportRaises
<1>4. ASSUME NEW s \in Slots, attempt[s] # "free", Popped(s)
      PROVE  /\ delivery' \in [Slots -> Jobs \cup {NoJob}] /\ batch' \subseteq Slots
             /\ attempt' \in [Slots -> {"free", "early", "probe", "submit", "poll", "finished",
                                       "except", "emit", "returned", "raised", "reported"}]
             /\ \A t \in Slots : attempt'[t] = "free" <=> delivery'[t] = NoJob
  BY <1>4 DEF Popped
<1>5. ASSUME NEW s \in Slots, attempt[s] # "free", NEW fate \in {"visible", "gone"}, Settled(s, fate)
      PROVE  message' \in [Jobs -> {"none", "visible", "taken", "gone"}]
  BY <1>5 DEF Settled
<1>6. ASSUME NEW s \in Slots, attempt[s] # "free", LoopDies(s)
      PROVE  loop' = "dead" /\ abandoned' \subseteq Jobs /\ doubled' = doubled /\ processed' = processed
  BY <1>6, WorkerConstantsAssumption DEF LoopDies
<1>7. CASE Boot
  BY <1>7, <1>1, <1>3 DEF Boot, LoopGoto, slots, history
<1>8. CASE Drain
  BY <1>8, <1>1 DEF Drain, Done, slots, history
<1>9. CASE EndDrain
  BY <1>9, <1>1 DEF EndDrain, LoopGoto, slots, history
<1>10. CASE EndReceive
  BY <1>10, <1>1 DEF EndReceive, LoopGoto, slots, history
<1>11. CASE ReceiveRaises
  <2>1. message' \in [Jobs -> {"none", "visible", "taken", "gone"}]
    BY <1>11 DEF ReceiveRaises
  <2> QED BY <1>11, <2>1, <1>1, <1>2 DEF ReceiveRaises, LoopGoto, slots, history
<1>12. CASE Heartbeat
  BY <1>12, <1>1, <1>3 DEF Heartbeat, LoopGoto, slots, history
<1>13. ASSUME NEW s \in Slots, Ack(s) \/ Nack(s) PROVE WorkerTypeOK'
  <2>1. attempt[s] # "free"
    BY <1>13 DEF Ack, Nack
  <2>2. Popped(s)
    BY <1>13 DEF Ack, Nack, LoopDies
  <2>3. message' \in [Jobs -> {"none", "visible", "taken", "gone"}]
    BY <1>13, <2>1, <1>5 DEF Ack, Nack
  <2>4. \/ loop' = loop /\ UNCHANGED history /\ processed' = processed /\ troubles' = troubles
        \/ Spend("queue") /\ LoopDies(s)
    BY <1>13 DEF Ack, Nack
  <2>5. record' = record /\ seen' = seen
    BY <1>13 DEF Ack, Nack
  <2> QED BY <2>1, <2>2, <2>3, <2>4, <2>5, <1>1, <1>2, <1>4, <1>6 DEF history
<1>14. ASSUME NEW s \in Slots, ReportFailure(s) PROVE WorkerTypeOK'
  <2>1. attempt[s] # "free"
    BY <1>14 DEF ReportFailure
  <2>2. record' = record /\ seen' = seen
    BY <1>14 DEF ReportFailure
  <2>3. CASE /\ attempt' = [attempt EXCEPT ![s] = "reported"]
             /\ UNCHANGED <<loopVars, delivery, message, history, troubles>>
    BY <2>1, <2>2, <2>3, <1>1 DEF loopVars, history
  <2>4. CASE /\ ReportRaises(FailedState(memory, delivery[s]))
             /\ LoopDies(s) /\ UNCHANGED message
    <3>1. Popped(s)
      BY <2>4 DEF LoopDies
    <3> QED BY <2>1, <2>2, <2>4, <3>1, <1>1, <1>3, <1>4, <1>6
  <2> QED BY <1>14, <2>3, <2>4 DEF ReportFailure
<1>15. ASSUME NEW s \in Slots, Receive(s) PROVE WorkerTypeOK'
  BY <1>15, <1>1, WorkerConstantsAssumption DEF Receive, Busy, history
<1>16. ASSUME NEW s \in Slots, Begin(s) PROVE WorkerTypeOK'
  <2>1. delivery[s] \in Jobs /\ attempt[s] # "free"
    BY <1>16, BusyHolds DEF Begin
  <2>2. record' \in [Jobs -> {"absent", "queued", "running", "ended"}]
    BY <1>16, <2>1 DEF Begin, Stored
  <2>3. \E place \in {"returned", "raised", "probe"} : Goto(s, place)
    BY <1>16 DEF Begin
  <2>4. troubles' \in 0..Troubles
    BY <1>16, <1>2 DEF Begin
  <2> QED BY <1>16, <2>1, <2>2, <2>3, <2>4, <1>1 DEF Begin, Goto, loopVars, history
<1>17. ASSUME NEW s \in Slots, Probe(s) \/ Submit(s) \/ Poll(s) \/ EmitFinished(s) \/ EmitFailed(s)
       PROVE  WorkerTypeOK'
  <2>1. attempt[s] # "free"
    BY <1>17 DEF Probe, Submit, Poll, EmitFinished, EmitFailed
  <2>3. \E place \in {"submit", "poll", "returned", "raised", "except"} : Goto(s, place)
    BY <1>17 DEF Probe, Submit, Poll, EmitFinished, EmitFailed, Observe
  <2>4. troubles' \in 0..Troubles
    BY <1>17, <1>3 DEF Probe, Submit, Poll, EmitFinished, EmitFailed, Observe
  <2>5. UNCHANGED <<loopVars, delivery, record, message, seen, history>>
    BY <1>17 DEF Probe, Submit, Poll, EmitFinished, EmitFailed, Observe
  <2> QED BY <2>1, <2>3, <2>4, <2>5, <1>1 DEF Goto, loopVars, history
<1>18. ASSUME NEW s \in Slots, WorkRaises(s) PROVE WorkerTypeOK'
  BY <1>18, <1>1, <1>2 DEF WorkRaises, Goto, loopVars, history
<1>19. ASSUME NEW s \in Slots, Complete(s) \/ Except(s) PROVE WorkerTypeOK'
  <2>1. delivery[s] \in Jobs /\ attempt[s] # "free"
    BY <1>19, BusyHolds DEF Complete, Except
  <2>2. record' \in [Jobs -> {"absent", "queued", "running", "ended"}]
    BY <1>19, <2>1 DEF Complete, Except, Stored
  <2>3. \E place \in {"finished", "except", "emit", "raised"} : Goto(s, place)
    BY <1>19 DEF Complete, Except
  <2>4. troubles' \in 0..Troubles
    BY <1>19, <1>2 DEF Complete, Except
  <2>5. UNCHANGED <<loopVars, delivery, message, seen, history>>
    BY <1>19 DEF Complete, Except
  <2> QED BY <2>1, <2>2, <2>3, <2>4, <2>5, <1>1 DEF Goto, loopVars, history
<1>20. CASE DiagnosticProbe
  <2>1. troubles' \in 0..Troubles
    <3>1. troubles' = troubles \/ Spend("port") \/ \E st : ReportRaises(st)
      BY <1>20 DEF DiagnosticProbe
    <3> QED BY <3>1, <1>2, <1>3
  <2>2. UNCHANGED <<loopVars, slots, record, message, seen, history>>
    BY <1>20 DEF DiagnosticProbe
  <2> QED BY <2>1, <2>2, <1>1 DEF loopVars, slots, history
<1>21. CASE DiagnosisReads \/ DiagnosisAnswers
  BY <1>21, <1>1 DEF DiagnosisReads, DiagnosisAnswers, loopVars, slots, history
<1>22. CASE Crash
  BY <1>22, <1>1, <1>2 DEF Crash, Restarted
<1>23. ASSUME NEW j \in Jobs, Publish(j) PROVE WorkerTypeOK'
  BY <1>23, <1>1 DEF Publish, loopVars, slots, history
<1>24. ASSUME NEW j \in Jobs, VisibilityExpires(j) PROVE WorkerTypeOK'
  BY <1>24, <1>1, <1>2 DEF VisibilityExpires, loopVars, slots
<1>25. CASE UNCHANGED vars
  BY <1>25, <1>1 DEF vars
<1>26. CASE ActionReported
  BY <1>26, <1>1, <1>3 DEF ActionReported, loopVars, slots, history
<1>27. ASSUME NEW h \in Helpers, HelperUpdates(h) PROVE WorkerTypeOK'
  <2>1. /\ troubles' \in 0..Troubles
        /\ UNCHANGED <<record, message, seen, doubled>>
        /\ Restarted \/ UNCHANGED <<loopVars, slots, abandoned>>
    BY <1>27, <1>2 DEF HelperUpdates
  <2>2. CASE Restarted
    BY <2>1, <2>2, <1>1 DEF Restarted
  <2>3. CASE UNCHANGED <<loopVars, slots, abandoned>>
    BY <2>1, <2>3, <1>1 DEF loopVars, slots
  <2> QED BY <2>1, <2>2, <2>3
<1>28. ASSUME NEW h \in Helpers, HelperReads(h) \/ HelperWrites(h) PROVE WorkerTypeOK'
  BY <1>28, <1>1 DEF HelperReads, HelperWrites, loopVars, slots
<1> QED
  BY <1>7, <1>8, <1>9, <1>10, <1>11, <1>12, <1>13, <1>14, <1>15, <1>16, <1>17, <1>18, <1>19,
     <1>20, <1>21, <1>22, <1>23, <1>24, <1>25, <1>26, <1>27, <1>28 DEF Next, LoopThread, Proceed

(* The worker's variables keep their types. *)
THEOREM WorkerTypeCorrect == Spec => []WorkerTypeOK
BY TypeInit, TypeNext, PTL DEF Spec

-----------------------------------------------------------------------------
(* The published status is "processing" exactly while jobs are listed, for *)
(* every interleaving of reports, failing writes, restarts and update      *)
(* helpers, whose copies of the state agree as well.                       *)
CopiesAgree == \A h \in Helpers : Agrees(copy[h])

THEOREM StatusIsRight == Spec => []StatusShowsWork
<1>1. StatusShowsWork <=> Agrees(memory) /\ Agrees(stored)
  BY DEF StatusShowsWork, Agrees
<1>2. Init => StatusShowsWork /\ CopiesAgree
  BY DEF Init, NewState, StatusShowsWork, CopiesAgree, Agrees
<1>3. WorkerTypeOK /\ StatusShowsWork /\ CopiesAgree /\ [Next]_vars
        => StatusShowsWork' /\ CopiesAgree'
  <2> SUFFICES ASSUME WorkerTypeOK, StatusShowsWork, CopiesAgree, [Next]_vars
               PROVE  Agrees(memory)' /\ Agrees(stored)' /\ CopiesAgree'
    BY DEF StatusShowsWork, Agrees
  <2>1. Agrees(memory) /\ Agrees(stored)
    BY <1>1
  <2>2. ASSUME UNCHANGED service \/ (memory' = stored /\ UNCHANGED stored)
        PROVE  Agrees(memory)' /\ Agrees(stored)'
    BY <2>1, <2>2 DEF Agrees, service
  <2>3. ASSUME \E st \in State :
                 /\ memory' = st /\ stored' \in {stored, st}
                 /\ Agrees(memory) => Agrees(st)
        PROVE  Agrees(memory)' /\ Agrees(stored)'
    BY <2>1, <2>3 DEF Agrees
  <2>4. ASSUME UNCHANGED memory, \E h \in Helpers : stored' = copy[h]
        PROVE  Agrees(memory)' /\ Agrees(stored)'
    BY <2>1, <2>4 DEF Agrees, CopiesAgree
  <2>5. CopiesAgree'
    BY <2>1, HelperStep DEF CopiesAgree, Agrees, NewState
  <2> QED BY <2>2, <2>3, <2>4, <2>5, ServiceStep
<1> QED BY <1>2, <1>3, WorkerTypeCorrect, PTL DEF Spec

-----------------------------------------------------------------------------
(* Ghosts.  NoGhost is not inductive: a slot that has returned or reported *)
(* its failure is no reason for an entry, as it goes without another       *)
(* report.  The reason is a slot whose last report is still to come.       *)

Unreported == {"poll", "finished", "except", "emit", "raised"}
Backed(j) == \E s \in Slots : delivery[s] = j /\ attempt[s] \in Unreported
EntriesBacked ==
  \A j \in memory.listed \cup stored.listed : Backed(j) \/ j \in abandoned \cup revived

(* A step that adds no entry and keeps every unreported slot. *)
LEMMA KeepsBacking ==
  ASSUME EntriesBacked,
         memory'.listed \cup stored'.listed \subseteq memory.listed \cup stored.listed,
         abandoned \subseteq abandoned', revived \subseteq revived',
         \A s \in Slots : attempt[s] \in Unreported =>
           \/ delivery'[s] = delivery[s] /\ attempt'[s] \in Unreported
           \/ delivery[s] \in abandoned'
  PROVE  EntriesBacked'
BY DEF EntriesBacked, Backed

(* A slot whose report took its job out of both copies of the state. *)
LEMMA ReportedOut ==
  ASSUME EntriesBacked, NEW s \in Slots,
         memory'.listed \cup stored'.listed
           \subseteq (memory.listed \cup stored.listed) \ {delivery[s]},
         UNCHANGED <<delivery, abandoned>>, revived \subseteq revived',
         \A t \in Slots \ {s} : attempt'[t] = attempt[t]
  PROVE  EntriesBacked'
BY DEF EntriesBacked, Backed

LEMMA BackedNext == WorkerTypeOK /\ EntriesBacked /\ [Next]_vars => EntriesBacked'
<1> SUFFICES ASSUME WorkerTypeOK, EntriesBacked, [Next]_vars PROVE EntriesBacked'
  OBVIOUS
<1> DEFINE Listed == memory.listed \cup stored.listed
           Smaller == memory'.listed \cup stored'.listed \subseteq Listed
           KeepsSlots == /\ abandoned \subseteq abandoned'
                         /\ \A s \in Slots : attempt[s] \in Unreported =>
                              \/ delivery'[s] = delivery[s] /\ attempt'[s] \in Unreported
                              \/ delivery[s] \in abandoned'
<1>0. revived \subseteq revived'
  BY HelperStep
<1>1. memory \in State /\ stored \in State /\ memory.listed \subseteq Jobs
  BY DEF WorkerTypeOK, State
<1>2. ASSUME NEW st, st.listed \subseteq Listed, Report(st) \/ ReportRaises(st) PROVE Smaller
  BY <1>2 DEF Report, ReportRaises
<1>3. ASSUME UNCHANGED service PROVE Smaller
  BY <1>3 DEF service
<1>4. ASSUME NEW s \in Slots, attempt[s] \notin Unreported, Popped(s)
      PROVE  \A t \in Slots : attempt[t] \in Unreported =>
               delivery'[t] = delivery[t] /\ attempt'[t] \in Unreported
  BY <1>4 DEF Popped, WorkerTypeOK
<1>5. CASE Boot \/ Heartbeat
  <2>1. Smaller
    <3>1. Booted(memory).listed = memory.listed /\ Rested(memory).listed = memory.listed
      BY <1>1 DEF Booted, Rested, State
    <3> QED BY <1>5, <3>1, <1>2, <1>3 DEF Boot, Heartbeat
  <2>2. KeepsSlots
    BY <1>5 DEF Boot, Heartbeat, slots, history
  <2> QED BY <2>1, <2>2, KeepsBacking, <1>0
<1>6. CASE Drain \/ EndDrain \/ EndReceive \/ ReceiveRaises \/ DiagnosisReads \/ DiagnosisAnswers
  <2>1. UNCHANGED service /\ KeepsSlots
    BY <1>6 DEF Drain, EndDrain, EndReceive, ReceiveRaises, DiagnosisReads, DiagnosisAnswers,
                slots, history, service
  <2> QED BY <2>1, <1>3, KeepsBacking, <1>0
<1>7. ASSUME NEW s \in Slots, Ack(s) \/ Nack(s) PROVE EntriesBacked'
  <2>1. attempt[s] \notin Unreported /\ Popped(s) /\ UNCHANGED service /\ abandoned \subseteq abandoned'
    BY <1>7 DEF Ack, Nack, LoopDies, Unreported, history
  <2> QED BY <2>1, <1>3, <1>4, KeepsBacking, <1>0
<1>8. ASSUME NEW s \in Slots, Receive(s) PROVE EntriesBacked'
  <2>1. UNCHANGED service /\ KeepsSlots
    BY <1>8 DEF Receive, Busy, Unreported, history, service, WorkerTypeOK
  <2> QED BY <2>1, <1>3, KeepsBacking, <1>0
<1>9. ASSUME NEW s \in Slots, ReportFailure(s) PROVE EntriesBacked'
  <2>1. delivery[s] \in Jobs
    BY <1>9, BusyHolds DEF ReportFailure
  <2>2. FailedState(memory, delivery[s]).listed = memory.listed \ {delivery[s]}
    BY <2>1, <1>1, Reports
  <2>3. CASE /\ Report(FailedState(memory, delivery[s]))
             /\ attempt' = [attempt EXCEPT ![s] = "reported"]
             /\ UNCHANGED <<delivery, history>>
    <3>1. /\ memory'.listed \cup stored'.listed \subseteq Listed \ {delivery[s]}
          /\ UNCHANGED <<delivery, abandoned>>
          /\ \A t \in Slots \ {s} : attempt'[t] = attempt[t]
      BY <2>2, <2>3 DEF Report, history, WorkerTypeOK
    <3> QED BY <3>1, ReportedOut, <1>0
  <2>4. CASE ReportRaises(FailedState(memory, delivery[s])) /\ LoopDies(s)
    <3>1. Smaller
      BY <2>2, <2>4, <1>2
    <3>2. KeepsSlots
      BY <2>4 DEF LoopDies, Popped, WorkerTypeOK
    <3> QED BY <3>1, <3>2, KeepsBacking, <1>0
  <2> QED BY <1>9, <2>3, <2>4 DEF ReportFailure
<1>10. ASSUME NEW s \in Slots, Begin(s) \/ WorkRaises(s) \/ Complete(s) \/ Except(s)
       PROVE  EntriesBacked'
  <2>1. UNCHANGED <<service, delivery, history>>
    BY <1>10 DEF Begin, WorkRaises, Complete, Except
  <2>2. \/ attempt[s] \notin Unreported /\ \E place : Goto(s, place)
        \/ \E place \in Unreported : Goto(s, place)
    BY <1>10 DEF Begin, WorkRaises, Complete, Except, Unreported
  <2>3. KeepsSlots
    BY <2>1, <2>2 DEF Goto, history, WorkerTypeOK
  <2> QED BY <2>1, <2>3, <1>3, KeepsBacking, <1>0 DEF service
<1>11. ASSUME NEW s \in Slots, Probe(s) PROVE EntriesBacked'
  <2>1. Smaller
    BY <1>11, <1>2 DEF Probe, Observe
  <2>2. KeepsSlots
    BY <1>11 DEF Probe, Observe, Goto, Unreported, history, WorkerTypeOK
  <2> QED BY <2>1, <2>2, KeepsBacking, <1>0
<1>12. ASSUME NEW s \in Slots, Submit(s) \/ Poll(s) PROVE EntriesBacked'
  <2>1. delivery[s] \in Jobs
    BY <1>12, BusyHolds DEF Submit, Poll
  <2>2. InFlight(memory, delivery[s]).listed = memory.listed \cup {delivery[s]}
    BY <2>1, <1>1, Reports
  <2>3. memory'.listed \cup stored'.listed \subseteq Listed \cup {delivery[s]}
    BY <1>12, <2>2 DEF Submit, Poll, Observe, Report, ReportRaises
  <2>4. UNCHANGED <<delivery, history>> /\ \E place \in Unreported : Goto(s, place)
    BY <1>12 DEF Submit, Poll, Observe, Unreported
  <2>5. PICK place \in Unreported : Goto(s, place)
    BY <2>4
  <2>6. attempt'[s] \in Unreported
    BY <2>5 DEF Goto, WorkerTypeOK
  <2>7. \A t \in Slots : attempt[t] \in Unreported => attempt'[t] \in Unreported
    BY <2>5 DEF Goto, WorkerTypeOK
  <2> QED BY <2>3, <2>4, <2>6, <2>7, <1>0 DEF EntriesBacked, Backed, history
<1>13. ASSUME NEW s \in Slots, EmitFinished(s) \/ EmitFailed(s) PROVE EntriesBacked'
  <2>1. delivery[s] \in Jobs
    BY <1>13, BusyHolds DEF EmitFinished, EmitFailed
  <2>2. PICK st \in {Finished(memory, delivery[s]), FailedState(memory, delivery[s])} :
          \/ Report(st)
          \/ ReportRaises(st) /\ \E place \in Unreported : Goto(s, place)
    BY <1>13 DEF EmitFinished, EmitFailed, Observe, Unreported
  <2>3. st.listed = memory.listed \ {delivery[s]}
    BY <2>2, <1>1 DEF Finished, FailedState, State
  <2>4. UNCHANGED <<delivery, history>> /\ \E place : Goto(s, place)
    BY <1>13 DEF EmitFinished, EmitFailed, Observe
  <2>5. CASE Report(st)
    <3>1. /\ memory'.listed \cup stored'.listed \subseteq Listed \ {delivery[s]}
          /\ UNCHANGED <<delivery, abandoned>>
          /\ \A t \in Slots \ {s} : attempt'[t] = attempt[t]
      BY <2>3, <2>4, <2>5 DEF Report, Goto, history, WorkerTypeOK
    <3> QED BY <3>1, ReportedOut, <1>0
  <2>6. CASE ReportRaises(st) /\ \E place \in Unreported : Goto(s, place)
    <3>1. Smaller
      BY <2>3, <2>6, <1>2
    <3>2. KeepsSlots
      BY <2>4, <2>6 DEF Goto, history, WorkerTypeOK
    <3> QED BY <3>1, <3>2, KeepsBacking, <1>0
  <2> QED BY <2>2, <2>5, <2>6
<1>14. CASE DiagnosticProbe
  <2>1. PICK ok \in BOOLEAN : Report(Probed(memory, ok)) \/ ReportRaises(Probed(memory, ok))
    BY <1>14 DEF DiagnosticProbe
  <2>2. Probed(memory, ok).listed = memory.listed
    BY <1>1 DEF Probed, State
  <2>3. Smaller
    BY <2>1, <2>2, <1>2
  <2>4. KeepsSlots
    BY <1>14 DEF DiagnosticProbe, slots, history
  <2> QED BY <2>3, <2>4, KeepsBacking, <1>0
<1>15. CASE Crash
  <2>1. Smaller
    BY <1>15 DEF Crash, Restarted
  <2>2. KeepsSlots
    BY <1>15 DEF Crash, Restarted, Held, Unreported, WorkerTypeOK
  <2> QED BY <2>1, <2>2, KeepsBacking, <1>0
<1>16. ASSUME NEW j \in Jobs, Publish(j) \/ VisibilityExpires(j) PROVE EntriesBacked'
  <2>1. UNCHANGED service /\ KeepsSlots
    BY <1>16 DEF Publish, VisibilityExpires, slots, history, service
  <2> QED BY <2>1, <1>3, KeepsBacking, <1>0
<1>17. CASE UNCHANGED vars
  BY <1>17 DEF vars, EntriesBacked, Backed
<1>18. CASE ActionReported
  <2>1. Smaller
    BY <1>18, <1>2 DEF ActionReported
  <2>2. KeepsSlots
    BY <1>18 DEF ActionReported, slots, history
  <2> QED BY <2>1, <2>2, KeepsBacking, <1>0
<1>19. ASSUME NEW h \in Helpers, HelperUpdates(h) PROVE EntriesBacked'
  <2>1. Smaller
    BY <1>19 DEF HelperUpdates, Restarted
  <2>2. KeepsSlots
    BY <1>19 DEF HelperUpdates, Restarted, Held, Unreported, slots, WorkerTypeOK
  <2> QED BY <2>1, <2>2, KeepsBacking, <1>0
<1>20. ASSUME NEW h \in Helpers, HelperReads(h) PROVE EntriesBacked'
  <2>1. UNCHANGED service /\ KeepsSlots
    BY <1>20 DEF HelperReads, slots, service
  <2> QED BY <2>1, <1>3, KeepsBacking, <1>0
<1>21. ASSUME NEW h \in Helpers, HelperWrites(h) PROVE EntriesBacked'
  <2>1. /\ UNCHANGED <<memory, delivery, attempt, abandoned>>
        /\ \A j \in stored'.listed : j \in stored.listed \/ j \in revived'
    BY <1>21 DEF HelperWrites, slots
  <2> QED BY <2>1, <1>0 DEF EntriesBacked, Backed
<1> QED
  BY <1>5, <1>6, <1>7, <1>8, <1>9, <1>10, <1>11, <1>12, <1>13, <1>14, <1>15, <1>16, <1>17,
     <1>18, <1>19, <1>20, <1>21 DEF Next, LoopThread, Proceed

(* A job listed in flight has an attempt in this worker, unless a crash or *)
(* the end of the loop thread took it or an update helper put the entry    *)
(* back: failing reports, doubled deliveries and failing jobs leave no     *)
(* ghost in the list.                                                      *)
THEOREM GhostsNeedACause == Spec => []NoGhost
<1>1. Init => EntriesBacked
  BY DEF Init, NewState, EntriesBacked
<1>2. EntriesBacked => NoGhost
  BY DEF EntriesBacked, Backed, NoGhost, Held
<1> QED BY <1>1, <1>2, BackedNext, WorkerTypeCorrect, PTL DEF Spec

-----------------------------------------------------------------------------
(* Lost jobs.  An attempt that polls is in the list as long as no other    *)
(* attempt works on its job: whatever ends elsewhere removes another job.  *)
(* That no other attempt does is what the receipt is for.  In the store an *)
(* update helper may replace the list by an older one.                     *)

SoleReceipt ==
  /\ \A j \in Jobs : message[j] # "none" => record[j] # "absent"
  /\ \A s \in Slots : Busy(s) => message[delivery[s]] # "none"
  /\ \A s \in Slots : Busy(s) /\ delivery[s] \notin doubled =>
       /\ message[delivery[s]] = "taken"
       /\ \A t \in Slots \ {s} : delivery[t] # delivery[s]

PolledListed ==
  \A s \in Slots : attempt[s] = "poll" /\ delivery[s] \notin doubled =>
    /\ delivery[s] \in memory.listed
    /\ delivery[s] \in stored.listed \cup dropped

(* A step that hands out no delivery, publishes nothing, and changes only  *)
(* messages that are doubled or held by nobody afterwards.                 *)
LEMMA KeepsReceipts ==
  ASSUME SoleReceipt,
         \A s \in Slots : /\ delivery'[s] \in {delivery[s], NoJob}
                          /\ Busy(s)' => Busy(s) /\ delivery'[s] = delivery[s],
         doubled \subseteq doubled',
         NoJob \notin Jobs,
         \A s \in Slots : Busy(s) => delivery[s] \in Jobs,
         \A j \in Jobs : \/ message'[j] = message[j]
                         \/ /\ message[j] # "none" /\ message'[j] # "none"
                            /\ j \in doubled' \/ \A s \in Slots : delivery'[s] # j,
         \A j \in Jobs : record'[j] = "absent" => record[j] = "absent"
  PROVE  SoleReceipt'
BY DEF SoleReceipt

LEMMA ReceiptsNext == WorkerTypeOK /\ SoleReceipt /\ [Next]_vars => SoleReceipt'
<1> SUFFICES ASSUME WorkerTypeOK, SoleReceipt, [Next]_vars PROVE SoleReceipt'
  OBVIOUS
<1> DEFINE KeepsSlots == \A s \in Slots : /\ delivery'[s] \in {delivery[s], NoJob}
                                          /\ Busy(s)' => Busy(s) /\ delivery'[s] = delivery[s]
           KeepsMessages == \A j \in Jobs :
             \/ message'[j] = message[j]
             \/ /\ message[j] # "none" /\ message'[j] # "none"
                /\ j \in doubled' \/ \A s \in Slots : delivery'[s] # j
           KeepsRecords == \A j \in Jobs : record'[j] = "absent" => record[j] = "absent"
<1>1. NoJob \notin Jobs /\ \A s \in Slots : Busy(s) => delivery[s] \in Jobs
  BY WorkerConstantsAssumption DEF Busy, WorkerTypeOK
<1>2. ASSUME KeepsSlots, KeepsMessages, KeepsRecords, doubled \subseteq doubled' PROVE SoleReceipt'
  BY <1>1, <1>2, KeepsReceipts
<1>3. ASSUME NEW s \in Slots, attempt[s] # "free", Popped(s)
      PROVE  KeepsSlots /\ delivery'[s] = NoJob
  BY <1>3 DEF Popped, Busy, WorkerTypeOK
<1>4. ASSUME NEW s \in Slots, attempt[s] # "free", NEW place, place # "free", Goto(s, place),
             UNCHANGED delivery
      PROVE  KeepsSlots
  BY <1>4 DEF Goto, Busy, WorkerTypeOK
<1>5. CASE \/ Boot \/ Drain \/ EndDrain \/ EndReceive \/ Heartbeat
           \/ DiagnosticProbe \/ ActionReported \/ DiagnosisReads \/ DiagnosisAnswers
           \/ (\E h \in Helpers : HelperReads(h) \/ HelperWrites(h)) \/ UNCHANGED vars
  <2>1. UNCHANGED <<delivery, attempt, message, record, doubled>>
    BY <1>5 DEF Boot, Drain, EndDrain, EndReceive, Heartbeat, DiagnosticProbe, ActionReported,
                DiagnosisReads, DiagnosisAnswers, HelperReads, HelperWrites, vars, slots, history
  <2> QED BY <2>1, <1>2 DEF Busy
<1>6. CASE ReceiveRaises
  <2>1. UNCHANGED <<delivery, attempt, record, doubled>>
    BY <1>6 DEF ReceiveRaises, slots, history
  <2>2. \A j \in Jobs : message'[j] = message[j] \/ (message[j] = "visible" /\ message'[j] = "taken")
    BY <1>6 DEF ReceiveRaises, WorkerTypeOK
  <2>3. \A s \in Slots : Busy(s) /\ delivery[s] \notin doubled => message[delivery[s]] = "taken"
    BY DEF SoleReceipt
  <2>4. ASSUME NEW j \in Jobs, message'[j] # message[j], NEW s \in Slots, delivery[s] = j
        PROVE  j \in doubled
    BY <2>2, <2>3, <2>4, <1>1 DEF Busy, WorkerTypeOK
  <2>5. KeepsMessages
    BY <2>1, <2>2, <2>4
  <2> QED BY <2>1, <2>5, <1>2 DEF Busy
<1>7. ASSUME NEW s \in Slots, Ack(s) \/ Nack(s) PROVE SoleReceipt'
  <2>1. attempt[s] # "free" /\ Popped(s) /\ UNCHANGED <<record, doubled>>
    BY <1>7 DEF Ack, Nack, LoopDies, history
  <2>2. \/ UNCHANGED message
        \/ \E fate \in {"gone", "visible"} : message' = [message EXCEPT ![delivery[s]] = fate]
    BY <1>7 DEF Ack, Nack, Settled
  <2>3. delivery[s] \in Jobs /\ Busy(s)
    BY <2>1, <1>1 DEF Busy
  <2>4. \A t \in Slots \ {s} : delivery'[t] = delivery[t]
    BY <2>1 DEF Popped, WorkerTypeOK
  <2>5. delivery[s] \in doubled \/ \A t \in Slots : delivery'[t] # delivery[s]
    BY <2>1, <2>3, <2>4, <1>1, <1>3 DEF SoleReceipt
  <2>6. message[delivery[s]] # "none"
    BY <2>3 DEF SoleReceipt
  <2> QED BY <2>1, <2>2, <2>3, <2>5, <2>6, <1>2, <1>3 DEF WorkerTypeOK
<1>8. ASSUME NEW s \in Slots, ReportFailure(s) PROVE SoleReceipt'
  <2>1. attempt[s] # "free" /\ UNCHANGED <<message, record, doubled>>
    BY <1>8 DEF ReportFailure, LoopDies, history
  <2>2. \/ Popped(s)
        \/ Goto(s, "reported") /\ UNCHANGED delivery
    BY <1>8 DEF ReportFailure, LoopDies, Goto
  <2> QED BY <2>1, <2>2, <1>2, <1>3, <1>4
<1>9. ASSUME NEW s \in Slots, Receive(s) PROVE SoleReceipt'
  <2>1. PICK j \in Jobs : /\ message[j] = "visible"
                          /\ message' = [message EXCEPT ![j] = "taken"]
                          /\ delivery' = [delivery EXCEPT ![s] = j]
    BY <1>9 DEF Receive
  <2>2. attempt' = [attempt EXCEPT ![s] = "early"] /\ ~Busy(s) /\ UNCHANGED <<record, doubled>>
    BY <1>9 DEF Receive, history
  <2>3. \A t \in Slots : delivery[t] = j => j \in doubled
    BY <2>1, <1>1 DEF SoleReceipt, Busy, WorkerTypeOK
  <2>4. \A i \in Jobs : message'[i] # "none" => record'[i] # "absent"
    BY <2>1, <2>2 DEF SoleReceipt, WorkerTypeOK
  <2>5. ASSUME NEW t \in Slots, Busy(t)' PROVE message'[delivery'[t]] # "none"
    <3>1. CASE t = s
      BY <2>1, <3>1 DEF WorkerTypeOK
    <3>2. CASE t # s
      <4>1. Busy(t) /\ delivery'[t] = delivery[t]
        BY <2>1, <2>2, <2>5, <3>2 DEF Busy, WorkerTypeOK
      <4> QED BY <4>1, <2>1, <1>1 DEF SoleReceipt, WorkerTypeOK
    <3> QED BY <3>1, <3>2
  <2>6. ASSUME NEW t \in Slots, Busy(t)', delivery'[t] \notin doubled'
        PROVE  /\ message'[delivery'[t]] = "taken"
               /\ \A u \in Slots \ {t} : delivery'[u] # delivery'[t]
    <3>1. CASE t = s
      BY <2>1, <2>2, <2>3, <2>6, <3>1 DEF WorkerTypeOK
    <3>2. CASE t # s
      <4>1. Busy(t) /\ delivery'[t] = delivery[t] /\ delivery[t] \notin doubled
        BY <2>1, <2>2, <2>6, <3>2 DEF Busy, WorkerTypeOK
      <4>2. delivery[t] # j
        BY <4>1, <2>3
      <4> QED BY <4>1, <4>2, <2>1, <1>1 DEF SoleReceipt, WorkerTypeOK
    <3> QED BY <3>1, <3>2
  <2> QED BY <2>4, <2>5, <2>6 DEF SoleReceipt
<1>10. ASSUME NEW s \in Slots, Proceed(s) \/ Poll(s) PROVE SoleReceipt'
  <2>1. attempt[s] # "free" /\ UNCHANGED <<delivery, message, doubled>>
    BY <1>10 DEF Proceed, Begin, Probe, Submit, Poll, WorkRaises, Complete, EmitFinished, Except,
                 EmitFailed, Observe, history
  <2>2. \E place \in {"submit", "poll", "finished", "except", "emit", "returned", "raised", "probe"} :
          Goto(s, place)
    BY <1>10 DEF Proceed, Begin, Probe, Submit, Poll, WorkRaises, Complete, EmitFinished, Except,
                 EmitFailed, Observe
  <2>3. record' = record \/ \E status \in {"running", "ended"} : Stored(delivery[s], status)
    BY <1>10 DEF Proceed, Begin, Probe, Submit, Poll, WorkRaises, Complete, EmitFinished, Except,
                 EmitFailed, Observe
  <2>4. KeepsRecords
    BY <2>3 DEF Stored, WorkerTypeOK
  <2> QED BY <2>1, <2>2, <2>4, <1>2, <1>4
<1>11. CASE Crash \/ \E h \in Helpers : HelperUpdates(h)
  <2>1. /\ UNCHANGED <<message, record, doubled>>
        /\ UNCHANGED slots \/ Restarted
    BY <1>11 DEF Crash, HelperUpdates, history
  <2>2. CASE UNCHANGED slots
    BY <2>1, <2>2, <1>2 DEF Busy, slots
  <2>3. CASE Restarted
    <3>1. \A s \in Slots : delivery'[s] = NoJob /\ attempt'[s] = "free"
      BY <2>3 DEF Restarted
    <3> QED BY <2>1, <3>1, <1>2 DEF Busy
  <2> QED BY <2>1, <2>2, <2>3
<1>12. ASSUME NEW j \in Jobs, Publish(j) PROVE SoleReceipt'
  <2>1. /\ record[j] = "absent" /\ record' = [record EXCEPT ![j] = "queued"]
        /\ message' = [message EXCEPT ![j] = "visible"]
        /\ UNCHANGED <<delivery, attempt, doubled>>
    BY <1>12 DEF Publish, slots, history
  <2>2. message[j] = "none"
    BY <2>1 DEF SoleReceipt
  <2>3. \A s \in Slots : Busy(s) /\ delivery[s] \notin doubled => delivery[s] # j
    BY <2>2 DEF SoleReceipt
  <2>4. \A i \in Jobs : message'[i] # "none" => record'[i] # "absent"
    BY <2>1 DEF SoleReceipt, WorkerTypeOK
  <2> QED BY <2>1, <2>3, <2>4, <1>1 DEF SoleReceipt, Busy, WorkerTypeOK
<1>13. ASSUME NEW j \in Jobs, VisibilityExpires(j) PROVE SoleReceipt'
  <2>1. /\ message[j] = "taken" /\ message' = [message EXCEPT ![j] = "visible"]
        /\ UNCHANGED <<delivery, attempt, record>> /\ doubled \subseteq doubled'
    BY <1>13 DEF VisibilityExpires, slots
  <2>2. j \in doubled' \/ \A s \in Slots : delivery'[s] # j
    BY <1>13, <2>1 DEF VisibilityExpires, Held
  <2>3. KeepsMessages
    BY <2>1, <2>2 DEF WorkerTypeOK
  <2> QED BY <2>1, <2>3, <1>2 DEF Busy
<1> QED
  BY <1>5, <1>6, <1>7, <1>8, <1>9, <1>10, <1>11, <1>12, <1>13 DEF Next, LoopThread

(* Whatever a report takes out of the list is the job of a slot that does  *)
(* not poll.                                                               *)
LEMMA RemovesOwnJob ==
  ASSUME WorkerTypeOK, [Next]_vars, ~Restarted
  PROVE  \/ UNCHANGED service
         \/ UNCHANGED memory /\ \E h \in Helpers : HelperWrites(h)
         \/ \E st \in State, t \in {s \in Slots : attempt[s] # "poll"} :
              /\ memory' = st /\ stored' \in {stored, st}
              /\ memory.listed \ {delivery[t]} \subseteq st.listed
         \/ \E st \in State : /\ memory' = st /\ stored' \in {stored, st}
                              /\ memory.listed \subseteq st.listed
<1> DEFINE Ends == \E st \in State, t \in {s \in Slots : attempt[s] # "poll"} :
                     /\ memory' = st /\ stored' \in {stored, st}
                     /\ memory.listed \ {delivery[t]} \subseteq st.listed
           Grows == \E st \in State : /\ memory' = st /\ stored' \in {stored, st}
                                      /\ memory.listed \subseteq st.listed
<1> SUFFICES \/ UNCHANGED service \/ Ends \/ Grows
             \/ UNCHANGED memory /\ \E h \in Helpers : HelperWrites(h)
  OBVIOUS
<1>1. memory \in State
  BY DEF WorkerTypeOK
<1>2. ASSUME NEW st \in State, memory.listed \subseteq st.listed, Report(st) \/ ReportRaises(st)
      PROVE  Grows
  BY <1>2 DEF Report, ReportRaises
<1>3. ASSUME NEW t \in Slots, attempt[t] \notin {"free", "poll"},
             NEW st \in {FailedState(memory, delivery[t]), Finished(memory, delivery[t])},
             Report(st) \/ ReportRaises(st)
      PROVE  Ends
  <2>1. delivery[t] \in Jobs
    BY <1>3, BusyHolds
  <2>2. /\ FailedState(memory, delivery[t]) \in State
        /\ FailedState(memory, delivery[t]).listed = memory.listed \ {delivery[t]}
        /\ Finished(memory, delivery[t]) \in State
        /\ Finished(memory, delivery[t]).listed = memory.listed \ {delivery[t]}
    BY <1>1, <2>1, Reports
  <2>3. st \in State /\ st.listed = memory.listed \ {delivery[t]}
    BY <1>3, <2>2
  <2> QED BY <1>3, <2>3 DEF Report, ReportRaises
<1>4. CASE Boot \/ Heartbeat
  <2>1. \/ UNCHANGED service
        \/ \E st \in {Booted(memory), Rested(memory)} : Report(st) \/ ReportRaises(st)
    BY <1>4 DEF Boot, Heartbeat, service
  <2>2. \A st \in {Booted(memory), Rested(memory)} : st \in State /\ memory.listed \subseteq st.listed
    BY <1>1 DEF Booted, Rested, State
  <2> QED BY <2>1, <2>2, <1>2
<1>5. ASSUME NEW s \in Slots, ReportFailure(s) \/ EmitFailed(s) \/ EmitFinished(s) PROVE Ends
  <2>1. /\ attempt[s] \notin {"free", "poll"}
        /\ \E st \in {FailedState(memory, delivery[s]), Finished(memory, delivery[s])} :
             Report(st) \/ ReportRaises(st)
    BY <1>5 DEF ReportFailure, EmitFailed, EmitFinished, Observe
  <2> QED BY <2>1, <1>3
<1>6. ASSUME NEW s \in Slots, Submit(s) \/ Poll(s) \/ Probe(s) PROVE Grows
  <2>1. delivery[s] \in Jobs
    BY <1>6, BusyHolds DEF Submit, Poll, Probe
  <2>2. PICK st \in {memory, InFlight(memory, delivery[s])} : Report(st) \/ ReportRaises(st)
    BY <1>6 DEF Submit, Poll, Probe, Observe
  <2>3. /\ InFlight(memory, delivery[s]) \in State
        /\ memory.listed \subseteq InFlight(memory, delivery[s]).listed
    BY <2>1, <1>1 DEF InFlight, State
  <2>4. st \in State /\ memory.listed \subseteq st.listed
    BY <2>2, <2>3, <1>1
  <2> QED BY <2>2, <2>4, <1>2
<1>7. CASE DiagnosticProbe
  <2>1. PICK ok \in BOOLEAN : Report(Probed(memory, ok)) \/ ReportRaises(Probed(memory, ok))
    BY <1>7 DEF DiagnosticProbe
  <2>2. Probed(memory, ok) \in State /\ memory.listed \subseteq Probed(memory, ok).listed
    BY <1>1 DEF Probed, State
  <2> QED BY <2>1, <2>2, <1>2
<1>8. CASE \/ Drain \/ EndDrain \/ EndReceive \/ ReceiveRaises \/ DiagnosisReads
           \/ DiagnosisAnswers \/ UNCHANGED vars
  BY <1>8 DEF Drain, EndDrain, EndReceive, ReceiveRaises, DiagnosisReads, DiagnosisAnswers, service, vars
<1>9. ASSUME NEW s \in Slots,
             Ack(s) \/ Nack(s) \/ Receive(s) \/ Begin(s) \/ WorkRaises(s) \/ Complete(s) \/ Except(s)
      PROVE  UNCHANGED service
  BY <1>9 DEF Ack, Nack, Receive, Begin, WorkRaises, Complete, Except, service
<1>10. ASSUME NEW j \in Jobs, Publish(j) \/ VisibilityExpires(j) PROVE UNCHANGED service
  BY <1>10 DEF Publish, VisibilityExpires, service
<1>11. CASE ActionReported
  BY <1>11, <1>1, <1>2 DEF ActionReported
<1>12. ASSUME NEW h \in Helpers, HelperUpdates(h) \/ HelperReads(h) PROVE UNCHANGED service
  BY <1>12 DEF HelperUpdates, HelperReads, service
<1>13. ASSUME NEW h \in Helpers, HelperWrites(h) PROVE UNCHANGED memory
  BY <1>13 DEF HelperWrites
<1>14. ~Crash
  BY DEF Crash
<1> QED
  BY <1>4, <1>5, <1>6, <1>7, <1>8, <1>9, <1>10, <1>11, <1>12, <1>13, <1>14
     DEF Next, LoopThread, Proceed

(* Only a submission that was reported, or a poll, leads to "poll".        *)
LEMMA PollsOn ==
  ASSUME WorkerTypeOK, [Next]_vars, NEW s \in Slots, attempt'[s] = "poll"
  PROVE  /\ delivery'[s] = delivery[s] /\ doubled \subseteq doubled' /\ ~Restarted
         /\ \/ attempt[s] = "poll"
            \/ attempt[s] = "submit" /\ Report(InFlight(memory, delivery[s]))
<1>8. ~Restarted
  BY DEF Restarted
<1>1. ASSUME NEW t \in Slots, Popped(t) PROVE attempt[s] = "poll" /\ delivery'[s] = delivery[s]
  BY <1>1 DEF Popped, WorkerTypeOK
<1>2. ASSUME NEW t \in Slots, NEW place, place # "poll", Goto(t, place) PROVE attempt[s] = "poll"
  BY <1>2 DEF Goto, WorkerTypeOK
<1>3. ASSUME NEW t \in Slots, Ack(t) \/ Nack(t) \/ ReportFailure(t) \/ Receive(t)
      PROVE  attempt[s] = "poll" /\ delivery'[s] = delivery[s] /\ doubled \subseteq doubled' /\ ~Restarted
  <2>1. ~Restarted
    BY <1>8
  <2>2. CASE Ack(t) \/ Nack(t)
    <3>1. Popped(t) /\ doubled' = doubled
      BY <2>2 DEF Ack, Nack, LoopDies, history
    <3> QED BY <2>1, <3>1, <1>1
  <2>3. CASE ReportFailure(t)
    <3>1. doubled' = doubled /\ (Popped(t) \/ (Goto(t, "reported") /\ delivery' = delivery))
      BY <2>3 DEF ReportFailure, LoopDies, Goto, history
    <3> QED BY <2>1, <3>1, <1>1, <1>2
  <2>4. CASE Receive(t)
    <3>1. /\ doubled' = doubled /\ Goto(t, "early")
          /\ \E j \in Jobs : delivery' = [delivery EXCEPT ![t] = j]
      BY <2>4 DEF Receive, Goto, history
    <3>2. s # t
      BY <3>1 DEF Goto, WorkerTypeOK
    <3> QED BY <2>1, <3>1, <3>2, <1>2 DEF WorkerTypeOK
  <2> QED BY <1>3, <2>1, <2>2, <2>3, <2>4
<1>4. ASSUME NEW t \in Slots, Proceed(t) \/ Poll(t)
      PROVE  delivery'[s] = delivery[s] /\ doubled' = doubled
  BY <1>4 DEF Proceed, Begin, Probe, Submit, Poll, WorkRaises, Complete, EmitFinished, Except,
              EmitFailed, Observe, history
<1>5. ASSUME NEW t \in Slots, Proceed(t) \/ Poll(t)
      PROVE  \/ attempt[s] = "poll"
             \/ attempt[s] = "submit" /\ Report(InFlight(memory, delivery[s]))
  <2>1. CASE Submit(t)
    <3>1. CASE s = t
      BY <2>1, <3>1, <1>2 DEF Submit, Observe
    <3>2. CASE s # t
      <4>1. \E place : Goto(t, place)
        BY <2>1 DEF Submit, Observe
      <4> QED BY <4>1, <3>2 DEF Goto, WorkerTypeOK
    <3> QED BY <3>1, <3>2
  <2>2. CASE Poll(t)
    <3>1. attempt[t] = "poll" /\ \E place : Goto(t, place)
      BY <2>2 DEF Poll, Observe
    <3> QED BY <3>1 DEF Goto, WorkerTypeOK
  <2>3. CASE \/ Begin(t) \/ Probe(t) \/ WorkRaises(t) \/ Complete(t)
             \/ EmitFinished(t) \/ Except(t) \/ EmitFailed(t)
    <3>1. \E place \in {"submit", "finished", "except", "emit", "returned", "raised", "probe"} :
            Goto(t, place)
      BY <2>3 DEF Begin, Probe, WorkRaises, Complete, EmitFinished, Except, EmitFailed, Observe
    <3> QED BY <3>1, <1>2
  <2> QED BY <1>5, <2>1, <2>2, <2>3 DEF Proceed
<1>6. CASE \/ Boot \/ Drain \/ EndDrain \/ EndReceive \/ ReceiveRaises \/ Heartbeat
           \/ DiagnosticProbe \/ ActionReported \/ DiagnosisReads \/ DiagnosisAnswers
           \/ (\E h \in Helpers : HelperReads(h) \/ HelperWrites(h)) \/ UNCHANGED vars
  <2>1. UNCHANGED <<delivery, attempt, doubled>>
    BY <1>6 DEF Boot, Drain, EndDrain, EndReceive, ReceiveRaises, Heartbeat, DiagnosticProbe,
                ActionReported, DiagnosisReads, DiagnosisAnswers, HelperReads, HelperWrites, vars,
                slots, history
  <2>2. attempt[s] = "poll" /\ delivery'[s] = delivery[s] /\ doubled \subseteq doubled' /\ ~Restarted
    BY <2>1, <1>8
  <2> QED BY <2>2
<1>7. ASSUME NEW j \in Jobs, Publish(j) \/ VisibilityExpires(j)
      PROVE  UNCHANGED slots /\ doubled \subseteq doubled'
  BY <1>7 DEF Publish, VisibilityExpires, history
<1>9. ~Crash /\ \A h \in Helpers : HelperUpdates(h) => UNCHANGED slots /\ doubled' = doubled
  BY <1>8 DEF Crash, HelperUpdates
<1> QED
  BY <1>3, <1>4, <1>5, <1>6, <1>7, <1>8, <1>9 DEF Next, LoopThread, slots

LEMMA PolledListedNext ==
  WorkerTypeOK /\ SoleReceipt /\ PolledListed /\ [Next]_vars => PolledListed'
<1> SUFFICES ASSUME WorkerTypeOK, SoleReceipt, PolledListed, [Next]_vars,
                    NEW s \in Slots, attempt'[s] = "poll", delivery'[s] \notin doubled'
             PROVE  /\ delivery'[s] \in memory'.listed
                    /\ delivery'[s] \in stored'.listed \cup dropped'
  BY DEF PolledListed
<1>0. dropped \subseteq dropped'
  BY HelperStep
<1>1. /\ delivery'[s] = delivery[s] /\ delivery[s] \notin doubled /\ ~Restarted
      /\ \/ attempt[s] = "poll"
         \/ attempt[s] = "submit" /\ Report(InFlight(memory, delivery[s]))
  BY PollsOn
<1>2. CASE attempt[s] = "submit" /\ Report(InFlight(memory, delivery[s]))
  <2>1. delivery[s] \in Jobs /\ memory \in State
    BY <1>2, BusyHolds DEF WorkerTypeOK
  <2>2. InFlight(memory, delivery[s]).listed = memory.listed \cup {delivery[s]}
    BY <2>1, Reports
  <2> QED BY <1>1, <1>2, <2>2 DEF Report
<1>3. CASE attempt[s] = "poll"
  <2>1. delivery[s] \in memory.listed /\ delivery[s] \in stored.listed \cup dropped
    BY <1>1, <1>3 DEF PolledListed
  <2>2. \A t \in Slots : attempt[t] # "poll" => delivery[t] # delivery[s]
    BY <1>1, <1>3 DEF SoleReceipt, Busy
  <2>3. CASE UNCHANGED service
    BY <2>1, <2>3, <1>0, <1>1 DEF service
  <2>4. ASSUME NEW st \in State, delivery[s] \in st.listed, memory' = st, stored' \in {stored, st}
        PROVE  /\ delivery'[s] \in memory'.listed
               /\ delivery'[s] \in stored'.listed \cup dropped'
    BY <2>1, <2>4, <1>0, <1>1
  <2>5. ASSUME NEW h \in Helpers, HelperWrites(h), UNCHANGED memory
        PROVE  /\ delivery'[s] \in memory'.listed
               /\ delivery'[s] \in stored'.listed \cup dropped'
    BY <2>1, <2>5, <1>0, <1>1 DEF HelperWrites
  <2> QED BY <2>1, <2>2, <2>3, <2>4, <2>5, <1>1, RemovesOwnJob
<1> QED BY <1>1, <1>2, <1>3

(* No job whose attempt waits for ML is ever reported lost, unless its     *)
(* delivery was doubled or an update helper dropped its entry: through     *)
(* failing reports, other jobs' failures, crashes and restarts, for any    *)
(* number of slots and helpers.                                            *)
THEOREM PolledJobsAreNotLost == Spec => PolledIsNotLost
<1>1. Init => SoleReceipt /\ PolledListed
  BY DEF Init, SoleReceipt, PolledListed, Busy
<1>2. PolledListed /\ StatusShowsWork =>
        (DiagnosisAnswers =>
           \A s \in Slots : attempt[s] = "poll" => delivery[s] \notin Lost \ (doubled \cup dropped))
  BY DEF PolledListed, StatusShowsWork, Lost
<1> QED
  BY <1>1, <1>2, ReceiptsNext, PolledListedNext, WorkerTypeCorrect, StatusIsRight, PTL
     DEF Spec, PolledIsNotLost
=============================================================================
