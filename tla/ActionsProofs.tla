--------------------------- MODULE ActionsProofs ---------------------------
(* What the worker's action list guarantees when every writer rewrites it  *)
(* whole, for any number of commands: each command has its writers, and    *)
(* as long as no list is written over a newer one, the list agrees with    *)
(* what has been done. HostProofs puts the steps together.                 *)
EXTENDS WorkerActions, TLAPS

LEMMA AllowType ==
  ASSUME budget \in [Kinds \cup Mishaps -> Nat],
         NEW what, Allow(what)
  PROVE  budget' \in [Kinds \cup Mishaps -> Nat]
<1>1. \A x \in Kinds \cup Mishaps : budget'[x] = IF x = what THEN budget[what] - 1 ELSE budget[x]
  BY DEF Allow
<1>2. \A x \in Kinds \cup Mishaps : budget'[x] \in Nat
  BY <1>1 DEF Allow
<1> QED BY <1>2 DEF Allow

LEMMA WriterFacts ==
  /\ Loop \in Writers
  /\ Operators \subseteq Writers
  /\ \A c \in Commands : Helper(c) \in Writers /\ Helper(c) # Loop /\ Helper(c) \notin Operators
  /\ Loop \notin Operators
  /\ \A c, d \in Commands : Helper(c) = Helper(d) => c = d
  /\ \A w \in Writers : w \in Operators \/ w = Loop \/ \E c \in Commands : w = Helper(c)
  /\ <<"page", 0>> \in Operators
BY DEF Writers, Operators, Loop, Helper

LEMMA StatusFacts ==
  /\ Nothing \in [read : List, write : List, pen : Pen]
  /\ Nothing.read = Empty /\ Nothing.write = Empty /\ Nothing.pen = "up"
  /\ Empty \in List
  /\ \A c \in Commands : Empty[c] = "absent"
BY DEF Nothing, Empty, List, Pen

LEMMA ReadListType ==
  ASSUME ActionsTypeOK, NEW w \in Writers, NEW c \in Commands,
         NEW status \in {"queued", "running"} \cup Final, ReadList(w, c, status)
  PROVE  held' \in [Writers -> [read : List, write : List, pen : Pen]]
BY DEF ActionsTypeOK, ReadList, Updated, List, Pen

LEMMA FillListType ==
  ASSUME ActionsTypeOK, NEW w \in Writers, FillList(w)
  PROVE  /\ items' \in List
         /\ held' \in [Writers -> [read : List, write : List, pen : Pen]]
         /\ listTorn' \in BOOLEAN /\ clobbered' \in BOOLEAN /\ spoilt' \in BOOLEAN
<1>1. items' \in List
  BY DEF ActionsTypeOK, FillList
<1>2. held' \in [Writers -> [read : List, write : List, pen : Pen]]
  BY StatusFacts DEF ActionsTypeOK, FillList, Pen
<1>3. listTorn' \in BOOLEAN /\ clobbered' \in BOOLEAN /\ spoilt' \in BOOLEAN
  BY DEF ActionsTypeOK, FillList
<1> QED BY <1>1, <1>2, <1>3

-----------------------------------------------------------------------------
(* Which writer may be about to change what. *)

(* What w is about to say of c is not what it read. *)
Differs(w, c) == held[w].read[c] # held[w].write[c]

OperatorInv(w) ==
    \A c \in Commands : Differs(w, c) =>
        /\ kind[c] # "none" /\ held[w].write[c] = "queued"
        /\ \A v \in Operators : v # w => ~Differs(v, c)

HelperInv(d) ==
    /\ \A c \in Commands : Differs(Helper(d), c) => c = d
    /\ held[Helper(d)] # Nothing => helper[d] # "none" /\ held[Helper(d)].write[d] \in Final

LoopWriterInv ==
    /\ \A c \in Commands : Differs(Loop, c) => c = doing
    /\ held[Loop] # Nothing => stage \in Updating /\ held[Loop].write[doing] = outcome

WriterInv ==
    /\ \A w \in Operators : OperatorInv(w)
    /\ \A d \in Commands : HelperInv(d)
    /\ LoopWriterInv

(* Where the loop is, what it has in hand and what it is about to record. *)
StageInv ==
    /\ stage \in Updating \cup {"act"} => doing \in Commands
    /\ stage \in {"idle", "dead"} => doing = 0
    /\ stage \in {"take", "start", "act", "launch"} => outcome = "running"
    /\ stage = "announce" => outcome = "succeeded"
    /\ stage = "end" => outcome \in Final
    /\ stage = "launch" => helper[doing] # "none"

(* What the stored list says of c, as long as no newer list was lost. *)
Untouched(c) ==
    /\ effects[c] = 0
    /\ helper[c] = "none"
    /\ doing = c => stage = "take"

ItemInv(c) ==
    /\ kind[c] = "none" => items[c] = "absent"
    /\ items[c] \in {"absent", "queued"} => Untouched(c)
    /\ items[c] = "absent" => doing # c
    /\ effects[c] <= 1
    /\ doing = c => /\ stage = "take" => items[c] = "queued"
                    /\ stage \in {"start", "act"} => items[c] = "running"
                    /\ stage \in {"take", "start", "act", "announce"} => effects[c] = 0
                    /\ stage \in {"take", "start", "act"} => helper[c] = "none"
    /\ \A w \in Operators : Differs(w, c) => items[c] = "absent"
    /\ c \in accepted => items[c] # "absent"
    /\ items[c] = "running" /\ ~BeingWorkedOn(c) => c \in forsaken

ListInv == clobbered \/ \A c \in Commands : ItemInv(c)

(* A file that cannot be read is about to be filled. *)
TornInv == listTorn => clobbered \/ spoilt \/ \E w \in Writers : held[w].pen = "down"

ActionsOK == ActionsTypeOK /\ WriterInv /\ StageInv /\ ListInv /\ TornInv

LEMMA ActionsInvSuffices ==
  ASSUME ActionsOK
  PROVE  AcceptedIsKept /\ TakesEffectOnce /\ StuckWasForsaken
BY DEF ActionsOK, ActionsTypeOK, ListInv, ItemInv, TornInv, AcceptedIsKept, TakesEffectOnce, StuckWasForsaken

LEMMA ActionsInitOK ==
  ASSUME NEW limits \in [Kinds \cup Mishaps -> Nat], ActionsInit(limits)
  PROVE  ActionsOK
<1> USE WriterFacts, StatusFacts DEF ActionsInit
<1>1. ActionsTypeOK
  BY DEF ActionsTypeOK, Updating, Final
<1>2. WriterInv
  <2>1. \A w \in Writers : held[w] = Nothing /\ \A c \in Commands : ~Differs(w, c)
    BY DEF Differs
  <2> QED BY <2>1 DEF WriterInv, OperatorInv, HelperInv, LoopWriterInv
<1>3. StageInv
  BY DEF StageInv, Updating
<1>4. ListInv
  <2>1. \A w \in Operators, c \in Commands : ~Differs(w, c)
    BY DEF Differs
  <2> QED BY <2>1 DEF ListInv, ItemInv, Untouched, BeingWorkedOn, Commands
<1>5. TornInv
  BY DEF TornInv
<1> QED BY <1>1, <1>2, <1>3, <1>4, <1>5 DEF ActionsOK

-----------------------------------------------------------------------------
(* What reading and writing the list does to the writers. *)

LEMMA ReadListFacts ==
  ASSUME ActionsTypeOK, NEW w \in Writers, NEW c \in Commands,
         NEW status \in {"queued", "running"} \cup Final, ReadList(w, c, status)
  PROVE  /\ \A v \in Writers : v # w => held'[v] = held[v]
         /\ \A v \in Writers, d \in Commands : v # w => (Differs(v, d)' <=> Differs(v, d))
         /\ \A d \in Commands : Differs(w, d)' => d = c
         /\ held'[w].write[c] = status
         /\ held'[w].read = items
         /\ UNCHANGED <<items, clobbered>>
         /\ TornInv'
<1>1. \A v \in Writers : v # w => held'[v] = held[v]
  BY DEF ActionsTypeOK, ReadList
<1>2. held'[w] = [read |-> items, write |-> [items EXCEPT ![c] = status], pen |-> "up"]
  BY DEF ActionsTypeOK, ReadList, Updated
<1>3. TornInv'
  BY DEF ReadList, TornInv
<1> QED BY <1>1, <1>2, <1>3 DEF ActionsTypeOK, List, Differs, ReadList

LEMMA PenMoves ==
  ASSUME NEW h \in [read : List, write : List, pen : Pen], NEW p \in Pen
  PROVE  /\ [h EXCEPT !.pen = p] \in [read : List, write : List, pen : Pen]
         /\ [h EXCEPT !.pen = p].read = h.read /\ [h EXCEPT !.pen = p].write = h.write
         /\ [h EXCEPT !.pen = p].pen = p
         /\ p = h.pen => [h EXCEPT !.pen = p] = h
OBVIOUS

LEMMA CutListFacts ==
  ASSUME ActionsTypeOK, NEW w \in Writers, CutList(w)
  PROVE  /\ held' \in [Writers -> [read : List, write : List, pen : Pen]]
         /\ \A v \in Writers : /\ held'[v].read = held[v].read /\ held'[v].write = held[v].write
                               /\ held'[v] = Nothing <=> held[v] = Nothing
         /\ TornInv'
<1> DEFINE moved(v) == IF v = w \/ held[v].pen = "over" THEN "down" ELSE held[v].pen
<1>1. \A v \in Writers : held'[v] = [held[v] EXCEPT !.pen = moved(v)]
  BY DEF CutList
<1>2. \A v \in Writers : held[v] \in [read : List, write : List, pen : Pen] /\ moved(v) \in Pen
  BY DEF ActionsTypeOK, Pen
<1> HIDE DEF moved
<1>3. \A v \in Writers : /\ held'[v] \in [read : List, write : List, pen : Pen]
                         /\ held'[v].read = held[v].read /\ held'[v].write = held[v].write
                         /\ held'[v].pen = moved(v)
                         /\ moved(v) = held[v].pen => held'[v] = held[v]
  <2> TAKE v \in Writers
  <2> DEFINE h == held[v]  p == moved(v)
  <2>1. held'[v] = [h EXCEPT !.pen = p] /\ h \in [read : List, write : List, pen : Pen] /\ p \in Pen
    BY <1>1, <1>2
  <2> HIDE DEF h, p
  <2>2. /\ held'[v] \in [read : List, write : List, pen : Pen]
        /\ held'[v].read = h.read /\ held'[v].write = h.write
        /\ held'[v].pen = p
        /\ p = h.pen => held'[v] = h
    BY <2>1, PenMoves
  <2> QED BY <2>2 DEF h, p
<1>4. \A v \in Writers : held'[v] = Nothing <=> held[v] = Nothing
  <2>1. \A v \in Writers : moved(v) # held[v].pen => moved(v) = "down" /\ held[v] # Nothing
    BY StatusFacts DEF moved, CutList
  <2> QED BY <1>3, <2>1, StatusFacts
<1>5. held'[w].pen = "down"
  BY <1>3 DEF moved
<1>6. held' \in [Writers -> [read : List, write : List, pen : Pen]]
  BY <1>3 DEF CutList
<1> QED BY <1>3, <1>4, <1>5, <1>6 DEF TornInv

LEMMA FillListFacts ==
  ASSUME ActionsTypeOK, NEW w \in Writers, FillList(w)
  PROVE  /\ \A v \in Writers : v # w => /\ held'[v].read = held[v].read /\ held'[v].write = held[v].write
                                        /\ held'[v] = Nothing <=> held[v] = Nothing
         /\ \A v \in Writers, d \in Commands : v # w => (Differs(v, d)' <=> Differs(v, d))
         /\ held'[w] = Nothing
         /\ \A d \in Commands : ~Differs(w, d)'
         /\ ~clobbered' => /\ ~clobbered
                           /\ \A d \in Commands : ~Differs(w, d) => items'[d] = items[d]
                           /\ \A d \in Commands : Differs(w, d) => items'[d] = held[w].write[d]
         /\ TornInv'
<1>1. held'[w] = Nothing
  BY DEF FillList
<1> DEFINE moved(v) == IF held[v].pen = "down" THEN "over" ELSE held[v].pen
<1>2. \A v \in Writers : /\ held[v] \in [read : List, write : List, pen : Pen] /\ moved(v) \in Pen
                         /\ v # w => held'[v] = [held[v] EXCEPT !.pen = moved(v)]
  BY DEF FillList, ActionsTypeOK, Pen
<1> HIDE DEF moved
<1>3. \A v \in Writers :
        v # w => /\ held'[v].read = held[v].read /\ held'[v].write = held[v].write
                 /\ held'[v].pen = moved(v)
                 /\ moved(v) = held[v].pen => held'[v] = held[v]
  <2> SUFFICES ASSUME NEW v \in Writers, v # w
               PROVE  /\ held'[v].read = held[v].read /\ held'[v].write = held[v].write
                      /\ held'[v].pen = moved(v)
                      /\ moved(v) = held[v].pen => held'[v] = held[v]
    OBVIOUS
  <2> DEFINE h == held[v]  p == moved(v)
  <2>1. held'[v] = [h EXCEPT !.pen = p] /\ h \in [read : List, write : List, pen : Pen] /\ p \in Pen
    BY <1>2
  <2> HIDE DEF h, p
  <2>2. /\ held'[v].read = h.read /\ held'[v].write = h.write
        /\ held'[v].pen = p
        /\ p = h.pen => held'[v] = h
    BY <2>1, PenMoves
  <2> QED BY <2>2 DEF h, p
<1>4. \A v \in Writers : v # w => (held'[v] = Nothing <=> held[v] = Nothing)
  <2>1. \A v \in Writers : moved(v) # held[v].pen => moved(v) = "over" /\ held[v] # Nothing
    BY StatusFacts DEF moved
  <2> QED BY <1>3, <2>1, StatusFacts
<1>5. \A d \in Commands : ~Differs(w, d)'
  BY <1>1, StatusFacts DEF Differs
<1>6. ~clobbered' => ~clobbered /\ held[w].read = items /\ items' = held[w].write /\ listTorn' = FALSE
  BY DEF ActionsTypeOK, FillList
<1>7. TornInv'
  BY <1>6 DEF TornInv
<1> QED BY <1>1, <1>3, <1>4, <1>5, <1>6, <1>7 DEF Differs

LEMMA LetGoFacts ==
  ASSUME ActionsTypeOK, TornInv, NEW gone, LetGo(gone)
  PROVE  /\ held' \in [Writers -> [read : List, write : List, pen : Pen]]
         /\ spoilt' \in BOOLEAN
         /\ \A v \in Writers : held'[v] = IF v \in gone THEN Nothing ELSE held[v]
         /\ \A v \in Writers, d \in Commands : Differs(v, d)' <=> v \notin gone /\ Differs(v, d)
         /\ TornInv'
<1> USE StatusFacts
<1>1. \A v \in Writers : held'[v] = IF v \in gone THEN Nothing ELSE held[v]
  BY DEF LetGo
<1>2. held' \in [Writers -> [read : List, write : List, pen : Pen]]
  BY DEF LetGo, ActionsTypeOK
<1>3. \A v \in Writers, d \in Commands : Differs(v, d)' <=> v \notin gone /\ Differs(v, d)
  BY <1>1 DEF Differs
<1>4. spoilt' \in BOOLEAN /\ (~spoilt' => ~spoilt /\ \A w \in gone : held[w].pen # "down")
  BY DEF LetGo, ActionsTypeOK
<1>5. TornInv'
  <2> SUFFICES ASSUME listTorn, ~clobbered, ~spoilt' PROVE \E w \in Writers : held'[w].pen = "down"
    BY DEF LetGo, TornInv
  <2>1. PICK w \in Writers : held[w].pen = "down"
    BY <1>4 DEF TornInv
  <2> QED BY <1>1, <1>4, <2>1
<1> QED BY <1>1, <1>2, <1>3, <1>4, <1>5

(* Steps after which the writers have what they had, or have been let go. *)
LEMMA ListsDropped ==
  ASSUME ActionsOK,
         UNCHANGED <<items, kind, loopVars, helper, accepted, effects, forsaken, clobbered>>,
         \A v \in Writers : \/ held'[v] = Nothing
                            \/ /\ held'[v].read = held[v].read /\ held'[v].write = held[v].write
                               /\ held[v] # Nothing
  PROVE  WriterInv' /\ StageInv' /\ ListInv'
<1> USE WriterFacts DEF loopVars
<1>1. \A w \in Writers, d \in Commands : Differs(w, d)' => Differs(w, d)
  BY StatusFacts DEF Differs
<1>2. WriterInv'
  <2>1. \A v \in Operators : OperatorInv(v)'
    BY <1>1, StatusFacts DEF ActionsOK, WriterInv, OperatorInv, Differs
  <2>2. \A d \in Commands : HelperInv(d)'
    BY <1>1 DEF ActionsOK, WriterInv, HelperInv
  <2>3. LoopWriterInv'
    BY <1>1 DEF ActionsOK, WriterInv, LoopWriterInv
  <2> QED BY <2>1, <2>2, <2>3 DEF WriterInv
<1>3. StageInv'
  BY DEF ActionsOK, StageInv
<1>4. ListInv'
  BY <1>1 DEF ActionsOK, ListInv, ItemInv, Untouched, BeingWorkedOn
<1> QED BY <1>2, <1>3, <1>4

-----------------------------------------------------------------------------
(* The operators *)

LEMMA AskKeeps ==
  ASSUME ActionsOK, NEW w \in Operators, NEW k \in Kinds, Ask(w, k)
  PROVE  ActionsOK'
<1>a. CASE listTorn /\ UNCHANGED <<kind, listVars>>
  <2>1. budget' \in [Kinds \cup Mishaps -> Nat]
    BY AllowType DEF Ask, ActionsOK, ActionsTypeOK
  <2>2. ActionsTypeOK' /\ TornInv'
    BY <1>a, <2>1 DEF Ask, loopVars, listVars, ActionsOK, ActionsTypeOK, TornInv
  <2>3. \A v \in Writers : held'[v] = held[v] /\ (held[v] = Nothing \/ held[v] # Nothing)
    BY <1>a DEF listVars
  <2>4. WriterInv' /\ StageInv' /\ ListInv'
    BY <1>a, <2>3, ListsDropped DEF Ask, listVars, loopVars
  <2> QED BY <2>2, <2>4 DEF ActionsOK
<1> SUFFICES ASSUME ~(listTorn /\ UNCHANGED <<kind, listVars>>) PROVE ActionsOK'
  BY <1>a
<1>0. PICK c \in Commands : /\ kind[c] = "none"
                            /\ kind' = [kind EXCEPT ![c] = k]
                            /\ ReadList(w, c, "queued")
  BY DEF Ask
<1>1. ActionsTypeOK /\ w \in Writers /\ k # "none" /\ k \in Kinds
  BY WriterFacts, ActionConstantsAssumption DEF ActionsOK, ControlAction
<1> USE WriterFacts, <1>0, <1>1, ReadListFacts
<1> USE DEF Ask, loopVars, listVars
<1>2. ActionsTypeOK'
  BY AllowType, ReadListType DEF ActionsTypeOK, ReadList
<1>3. WriterInv'
  <2>1. \A v \in Operators : OperatorInv(v)'
    BY DEF ActionsOK, ActionsTypeOK, WriterInv, OperatorInv
  <2>2. \A d \in Commands : HelperInv(d)'
    BY DEF ActionsOK, WriterInv, HelperInv
  <2>3. LoopWriterInv'
    BY DEF ActionsOK, WriterInv, LoopWriterInv
  <2> QED BY <2>1, <2>2, <2>3 DEF WriterInv
<1>4. StageInv'
  BY DEF ActionsOK, StageInv
<1>5. ListInv'
  BY DEF ActionsOK, ActionsTypeOK, ListInv, ItemInv, Untouched, BeingWorkedOn
<1>6. TornInv'
  BY ReadListFacts
<1> QED BY <1>2, <1>3, <1>4, <1>5, <1>6 DEF ActionsOK

LEMMA EnqueueKeeps ==
  ASSUME ActionsOK, NEW w \in Operators, Enqueue(w)
  PROVE  ActionsOK'
<1>1. ActionsTypeOK /\ w \in Writers /\ FillList(w)
  BY WriterFacts DEF ActionsOK, Enqueue
<1> USE WriterFacts, <1>1, FillListFacts
<1> USE DEF Enqueue, loopVars
<1>2. ActionsTypeOK'
  BY FillListType DEF ActionsTypeOK
<1>3. WriterInv'
  <2>1. \A v \in Operators : OperatorInv(v)'
    BY DEF ActionsOK, WriterInv, OperatorInv
  <2>2. \A d \in Commands : HelperInv(d)'
    BY DEF ActionsOK, WriterInv, HelperInv
  <2>3. LoopWriterInv'
    BY DEF ActionsOK, WriterInv, LoopWriterInv
  <2> QED BY <2>1, <2>2, <2>3 DEF WriterInv
<1>4. StageInv'
  BY DEF ActionsOK, StageInv
<1>5. ListInv'
  <2> SUFFICES ASSUME ~clobbered', NEW c \in Commands PROVE ItemInv(c)'
    BY DEF ListInv
  <2>1. ItemInv(c)
    BY DEF ActionsOK, ListInv
  <2>2. OperatorInv(w)
    BY DEF ActionsOK, WriterInv
  <2>3. c \in accepted' <=> c \in accepted \/ Differs(w, c)
    BY DEF Differs
  <2>4. CASE Differs(w, c)
    BY <2>1, <2>2, <2>3, <2>4 DEF ItemInv, OperatorInv, Untouched, BeingWorkedOn
  <2>5. CASE ~Differs(w, c)
    BY <2>1, <2>3, <2>5 DEF ItemInv, Untouched, BeingWorkedOn
  <2> QED BY <2>4, <2>5
<1>6. TornInv'
  BY FillListFacts
<1> QED BY <1>2, <1>3, <1>4, <1>5, <1>6 DEF ActionsOK

LEMMA CutKeeps == ASSUME ActionsOK, NEW w \in Writers, Cut(w) PROVE ActionsOK'
<1> USE CutListFacts DEF Cut, CutList
<1>1. ActionsTypeOK' /\ TornInv'
  BY DEF ActionsOK, ActionsTypeOK, loopVars
<1>2. WriterInv' /\ StageInv' /\ ListInv'
  <2>1. \A v \in Writers : /\ held'[v].read = held[v].read /\ held'[v].write = held[v].write
                           /\ held'[v] = Nothing <=> held[v] = Nothing
    BY DEF ActionsOK
  <2> QED BY <2>1, ListsDropped
<1> QED BY <1>1, <1>2 DEF ActionsOK

LEMMA AskLostKeeps == ASSUME ActionsOK, AskLost PROVE ActionsOK'
<1>1. ActionsTypeOK' /\ TornInv' /\ \A v \in Writers : held'[v] \in {held[v], Nothing}
  BY LetGoFacts DEF AskLost, LetGo, ActionsOK, ActionsTypeOK, loopVars
<1>2. WriterInv' /\ StageInv' /\ ListInv'
  BY <1>1, ListsDropped DEF AskLost, LetGo
<1> QED BY <1>1, <1>2 DEF ActionsOK

-----------------------------------------------------------------------------
(* The control loop *)

LEMMA TakeKeeps == ASSUME ActionsOK, Take PROVE ActionsOK'
<1>0. PICK c \in Pending(items) : doing' = c
  BY DEF Take
<1>1. ActionsTypeOK /\ c \in Commands /\ items[c] = "queued"
  BY <1>0 DEF ActionsOK, Pending
<1> USE WriterFacts, <1>0, <1>1
<1> USE DEF Take, listVars, Updating
<1>2. ActionsTypeOK'
  BY DEF ActionsTypeOK
<1>3. WriterInv'
  <2>1. \A v \in Operators : OperatorInv(v)'
    BY DEF ActionsOK, WriterInv, OperatorInv, Differs
  <2>2. \A d \in Commands : HelperInv(d)'
    BY DEF ActionsOK, WriterInv, HelperInv, Differs
  <2>3. LoopWriterInv'
    BY StatusFacts DEF ActionsOK, WriterInv, LoopWriterInv, Differs
  <2> QED BY <2>1, <2>2, <2>3 DEF WriterInv
<1>4. StageInv'
  BY DEF StageInv
<1>5. ListInv'
  <2> SUFFICES ASSUME ~clobbered', NEW d \in Commands PROVE ItemInv(d)'
    BY DEF ListInv
  <2>1. ItemInv(d) /\ stage = "idle" /\ doing = 0
    BY DEF ActionsOK, ListInv, StageInv
  <2> QED BY <2>1 DEF ItemInv, Untouched, BeingWorkedOn, Differs, Commands
<1>6. TornInv'
  BY DEF ActionsOK, TornInv
<1> QED BY <1>2, <1>3, <1>4, <1>5, <1>6 DEF ActionsOK

LEMMA TakeRaisesKeeps == ASSUME ActionsOK, TakeRaises PROVE ActionsOK'
<1> USE WriterFacts DEF TakeRaises, listVars
<1>1. \A w \in Writers, d \in Commands : Differs(w, d)' <=> Differs(w, d)
  BY DEF Differs
<1>2. ActionsTypeOK'
  BY DEF ActionsOK, ActionsTypeOK
<1>3. WriterInv'
  BY <1>1 DEF ActionsOK, WriterInv, OperatorInv, HelperInv, LoopWriterInv, Updating
<1>4. StageInv'
  BY DEF ActionsOK, StageInv, Updating
<1>5. ListInv'
  <2> SUFFICES ASSUME ~clobbered', NEW d \in Commands PROVE ItemInv(d)'
    BY DEF ListInv
  <2>1. ItemInv(d) /\ doing = 0
    BY DEF ActionsOK, ListInv, StageInv
  <2> QED BY <1>1, <2>1 DEF ItemInv, Untouched, BeingWorkedOn, Commands
<1>6. TornInv'
  BY DEF ActionsOK, TornInv
<1> QED BY <1>2, <1>3, <1>4, <1>5, <1>6 DEF ActionsOK

LEMMA UpdateReadsKeeps == ASSUME ActionsOK, UpdateReads PROVE ActionsOK'
<1>1. /\ ActionsTypeOK /\ Loop \in Writers
      /\ doing \in Commands /\ outcome \in {"queued", "running"} \cup Final
      /\ ReadList(Loop, doing, outcome)
  BY WriterFacts DEF ActionsOK, ActionsTypeOK, StageInv, UpdateReads
<1> USE WriterFacts, <1>1, ReadListFacts
<1> USE DEF UpdateReads, loopVars, listVars
<1>2. ActionsTypeOK'
  BY ReadListType DEF ActionsTypeOK, ReadList
<1>3. WriterInv'
  <2>1. \A v \in Operators : OperatorInv(v)'
    BY DEF ActionsOK, WriterInv, OperatorInv
  <2>2. \A d \in Commands : HelperInv(d)'
    BY DEF ActionsOK, WriterInv, HelperInv
  <2>3. LoopWriterInv'
    BY DEF ActionsOK, WriterInv, LoopWriterInv
  <2> QED BY <2>1, <2>2, <2>3 DEF WriterInv
<1>4. StageInv'
  BY DEF ActionsOK, StageInv
<1>5. ListInv'
  BY DEF ActionsOK, ListInv, ItemInv, Untouched, BeingWorkedOn
<1>6. TornInv'
  BY ReadListFacts
<1> QED BY <1>2, <1>3, <1>4, <1>5, <1>6 DEF ActionsOK

(* What the loop writes is its verdict on the command in hand. *)
LEMMA LoopWrites ==
  ASSUME ActionsOK, stage \in Updating, FillList(Loop), ~clobbered'
  PROVE  /\ ~clobbered
         /\ items'[doing] = outcome
         /\ \A c \in Commands : c # doing => items'[c] = items[c]
<1>1. ActionsTypeOK /\ Loop \in Writers /\ doing \in Commands
  BY WriterFacts DEF ActionsOK, StageInv
<1>2. LoopWriterInv /\ held[Loop].write[doing] = outcome
  BY <1>1, StatusFacts DEF ActionsOK, WriterInv, LoopWriterInv, FillList
<1>3. ~Differs(Loop, doing) => items'[doing] = held[Loop].read[doing] /\ items'[doing] = outcome
  BY <1>1, <1>2 DEF Differs, FillList
<1> QED BY <1>1, <1>2, <1>3, FillListFacts DEF LoopWriterInv

LEMMA UpdateWritesKeeps == ASSUME ActionsOK, UpdateWrites PROVE ActionsOK'
<1>1. /\ ActionsTypeOK /\ Loop \in Writers /\ doing \in Commands
      /\ FillList(Loop) /\ stage \in Updating
  BY WriterFacts DEF ActionsOK, StageInv, UpdateWrites
<1> USE WriterFacts, <1>1, FillListFacts
<1>a. /\ stage = "take" => stage' = "start"
      /\ stage = "start" => stage' = "act"
      /\ stage = "announce" => stage' = "end"
      /\ stage = "launch" => stage' = "idle"
      /\ stage = "end" => stage' = "idle"
  BY DEF ActionsOK, StageInv, UpdateWrites, Updating, Finally, Concluded, Final
<1>2. ActionsTypeOK'
  <2>1. stage' \in Updating \cup {"idle", "act", "dead"}
    BY <1>a DEF Updating
  <2>2. doing' \in Commands \cup {0} /\ timers' \subseteq {"process", "container"}
    BY DEF UpdateWrites, ActionsTypeOK
  <2>3. effects' \in [Commands -> Nat] /\ forsaken' \subseteq Commands
    BY DEF UpdateWrites, ActionsTypeOK
  <2> QED BY <2>1, <2>2, <2>3, FillListType DEF UpdateWrites, ActionsTypeOK
<1>3. WriterInv'
  <2>1. \A v \in Operators : OperatorInv(v)'
    BY DEF UpdateWrites, ActionsOK, WriterInv, OperatorInv
  <2>2. \A d \in Commands : HelperInv(d)'
    BY DEF UpdateWrites, ActionsOK, WriterInv, HelperInv
  <2>3. LoopWriterInv'
    BY DEF LoopWriterInv
  <2> QED BY <2>1, <2>2, <2>3 DEF WriterInv
<1>4. StageInv'
  BY <1>a DEF UpdateWrites, ActionsOK, StageInv, Updating, Final
<1>5. ListInv'
  <2> SUFFICES ASSUME ~clobbered', NEW c \in Commands PROVE ItemInv(c)'
    BY DEF ListInv
  <2>1. ItemInv(c) /\ StageInv
    BY DEF ActionsOK, ListInv
  <2>2. items'[doing] = outcome /\ (c # doing => items'[c] = items[c])
    BY LoopWrites
  <2>3. c # doing => (doing' # c /\ effects'[c] = effects[c] /\ (c \in forsaken' <=> c \in forsaken))
    BY DEF UpdateWrites, ActionsTypeOK, Commands
  <2>4. CASE c # doing
    BY <2>1, <2>2, <2>3, <2>4 DEF UpdateWrites, ItemInv, Untouched, BeingWorkedOn
  <2>5. CASE c = doing
    <3>1. items[c] # "absent" /\ outcome \in {"running"} \cup Final
      BY <2>1, <2>5 DEF ItemInv, ActionsTypeOK
    <3>2. effects'[c] <= 1 /\ effects'[c] \in Nat /\ (stage # "announce" => effects'[c] = effects[c])
      BY <2>1, <2>5 DEF ItemInv, UpdateWrites, ActionsTypeOK
    <3>3. /\ kind'[c] # "none" /\ items'[c] # "absent" /\ items'[c] # "queued"
          /\ \A w \in Operators : ~Differs(w, c)'
      BY <2>1, <2>2, <2>5, <3>1 DEF ItemInv, UpdateWrites, Final
    <3>4. items'[c] = "running" /\ ~BeingWorkedOn(c)' => c \in forsaken'
      BY <1>a, <2>1, <2>2, <2>5 DEF UpdateWrites, StageInv, BeingWorkedOn, Updating, Final, ActionsTypeOK, Commands
    <3>5. doing' = c => /\ stage' # "take"
                        /\ stage' \in {"start", "act"} => items'[c] = "running"
                        /\ stage' \in {"take", "start", "act", "announce"} => effects'[c] = 0
                        /\ stage' \in {"take", "start", "act"} => helper'[c] = "none"
      BY <1>a, <2>1, <2>2, <2>5 DEF UpdateWrites, ItemInv, StageInv, Updating
    <3> QED BY <3>2, <3>3, <3>4, <3>5 DEF ItemInv
  <2> QED BY <2>4, <2>5
<1>6. TornInv'
  BY FillListFacts
<1> QED BY <1>2, <1>3, <1>4, <1>5, <1>6 DEF ActionsOK

LEMMA UnsavedKeeps == ASSUME ActionsOK, UpdateRaises \/ UpdateUnread PROVE ActionsOK'
<1>1. ActionsTypeOK /\ Loop \in Writers /\ doing \in Commands /\ stage \in Updating /\ Unsaved
  BY WriterFacts DEF ActionsOK, StageInv, UpdateRaises, UpdateUnread
<1> USE WriterFacts, <1>1
<1>a. IF stage \in {"announce", "launch"} THEN stage' = "end" /\ outcome' = "failed" /\ doing' = doing
                                          ELSE stage' = "dead" /\ outcome' = outcome /\ doing' = 0
  BY DEF Unsaved, Finally, Concluded, Final
(* Whether or not the list was written. *)
<1>b. /\ \A v \in Writers : v # Loop => /\ held'[v].read = held[v].read /\ held'[v].write = held[v].write
                                        /\ held'[v] = Nothing <=> held[v] = Nothing
      /\ held'[Loop] = Nothing
      /\ \A v \in Writers, d \in Commands : Differs(v, d)' => v # Loop /\ Differs(v, d)
      /\ items' \in List
      /\ held' \in [Writers -> [read : List, write : List, pen : Pen]]
      /\ listTorn' \in BOOLEAN /\ clobbered' \in BOOLEAN /\ spoilt' \in BOOLEAN
      /\ TornInv'
      /\ ~clobbered' => /\ ~clobbered
                        /\ \A c \in Commands : c # doing => items'[c] = items[c]
                        /\ items'[doing] \in {items[doing], outcome}
  <2>1. CASE FillList(Loop)
    <3>1. \A v \in Writers, d \in Commands : Differs(v, d)' => v # Loop /\ Differs(v, d)
      BY <2>1, FillListFacts
    <3> QED BY <2>1, <3>1, FillListFacts, FillListType, LoopWrites
  <2>2. CASE LetGo({Loop})
    <3>1. \A v \in Writers : held'[v] = IF v = Loop THEN Nothing ELSE held[v]
      BY <2>2 DEF LetGo
    <3>2. \A v \in Writers, d \in Commands : Differs(v, d)' => v # Loop /\ Differs(v, d)
      BY <3>1, StatusFacts DEF Differs
    <3> QED BY <2>2, <3>1, <3>2, LetGoFacts DEF LetGo, ActionsOK, ActionsTypeOK
  <2>3. CASE UpdateUnread
    <3>1. held[Loop] = Nothing /\ UNCHANGED listVars
      BY <2>3 DEF UpdateUnread
    <3>2. \A v \in Writers, d \in Commands : Differs(v, d)' => v # Loop /\ Differs(v, d)
      BY <3>1, StatusFacts DEF Differs, listVars
    <3> QED BY <3>1, <3>2 DEF listVars, ActionsOK, ActionsTypeOK, TornInv
  <2> QED BY <2>1, <2>2, <2>3 DEF UpdateRaises
<1>2. ActionsTypeOK'
  <2>1. budget' \in [Kinds \cup Mishaps -> Nat]
    BY AllowType DEF UpdateRaises, UpdateUnread, ActionsTypeOK
  <2>2. /\ stage' \in Updating \cup {"idle", "act", "dead"} /\ doing' \in Commands \cup {0}
        /\ outcome' \in {"running"} \cup Final
    BY <1>a DEF Updating, Final, ActionsTypeOK
  <2>3. forsaken' \subseteq Commands
    BY DEF Unsaved, ActionsTypeOK
  <2> QED BY <1>b, <2>1, <2>2, <2>3 DEF Unsaved, ActionsTypeOK
<1>3. WriterInv'
  <2>1. \A v \in Operators : OperatorInv(v)'
    BY <1>b DEF Unsaved, ActionsOK, WriterInv, OperatorInv
  <2>2. \A d \in Commands : HelperInv(d)'
    BY <1>b DEF Unsaved, ActionsOK, WriterInv, HelperInv
  <2>3. LoopWriterInv'
    BY <1>b DEF LoopWriterInv
  <2> QED BY <2>1, <2>2, <2>3 DEF WriterInv
<1>4. StageInv'
  BY <1>a DEF StageInv, Updating, Final
<1>5. ListInv'
  <2> SUFFICES ASSUME ~clobbered', NEW c \in Commands PROVE ItemInv(c)'
    BY DEF ListInv
  <2>1. ItemInv(c) /\ StageInv
    BY <1>b DEF ActionsOK, ListInv
  <2>2. \A w \in Operators : Differs(w, c)' => Differs(w, c)
    BY <1>b
  <2>3. c # doing => items'[c] = items[c] /\ doing' # c /\ (c \in forsaken' <=> c \in forsaken)
    BY <1>a, <1>b DEF Unsaved, Commands
  <2>4. CASE c # doing
    BY <2>1, <2>2, <2>3, <2>4 DEF Unsaved, ItemInv, Untouched, BeingWorkedOn
  <2>5. CASE c = doing
    <3>1. items'[c] \in {items[c], outcome}
      BY <1>b, <2>5
    <3>2. doing' # c => stage \notin {"announce", "launch"} /\ c \in forsaken'
      BY <1>a, <2>5 DEF Unsaved
    <3>3. outcome \notin {"absent", "queued"}
      BY DEF ActionsTypeOK, Final
    <3> QED BY <1>a, <2>1, <2>2, <2>5, <3>1, <3>2, <3>3 DEF Unsaved, ItemInv, StageInv, Untouched, BeingWorkedOn, Commands
  <2> QED BY <2>4, <2>5
<1>6. TornInv'
  BY <1>b
<1> QED BY <1>2, <1>3, <1>4, <1>5, <1>6 DEF ActionsOK

LEMMA ActKeeps == ASSUME ActionsOK, Act PROVE ActionsOK'
<1>1. ActionsTypeOK /\ Loop \in Writers /\ doing \in Commands /\ stage = "act" /\ outcome = "running"
  BY WriterFacts DEF ActionsOK, StageInv, Act
<1> USE WriterFacts, <1>1
(* What the command did, and what the loop goes on to record. *)
<1>a. /\ \/ stage' = "end" /\ outcome' \in Final
         \/ stage' = "announce" /\ outcome' = "succeeded"
         \/ stage' = "launch" /\ outcome' = "running" /\ helper'[doing] = "started"
      /\ doing' = doing
      /\ effects' = effects \/ (effects' = [effects EXCEPT ![doing] = @ + 1] /\ stage' # "announce")
      /\ \/ helper' = helper
         \/ helper' = [helper EXCEPT ![doing] = "started"] /\ stage' = "launch"
      /\ budget' \in [Kinds \cup Mishaps -> Nat]
  <2>1. CASE Effect(kind[doing])
    <3>1. CASE DoneAtOnce(kind[doing])
      BY <2>1, <3>1 DEF Effect, DoneAtOnce, ActionsTypeOK, Final
    <3>2. CASE RestartAnnounced(kind[doing])
      BY <2>1, <3>2 DEF Effect, RestartAnnounced, ActionsTypeOK
    <3>3. CASE HelperLaunched(kind[doing])
      BY <2>1, <3>3 DEF Effect, HelperLaunched, ActionsTypeOK
    <3> QED BY <2>1, <3>1, <3>2, <3>3 DEF Effect
  <2>2. CASE EffectRaises(kind[doing])
    BY <2>2, AllowType DEF EffectRaises, Finally, Concluded, Final, ActionsTypeOK
  <2> QED BY <2>1, <2>2 DEF Act
<1>2. ActionsTypeOK'
  <2>1. effects' \in [Commands -> Nat]
    BY <1>a DEF ActionsTypeOK
  <2>2. helper' \in [Commands -> {"none", "started", "building", "swapping", "gone"} \cup Final]
    BY <1>a DEF ActionsTypeOK
  <2>3. /\ stage' \in Updating \cup {"idle", "act", "dead"} /\ doing' \in Commands \cup {0}
        /\ outcome' \in {"running"} \cup Final
    BY <1>a DEF Updating, Final
  <2> QED BY <1>a, <2>1, <2>2, <2>3 DEF Act, listVars, ActionsTypeOK
<1>b. /\ held[Loop] = Nothing
      /\ \A d \in Commands : ~Differs(Loop, d)
  BY StatusFacts DEF ActionsOK, WriterInv, LoopWriterInv, Updating, Differs
<1>c. \A w \in Writers, d \in Commands : Differs(w, d)' <=> Differs(w, d)
  BY DEF Differs, Act, listVars
<1>3. WriterInv'
  <2>1. \A v \in Operators : OperatorInv(v)'
    BY <1>c DEF Act, listVars, ActionsOK, WriterInv, OperatorInv
  <2>2. \A d \in Commands : helper[d] # "none" => helper'[d] # "none"
    BY <1>a DEF ActionsTypeOK
  <2>3. \A d \in Commands : HelperInv(d)'
    BY <1>c, <2>2 DEF Act, listVars, ActionsOK, WriterInv, HelperInv
  <2>4. LoopWriterInv'
    BY <1>b, <1>c DEF Act, listVars, LoopWriterInv
  <2> QED BY <2>1, <2>3, <2>4 DEF WriterInv
<1>4. StageInv'
  BY <1>a DEF StageInv, Updating
<1>5. ListInv'
  <2> SUFFICES ASSUME ~clobbered', NEW c \in Commands PROVE ItemInv(c)'
    BY DEF ListInv
  <2>1. ItemInv(c) /\ items'[c] = items[c] /\ kind'[c] = kind[c]
    BY DEF ActionsOK, ListInv, Act, listVars
  <2>2. \A w \in Operators : Differs(w, c)' => Differs(w, c)
    BY <1>c
  <2>3. CASE c # doing
    <3>1. effects'[c] = effects[c] /\ helper'[c] = helper[c] /\ doing' # c
      BY <1>a, <2>3 DEF ActionsTypeOK
    <3> QED BY <2>1, <2>2, <2>3, <3>1 DEF Act, ItemInv, Untouched, BeingWorkedOn
  <2>4. CASE c = doing
    <3>1. items[c] = "running" /\ effects[c] = 0
      BY <2>1, <2>4 DEF ItemInv
    <3>2. effects'[c] <= 1 /\ (stage' = "announce" => effects'[c] = 0)
      BY <1>a, <2>4, <3>1 DEF ActionsTypeOK
    <3> QED BY <1>a, <2>1, <2>2, <2>4, <3>1, <3>2 DEF Act, ItemInv, BeingWorkedOn
  <2> QED BY <2>3, <2>4
<1>6. TornInv'
  BY DEF Act, listVars, ActionsOK, TornInv
<1> QED BY <1>2, <1>3, <1>4, <1>5, <1>6 DEF ActionsOK

-----------------------------------------------------------------------------
(* The end of the worker's process *)

(* The loop and the page's requests are gone; the other writers are not. *)
LEMMA ProcessEndsFacts ==
  ASSUME ActionsTypeOK, TornInv, ProcessEnds
  PROVE  /\ held' \in [Writers -> [read : List, write : List, pen : Pen]]
         /\ spoilt' \in BOOLEAN /\ TornInv'
         /\ held'[Loop] = Nothing
         /\ \A w \in Writers : held'[w] \in {held[w], Nothing}
         /\ \A w \in Writers, d \in Commands : Differs(w, d)' => w # Loop /\ Differs(w, d)
         /\ forsaken' \subseteq Commands
         /\ \A d \in Commands : d \in forsaken' <=> d \in forsaken \/ d = doing
<1> USE WriterFacts, StatusFacts
<1>1. \A w \in Writers : held'[w] = IF w \in {Loop, <<"page", 0>>} THEN Nothing ELSE held[w]
  BY DEF ProcessEnds, LetGo
<1>2. held' \in [Writers -> [read : List, write : List, pen : Pen]]
  BY LetGoFacts DEF ProcessEnds
<1>3. \A w \in Writers, d \in Commands : Differs(w, d)' => w # Loop /\ Differs(w, d)
  BY <1>1 DEF Differs
<1>4. forsaken' \subseteq Commands /\ \A d \in Commands : d \in forsaken' <=> d \in forsaken \/ d = doing
  BY DEF ProcessEnds, ActionsTypeOK, Commands
<1>5. spoilt' \in BOOLEAN /\ TornInv'
  BY LetGoFacts DEF ProcessEnds
<1> QED BY <1>1, <1>2, <1>3, <1>4, <1>5

LEMMA ProcessStopsKeeps == ASSUME ActionsOK, ProcessStops PROVE ActionsOK'
<1>1. /\ ActionsTypeOK /\ TornInv /\ ProcessEnds
      /\ UNCHANGED <<items, listTorn, kind, accepted, effects, clobbered>>
      /\ \/ UNCHANGED helper
         \/ \E c \in Commands : helper[c] = "building" /\ helper' = [helper EXCEPT ![c] = "swapping"]
      /\ budget' \in [Kinds \cup Mishaps -> Nat]
      /\ worker' \in {"up", "down"}
  <2>1. CASE RestartFires
    BY <2>1 DEF RestartFires, ProcessEnds, LetGo, ActionsOK, ActionsTypeOK
  <2>2. CASE Crash
    BY <2>2, AllowType DEF Crash, ProcessEnds, LetGo, ActionsOK, ActionsTypeOK
  <2>3. CASE \E c \in Commands : HelperBuilt(c)
    BY <2>3 DEF HelperBuilt, HelperSteps, ProcessEnds, LetGo, ActionsOK, ActionsTypeOK
  <2> QED BY <2>1, <2>2, <2>3 DEF ProcessStops
<1>b. helper \in [Commands -> {"none", "started", "building", "swapping", "gone"} \cup Final]
  BY <1>1 DEF ActionsTypeOK
<1>a. /\ helper' \in [Commands -> {"none", "started", "building", "swapping", "gone"} \cup Final]
      /\ \A d \in Commands : (helper[d] = "none" <=> helper'[d] = "none") /\ (helper[d] = "gone" <=> helper'[d] = "gone")
  <2>1. CASE UNCHANGED helper
    BY <1>b, <2>1
  <2>2. CASE \E c \in Commands : helper[c] = "building" /\ helper' = [helper EXCEPT ![c] = "swapping"]
    BY <1>b, <2>2
  <2> QED BY <1>1, <2>1, <2>2
<1> USE WriterFacts, <1>1, ProcessEndsFacts
<1>2. ActionsTypeOK'
  BY <1>a DEF ProcessEnds, ActionsTypeOK
<1>3. WriterInv'
  <2>1. \A v \in Operators : OperatorInv(v)'
    BY StatusFacts DEF ActionsOK, WriterInv, OperatorInv, Differs
  <2>2. \A d \in Commands : HelperInv(d)'
    BY <1>a DEF ActionsOK, WriterInv, HelperInv
  <2>3. LoopWriterInv'
    BY DEF LoopWriterInv
  <2> QED BY <2>1, <2>2, <2>3 DEF WriterInv
<1>4. StageInv'
  BY DEF ProcessEnds, StageInv, Updating
<1>5. ListInv'
  <2> SUFFICES ASSUME ~clobbered', NEW c \in Commands PROVE ItemInv(c)'
    BY DEF ListInv
  <2>1. ItemInv(c) /\ doing' = 0 /\ doing' # c
    BY DEF ActionsOK, ListInv, ProcessEnds, Commands
  <2>2. \A w \in Operators : Differs(w, c)' => Differs(w, c)
    OBVIOUS
  <2> QED BY <1>a, <2>1, <2>2 DEF ItemInv, Untouched, BeingWorkedOn
<1>6. TornInv'
  OBVIOUS
<1> QED BY <1>2, <1>3, <1>4, <1>5, <1>6 DEF ActionsOK

-----------------------------------------------------------------------------
(* The helper *)

(* A helper that moves on without touching the list. *)
LEMMA HelperMovesKeeps ==
  ASSUME ActionsOK, NEW c \in Commands,
         HelperStarts(c) \/ HelperBuildFails(c) \/ HelperSwapped(c) \/ HelperSwapFails(c)
  PROVE  ActionsOK'
<1>1. /\ ActionsTypeOK
      /\ UNCHANGED <<listVars, kind, loopVars, timers, accepted, effects>>
      /\ helper[c] \in {"started", "building", "swapping"}
      /\ \E to \in {"gone", "building"} \cup Final :
            helper' = [helper EXCEPT ![c] = to] /\ (to = "gone" => items[c] = "absent" \/ c \in forsaken')
      /\ forsaken' = forsaken \/ forsaken' = forsaken \cup {c}
      /\ budget' \in [Kinds \cup Mishaps -> Nat]
      /\ worker' \in {"up", "down"}
  <2>1. CASE HelperStarts(c)
    <3> DEFINE to == IF listTorn \/ items[c] = "absent" THEN "gone" ELSE "building"
    <3>1. to \in {"gone", "building"} /\ (to = "gone" => items[c] = "absent" \/ c \in forsaken')
      BY <2>1 DEF HelperStarts
    <3>2. helper' = [helper EXCEPT ![c] = to]
      BY <2>1 DEF HelperStarts, HelperSteps
    <3> HIDE DEF to
    <3> QED BY <2>1, <3>1, <3>2 DEF HelperStarts, HelperSteps, ActionsOK, ActionsTypeOK
  <2>2. CASE HelperBuildFails(c)
    BY <2>2, AllowType DEF HelperBuildFails, HelperSteps, ActionsOK, ActionsTypeOK, Final
  <2>3. CASE HelperSwapped(c)
    BY <2>3 DEF HelperSwapped, HelperSteps, ActionsOK, ActionsTypeOK, Final
  <2>4. CASE HelperSwapFails(c)
    BY <2>4, AllowType DEF HelperSwapFails, HelperSteps, ActionsOK, ActionsTypeOK, Final
  <2> QED BY <2>1, <2>2, <2>3, <2>4
<1> USE <1>1 DEF loopVars, listVars
<1>a. /\ helper' \in [Commands -> {"none", "started", "building", "swapping", "gone"} \cup Final]
      /\ \A d \in Commands : d # c => helper'[d] = helper[d]
      /\ helper'[c] # "none" /\ (helper'[c] = "gone" => items[c] = "absent" \/ c \in forsaken')
      /\ forsaken \subseteq forsaken'
  BY DEF ActionsTypeOK, Final
<1>b. \A w \in Writers, d \in Commands : Differs(w, d)' <=> Differs(w, d)
  BY DEF Differs
<1>2. ActionsTypeOK'
  BY <1>a DEF ActionsTypeOK
<1>3. WriterInv'
  BY <1>a, <1>b, WriterFacts DEF ActionsOK, WriterInv, OperatorInv, HelperInv, LoopWriterInv
<1>4. StageInv'
  BY <1>a DEF ActionsOK, StageInv
<1>5. ListInv'
  <2> SUFFICES ASSUME ~clobbered', NEW d \in Commands PROVE ItemInv(d)'
    BY DEF ListInv
  <2>1. ItemInv(d)
    BY DEF ActionsOK, ListInv
  <2>2. \A w \in Operators : Differs(w, d)' => Differs(w, d)
    BY <1>b, WriterFacts
  <2> QED BY <1>a, <2>1, <2>2 DEF ItemInv, Untouched, BeingWorkedOn
<1>6. TornInv'
  BY DEF ActionsOK, TornInv
<1> QED BY <1>2, <1>3, <1>4, <1>5, <1>6 DEF ActionsOK

LEMMA HelperReadsKeeps == ASSUME ActionsOK, NEW c \in Commands, HelperReads(c) PROVE ActionsOK'
<1>1. /\ ActionsTypeOK /\ Helper(c) \in Writers /\ helper[c] \in {"queued", "running"} \cup Final
      /\ helper[c] \in Final /\ ReadList(Helper(c), c, helper[c])
  BY WriterFacts DEF ActionsOK, HelperReads
<1> DEFINE status == helper[c]
<1>0. status \in {"queued", "running"} \cup Final /\ ReadList(Helper(c), c, status)
  BY <1>1
<1> HIDE DEF status
<1>b. /\ \A v \in Writers : v # Helper(c) => held'[v] = held[v]
      /\ \A v \in Writers, d \in Commands : v # Helper(c) => (Differs(v, d)' <=> Differs(v, d))
      /\ \A d \in Commands : Differs(Helper(c), d)' => d = c
      /\ held'[Helper(c)].write[c] = status
      /\ held'[Helper(c)].read = items
      /\ UNCHANGED <<items, clobbered>>
  BY <1>0, <1>1, ReadListFacts
<1>a. /\ \A v \in Writers : v # Helper(c) => held'[v] = held[v]
      /\ \A v \in Writers, d \in Commands : v # Helper(c) => (Differs(v, d)' <=> Differs(v, d))
      /\ \A d \in Commands : Differs(Helper(c), d)' => d = c
      /\ held'[Helper(c)].write[c] = helper[c]
      /\ held'[Helper(c)].read = items
      /\ UNCHANGED <<items, clobbered>>
  BY <1>b DEF status
<1> USE WriterFacts, <1>1, <1>a
<1> USE DEF HelperReads, loopVars, listVars
<1>2. ActionsTypeOK'
  BY ReadListType DEF ActionsTypeOK, ReadList
<1>3. WriterInv'
  <2>1. \A v \in Operators : OperatorInv(v)'
    BY DEF ActionsOK, WriterInv, OperatorInv
  <2>2. \A d \in Commands : HelperInv(d)'
    BY DEF ActionsOK, WriterInv, HelperInv, Final
  <2>3. LoopWriterInv'
    BY DEF ActionsOK, WriterInv, LoopWriterInv
  <2> QED BY <2>1, <2>2, <2>3 DEF WriterInv
<1>4. StageInv'
  BY DEF ActionsOK, StageInv
<1>5. ListInv'
  BY DEF ActionsOK, ListInv, ItemInv, Untouched, BeingWorkedOn
<1>6. TornInv'
  BY <1>1, ReadListFacts
<1> QED BY <1>2, <1>3, <1>4, <1>5, <1>6 DEF ActionsOK

LEMMA HelperWritesKeeps == ASSUME ActionsOK, NEW c \in Commands, HelperWrites(c) PROVE ActionsOK'
<1>1. ActionsTypeOK /\ Helper(c) \in Writers /\ FillList(Helper(c)) /\ helper[c] # "none"
  BY WriterFacts, StatusFacts DEF ActionsOK, WriterInv, HelperInv, HelperWrites, FillList
<1> USE WriterFacts, <1>1, FillListFacts
<1> USE DEF HelperWrites, loopVars
<1>a. /\ helper' \in [Commands -> {"none", "started", "building", "swapping", "gone"} \cup Final]
      /\ \A d \in Commands : d # c => helper'[d] = helper[d]
      /\ helper'[c] = "gone"
  BY DEF ActionsTypeOK
<1>2. ActionsTypeOK'
  BY <1>a, FillListType DEF ActionsTypeOK
<1>3. WriterInv'
  <2>1. \A v \in Operators : OperatorInv(v)'
    BY DEF ActionsOK, WriterInv, OperatorInv
  <2>2. \A d \in Commands : HelperInv(d)'
    BY <1>a DEF ActionsOK, WriterInv, HelperInv
  <2>3. LoopWriterInv'
    BY DEF ActionsOK, WriterInv, LoopWriterInv
  <2> QED BY <2>1, <2>2, <2>3 DEF WriterInv
<1>4. StageInv'
  BY <1>a DEF ActionsOK, StageInv
<1>5. ListInv'
  <2> SUFFICES ASSUME ~clobbered', NEW d \in Commands PROVE ItemInv(d)'
    BY DEF ListInv
  <2>1. ItemInv(d)
    BY DEF ActionsOK, ListInv
  <2>2. \A w \in Operators : Differs(w, d)' <=> Differs(w, d)
    OBVIOUS
  <2>3. CASE d # c
    <3>1. items'[d] = items[d] /\ helper'[d] = helper[d]
      BY <1>a, <2>3 DEF ActionsOK, WriterInv, HelperInv
    <3> QED BY <2>1, <2>2, <3>1 DEF ItemInv, Untouched, BeingWorkedOn
  <2>4. CASE d = c
    <3>1. items'[c] \in Final /\ helper'[c] = "gone"
      <4>1. held[Helper(c)].write[c] \in Final
        BY StatusFacts DEF ActionsOK, WriterInv, HelperInv, FillList
      <4>2. items'[c] = held[Helper(c)].write[c]
        BY DEF FillList
      <4> QED BY <1>a, <4>1, <4>2
    <3>2. doing = c => stage \notin {"take", "start", "act"}
      BY <2>1, <2>4 DEF ItemInv
    <3>3. \A w \in Operators : ~Differs(w, c)
      BY <2>1, <2>4 DEF ItemInv, Untouched
    <3> QED BY <2>1, <2>2, <2>4, <3>1, <3>2, <3>3 DEF ItemInv, Untouched, Final
  <2> QED BY <2>3, <2>4
<1>6. TornInv'
  BY FillListFacts
<1> QED BY <1>2, <1>3, <1>4, <1>5, <1>6 DEF ActionsOK

LEMMA HelperDiesKeeps == ASSUME ActionsOK, NEW c \in Commands, HelperDies(c) PROVE ActionsOK'
<1>1. ActionsTypeOK /\ Helper(c) \in Writers
  BY WriterFacts DEF ActionsOK
<1> USE WriterFacts, <1>1
<1> USE DEF HelperDies, loopVars
<1>a. /\ \A v \in Writers : v # Helper(c) => held'[v] = held[v]
      /\ held'[Helper(c)] = Nothing
      /\ \A v \in Writers, d \in Commands : Differs(v, d)' <=> v # Helper(c) /\ Differs(v, d)
      /\ held' \in [Writers -> [read : List, write : List, pen : Pen]]
      /\ spoilt' \in BOOLEAN /\ TornInv' /\ UNCHANGED <<items, listTorn, clobbered>>
  BY LetGoFacts DEF LetGo, ActionsOK
<1>b. /\ helper' \in [Commands -> {"none", "started", "building", "swapping", "gone"} \cup Final]
      /\ \A d \in Commands : d # c => helper'[d] = helper[d]
      /\ helper'[c] = "gone" /\ helper[c] # "none"
  BY DEF ActionsTypeOK
<1>2. ActionsTypeOK'
  BY <1>a, <1>b, AllowType DEF ActionsTypeOK
<1>3. WriterInv'
  <2>1. \A v \in Operators : OperatorInv(v)'
    BY <1>a DEF ActionsOK, WriterInv, OperatorInv
  <2>2. \A d \in Commands : HelperInv(d)'
    BY <1>a, <1>b DEF ActionsOK, WriterInv, HelperInv
  <2>3. LoopWriterInv'
    BY <1>a DEF ActionsOK, WriterInv, LoopWriterInv
  <2> QED BY <2>1, <2>2, <2>3 DEF WriterInv
<1>4. StageInv'
  BY <1>b DEF ActionsOK, StageInv
<1>5. ListInv'
  <2> SUFFICES ASSUME ~clobbered', NEW d \in Commands PROVE ItemInv(d)'
    BY DEF ListInv
  <2>1. ItemInv(d)
    BY <1>a DEF ActionsOK, ListInv
  <2>2. \A w \in Operators : Differs(w, d)' => Differs(w, d)
    BY <1>a
  <2> QED BY <1>a, <1>b, <2>1, <2>2 DEF ItemInv, Untouched, BeingWorkedOn
<1>6. TornInv'
  BY <1>a
<1> QED BY <1>2, <1>3, <1>4, <1>5, <1>6 DEF ActionsOK

-----------------------------------------------------------------------------
(* All of it *)

LEMMA ActionsStutter == ASSUME ActionsOK, UNCHANGED actionVars PROVE ActionsOK'
<1> USE DEF actionVars, loopVars, listVars
<1>1. \A w \in Writers, d \in Commands : Differs(w, d)' <=> Differs(w, d)
  BY DEF Differs
<1>2. ActionsTypeOK'
  BY DEF ActionsOK, ActionsTypeOK
<1>3. WriterInv'
  BY <1>1, WriterFacts DEF ActionsOK, WriterInv, OperatorInv, HelperInv, LoopWriterInv
<1>4. StageInv'
  BY DEF ActionsOK, StageInv
<1>5. ListInv'
  BY <1>1, WriterFacts DEF ActionsOK, ListInv, ItemInv, Untouched, BeingWorkedOn
<1>6. TornInv'
  BY DEF ActionsOK, TornInv
<1> QED BY <1>2, <1>3, <1>4, <1>5, <1>6 DEF ActionsOK

LEMMA RestartLostKeeps == ASSUME ActionsOK, RestartLost PROVE ActionsOK'
<1> USE DEF RestartLost, loopVars, listVars
<1>1. \A w \in Writers, d \in Commands : Differs(w, d)' <=> Differs(w, d)
  BY DEF Differs
<1>2. ActionsTypeOK'
  BY AllowType DEF ActionsOK, ActionsTypeOK
<1>3. WriterInv'
  BY <1>1, WriterFacts DEF ActionsOK, WriterInv, OperatorInv, HelperInv, LoopWriterInv
<1>4. StageInv'
  BY DEF ActionsOK, StageInv
<1>5. ListInv'
  BY <1>1, WriterFacts DEF ActionsOK, ListInv, ItemInv, Untouched, BeingWorkedOn
<1>6. TornInv'
  BY DEF ActionsOK, TornInv
<1> QED BY <1>2, <1>3, <1>4, <1>5, <1>6 DEF ActionsOK

LEMMA ProcessStaysKeeps == ASSUME ActionsOK, ProcessStays PROVE ActionsOK'
<1>1. CASE \E w \in Operators : (\E k \in Kinds : Ask(w, k)) \/ Enqueue(w) \/ Cut(w)
  BY <1>1, AskKeeps, EnqueueKeeps, CutKeeps, WriterFacts
<1>2. CASE ControlStep
  BY <1>2, TakeKeeps, TakeRaisesKeeps, UpdateReadsKeeps, UnsavedKeeps, CutKeeps, UpdateWritesKeeps,
     ActKeeps, WriterFacts DEF ControlStep
<1>3. CASE UpdateRaises \/ RestartLost
  BY <1>3, UnsavedKeeps, RestartLostKeeps
<1>4. CASE \E c \in Commands : \/ HelperStarts(c) \/ HelperBuildFails(c) \/ HelperSwapped(c)
                               \/ HelperSwapFails(c)
  BY <1>4, HelperMovesKeeps
<1>5. CASE \E c \in Commands : HelperReads(c) \/ Cut(Helper(c)) \/ HelperWrites(c) \/ HelperDies(c)
  BY <1>5, HelperReadsKeeps, CutKeeps, HelperWritesKeeps, HelperDiesKeeps, WriterFacts
<1> QED BY <1>1, <1>2, <1>3, <1>4, <1>5 DEF ProcessStays

(* What the loop, an operator or a helper writes over a finished command.  *)
LEMMA FinishedStays ==
  ASSUME ActionsOK, ActionsNext, NEW c \in Commands,
         items[c] \in Final, items'[c] \notin Final, ~clobbered'
  PROVE  stage = "launch" /\ doing = c
<1>1. ActionsTypeOK /\ (~clobbered => ItemInv(c)) /\ items'[c] # items[c]
  BY DEF ActionsOK, ListInv
<1>2. CASE \E w \in Operators : Enqueue(w)
  <2>1. PICK w \in Operators : FillList(w)
    BY <1>2 DEF Enqueue
  <2>2. Differs(w, c) /\ ~clobbered
    BY <1>1, <2>1, WriterFacts, FillListFacts
  <2>3. FALSE
    BY <1>1, <2>2 DEF ItemInv, Final
  <2> QED BY <2>3
<1>3. CASE stage \in Updating /\ FillList(Loop)
  <2>1. ~clobbered /\ doing = c /\ items'[c] = outcome
    BY <1>1, <1>3, LoopWrites
  <2>2. stage \notin {"announce", "end"}
    BY <2>1 DEF ActionsOK, StageInv, Final
  <2> QED BY <1>1, <1>3, <2>1, <2>2 DEF ItemInv, Updating, Final
<1>4. CASE \E d \in Commands : HelperWrites(d)
  <2>1. PICK d \in Commands : FillList(Helper(d))
    BY <1>4 DEF HelperWrites
  <2>2. HelperInv(d) /\ held[Helper(d)].write[d] \in Final
    BY <2>1, StatusFacts DEF ActionsOK, WriterInv, HelperInv, FillList
  <2>3. Helper(d) \in Writers
    BY WriterFacts
  <2>4. items' = held[Helper(d)].write /\ Differs(Helper(d), c)
    BY <1>1, <2>1, <2>3, FillListFacts DEF FillList
  <2> QED BY <2>2, <2>4 DEF HelperInv
<1>5. CASE UNCHANGED items
  BY <1>1, <1>5
<1>6. ProcessStays => \/ \E w \in Operators : Enqueue(w)
                      \/ stage \in Updating /\ FillList(Loop)
                      \/ \E d \in Commands : HelperWrites(d)
                      \/ UNCHANGED items
  BY DEF ProcessStays, ControlStep, Ask, ReadList, Cut, CutList, LetGo, Take, TakeRaises, UpdateReads,
         UpdateUnread, UpdateWrites, UpdateRaises, Act, RestartLost, HelperStarts, HelperBuildFails,
         HelperSwapped, HelperSwapFails, HelperReads, HelperDies, HelperSteps, listVars
<1>7. ProcessStops => UNCHANGED items
  BY DEF ProcessStops, RestartFires, Crash, HelperBuilt, HelperSteps, ProcessEnds, LetGo
<1> QED BY <1>2, <1>3, <1>4, <1>5, <1>6, <1>7 DEF ActionsNext
=============================================================================
