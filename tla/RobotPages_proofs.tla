-------------------------- MODULE RobotPages_proofs --------------------------
(***************************************************************************)
(* The two promises of the pages of a robot, for any number of pages,      *)
(* users, connections and goroutines and however their steps interleave:   *)
(* one loop at a time feeds the streams of the robots' status              *)
(* (StatusStream), and the requests on the operator lock implement module  *)
(* Lock (OperatorLock).                                                    *)
(***************************************************************************)
EXTENDS OperatorLock, StatusStream, TLAPS

-----------------------------------------------------------------------------
(***************************************************************************)
(* The loops of event.Broadcaster, under the handler and the pages of      *)
(* StatusStream.                                                           *)
(***************************************************************************)

LoopStates == {"off", "start", "wait", "fetch", "send"}

\* Beside OneLoop: current is there exactly with the subscribers, and a goroutine
\* that has ended leaves no cancelled context behind to the next loop.
LoopInv ==
    /\ loop \in [Loops -> LoopStates]
    /\ cancelled \in [Loops -> BOOLEAN]
    /\ current \in Loops \cup {None}
    /\ subs = {} <=> current = None
    /\ \A g \in Loops : loop[g] = "off" => ~cancelled[g]
    /\ current # None => loop[current] # "off" /\ ~cancelled[current]
    /\ \A g \in Loops : loop[g] # "off" /\ ~cancelled[g] => g = current

\* A subscriber starts a loop if there is none.
LEMMA SubscribeKeepsLoopInv ==
    ASSUME LoopInv, NEW v \in Viewers, Subscribe(v)
    PROVE  LoopInv'
<1> USE BroadcasterAssumption DEF LoopInv, LoopStates, Subscribe
<1>1. CASE current # None
  BY <1>1
<1>2. CASE current = None
  <2>1. PICK g \in Loops : /\ loop[g] = "off" /\ current' = g
                           /\ loop' = [loop EXCEPT ![g] = "start"]
                           /\ UNCHANGED cancelled
    BY <1>2
  <2>2. subs' # {} /\ current' # None
    BY <2>1
  <2> QED BY <1>2, <2>1, <2>2
<1> QED BY <1>1, <1>2

\* The last subscriber cancels the loop.
LEMMA DisconnectKeepsLoopInv ==
    ASSUME LoopInv, NEW v \in Viewers, Disconnect(v)
    PROVE  LoopInv'
<1> USE BroadcasterAssumption DEF LoopInv, LoopStates, Disconnect
<1>1. CASE v \notin subs
  BY <1>1 DEF broadcasterVars
<1>2. CASE v \in subs /\ subs' # {}
  BY <1>2 DEF Unsubscribe
<1>3. CASE v \in subs /\ subs' = {}
  <2>1. current \in Loops /\ current' = None /\ loop' = loop
        /\ cancelled' = [cancelled EXCEPT ![current] = TRUE]
    BY <1>3 DEF Unsubscribe
  <2> QED BY <1>3, <2>1
<1> QED BY <1>1, <1>2, <1>3

\* A loop goes its way, and ends only when it is cancelled.
LEMMA LoopKeepsLoopInv ==
    ASSUME LoopInv, NEW g \in Loops, LoopStep(g) \/ FetchFails(g) \/ Sends(g)
    PROVE  LoopInv'
<1> USE DEF LoopInv, LoopStates
<1>1. CASE LoopEnds(g)
  BY <1>1 DEF LoopEnds, Goto
<1>2. CASE ~LoopEnds(g)
  <2>1. /\ UNCHANGED <<subs, current, cancelled>>
        /\ loop[g] # "off"
        /\ \E step \in LoopStates \ {"off"} : loop' = [loop EXCEPT ![g] = step]
    BY <1>2 DEF LoopStep, LoopStarts, LoopWakes, LoopFetches, FetchFails, LoopFetchFails,
                Sends, LoopSends, Goto
  <2> QED BY <2>1
<1> QED BY <1>1, <1>2

\* However connections come, break and are closed, and wherever in its round the
\* cancelled loop is, a robot with subscribers has one loop that will serve them
\* (event/broadcaster.go Subscribe, Unsubscribe).
THEOREM OneLoopAlways == StatusSpec => []OneLoop
<1>1. StatusInit => LoopInv
  BY BroadcasterAssumption DEF StatusInit, BroadcasterInit, LoopInv, LoopStates
<1>2. LoopInv /\ [StatusNext]_statusVars => LoopInv'
  <2> SUFFICES ASSUME LoopInv, [StatusNext]_statusVars PROVE LoopInv'
    OBVIOUS
  <2>1. ASSUME UNCHANGED broadcasterVars PROVE LoopInv'
    BY <2>1 DEF broadcasterVars, LoopInv
  <2>2. CASE UNCHANGED statusVars
    BY <2>1, <2>2 DEF statusVars
  <2>3. CASE Reports \/ Notifies
    BY <2>1, <2>3 DEF Reports, Notifies
  <2>4. ASSUME NEW v \in Viewers,
               Accept(v) \/ ConnectionLost(v) \/ HideTimeout(v)
        PROVE  LoopInv'
    BY <2>4, SubscribeKeepsLoopInv, DisconnectKeepsLoopInv DEF Accept, ConnectionLost, HideTimeout
  <2>5. ASSUME NEW v \in Viewers, Receive(v) PROVE LoopInv'
    BY <2>5 DEF Receive, LoopInv
  <2>6. ASSUME NEW v \in Viewers, FirstFrame(v) \/ RetryFires(v) \/ Hide(v) \/ Show(v)
        PROVE  LoopInv'
    BY <2>1, <2>6 DEF FirstFrame, RetryFires, Hide, Show
  <2> QED BY <2>2, <2>3, <2>4, <2>5, <2>6, LoopKeepsLoopInv DEF StatusNext
<1>3. LoopInv => OneLoop
  BY BroadcasterAssumption DEF LoopInv, OneLoop
<1> QED BY <1>1, <1>2, <1>3, PTL DEF StatusSpec

-----------------------------------------------------------------------------
(***************************************************************************)
(* The operator lock.                                                      *)
(***************************************************************************)

USE DEF PutSteps, GetSteps, ClearSteps, Occasions, TTL

\* A user's page that keeps the lock: it has been written in this period or, while
\* this period's heartbeat is due or on its way, in the last one.
Fresh(p) ==
    holder = UserOf[p] /\ Running(p) =>
        age <= 1 /\ (p \notin due /\ ~Underway(p) => age = 0)

\* A page that is shown has not been left.
Shown == \A p \in Pages : mounted[p] => clear[p]["leave"] = "none"

LockInv == OperatorTypeOK /\ Shown /\ \A p \in steady : Fresh(p)

\* Typing of a change of one request.
LEMMA StepTyped ==
    ASSUME NEW A, NEW B, NEW C, NEW f \in [A -> [B -> C]], NEW a \in A, NEW b \in B, NEW c \in C
    PROVE  [f EXCEPT ![a][b] = c] \in [A -> [B -> C]]
OBVIOUS

LEMMA StepChanges ==
    ASSUME NEW A, NEW B, NEW C, NEW f \in [A -> [B -> C]], NEW a \in A, NEW b \in B, NEW c,
           NEW q \in A, NEW r \in B
    PROVE  [f EXCEPT ![a][b] = c][q][r] = IF q = a /\ r = b THEN c ELSE f[q][r]
OBVIOUS

\* Types, of every step.
LEMMA OperatorTyped == ASSUME OperatorTypeOK, OperatorNext PROVE OperatorTypeOK'
<1> USE DEF OperatorTypeOK, pageVars, keyVars
<1>1. CASE Tick
  BY <1>1 DEF Tick
<1>2. CASE Expire
  BY <1>2 DEF Expire
<1>3. ASSUME NEW p \in Pages, PageStep(p) PROVE OperatorTypeOK'
  <2>1. CASE Mount(p)
    BY <2>1 DEF Mount
  <2>2. CASE Start(p)
    BY <2>2 DEF Start, SetInterval
  <2>3. CASE SendHeartbeat(p)
    BY <2>3 DEF SendHeartbeat
  <2>4. CASE CheckStatus(p)
    BY <2>4 DEF CheckStatus
  <2>5. CASE Stop(p)
    BY <2>5 DEF Stop, ClearInterval, ClearGoes
  <2>6. CASE StopAnswer(p)
    BY <2>6 DEF StopAnswer, ClearGoes
  <2>7. CASE Unmount(p)
    <3>1. clear' = clear \/ clear' = [clear EXCEPT ![p]["leave"] = "sent"]
      BY <2>7 DEF Unmount, ClearGoes
    <3>2. clear' \in [Pages -> [Occasions -> ClearSteps]]
      <4>1. CASE clear' = clear
        BY <4>1
      <4>2. CASE clear' = [clear EXCEPT ![p]["leave"] = "sent"]
        <5>1. "leave" \in Occasions /\ "sent" \in ClearSteps
          OBVIOUS
        <5> HIDE DEF Occasions, ClearSteps
        <5> QED BY <4>2, <5>1, StepTyped
      <4> QED BY <3>1, <4>1, <4>2
    <3> QED BY <2>7, <3>2 DEF Unmount, ClearInterval
  <2>8. CASE Close(p)
    BY <2>8 DEF Close
  <2> QED BY <1>3, <2>1, <2>2, <2>3, <2>4, <2>5, <2>6, <2>7, <2>8 DEF PageStep
<1>4. ASSUME NEW p \in Pages, NEW s \in Slots, PutStep(p, s) \/ PutFails(p, s) PROVE OperatorTypeOK'
  <2>1. CASE PutAcquire(p, s)
    <3>1. PICK step \in PutSteps : put' = [put EXCEPT ![p][s] = step]
      BY <2>1 DEF PutAcquire, PutGoes
    <3> QED BY <2>1, OperatorAssumption, <3>1 DEF PutAcquire, WriteKey
  <2>2. CASE PutCheck(p, s)
    <3>1. PICK step \in PutSteps : put' = [put EXCEPT ![p][s] = step]
      BY <2>2 DEF PutCheck, PutGoes
    <3> QED BY <2>2, <3>1 DEF PutCheck
  <2>3. CASE PutSave(p, s)
    <3>1. put' \in [Pages -> [Slots -> PutSteps]]
      BY <2>3, StepTyped DEF PutSave, PutGoes
    <3> QED BY <2>3, OperatorAssumption, <3>1 DEF PutSave, WriteKey
  <2>4. CASE PutRefused(p, s)
    BY <2>4 DEF PutRefused, PutGoes, ClearInterval
  <2>5. CASE PutFails(p, s)
    BY <2>5 DEF PutFails, PutGoes
  <2> QED BY <1>4, <2>1, <2>2, <2>3, <2>4, <2>5 DEF PutStep
<1>5. ASSUME NEW p \in Pages, NEW s \in Slots, GetStep(p, s) \/ GetFails(p, s) PROVE OperatorTypeOK'
  <2>1. CASE GetOperator(p, s)
    BY <2>1 DEF GetOperator
  <2>2. CASE CheckAnswer(p, s)
    BY <2>2 DEF CheckAnswer, SetInterval
  <2>3. CASE GetFails(p, s)
    BY <2>3 DEF GetFails
  <2> QED BY <1>5, <2>1, <2>2, <2>3 DEF GetStep
<1>6. ASSUME NEW p \in Pages, NEW o \in Occasions, ClearStep(p, o) \/ ClearFails(p, o) PROVE OperatorTypeOK'
  <2>1. CASE ClearCheck(p, o)
    BY <2>1 DEF ClearCheck, ClearGoes, Answered
  <2>2. CASE ClearDelete(p, o)
    BY <2>2 DEF ClearDelete, ClearGoes, Answered
  <2>3. CASE ClearFails(p, o)
    BY <2>3 DEF ClearFails, ClearGoes, Answered
  <2> QED BY <1>6, <2>1, <2>2, <2>3 DEF ClearStep
<1> QED BY <1>1, <1>2, <1>3, <1>4, <1>5, <1>6 DEF OperatorNext

LEMMA ShownStays == ASSUME OperatorTypeOK, Shown, OperatorNext PROVE Shown'
<1> USE DEF OperatorTypeOK, Shown, keyVars, pageVars
<1>1. CASE Tick \/ Expire
  BY <1>1 DEF Tick, Expire
<1>2. ASSUME NEW p \in Pages, PageStep(p) PROVE Shown'
  BY <1>2 DEF PageStep, Mount, Idle, Start, SendHeartbeat, CheckStatus, Stop, StopAnswer, Unmount, Close, ClearGoes
<1>3. ASSUME NEW p \in Pages, NEW s \in Slots, PutStep(p, s) \/ PutFails(p, s) \/ GetStep(p, s) \/ GetFails(p, s)
      PROVE Shown'
  BY <1>3 DEF PutStep, PutAcquire, PutCheck, PutSave, PutRefused, PutFails, GetStep, GetOperator, CheckAnswer, GetFails
<1>4. ASSUME NEW p \in Pages, NEW o \in Occasions, ClearStep(p, o) \/ ClearFails(p, o) PROVE Shown'
  <2>1. /\ mounted' = mounted /\ clear[p][o] # "none"
        /\ \E step \in ClearSteps : clear' = [clear EXCEPT ![p][o] = step]
    BY <1>4 DEF ClearStep, ClearCheck, ClearDelete, ClearFails, ClearGoes, Answered
  <2> QED BY <2>1
<1> QED BY <1>1, <1>2, <1>3, <1>4 DEF OperatorNext

\* What a page does by itself leaves the key alone.  A page that begins its
\* heartbeats counts as keeping the lock only when one gets through.
LEMMA PagesStayFresh ==
    ASSUME LockInv, NEW p \in Pages, PageStep(p) \/ (\E s \in Slots : GetStep(p, s) \/ GetFails(p, s)),
           NEW q \in steady'
    PROVE  Fresh(q)'
<1> USE DEF LockInv, OperatorTypeOK, keyVars, pageVars
<1> DEFINE Hears == \E s \in Slots : GetStep(p, s) \/ GetFails(p, s)
<1>1. holder' = holder /\ age' = age /\ steady' \subseteq steady
  BY DEF PageStep, Mount, Start, SendHeartbeat, CheckStatus, Stop, StopAnswer, Unmount, Close,
         SetInterval, ClearInterval, GetStep, GetOperator, CheckAnswer, GetFails
<1>2. q \in steady /\ q \in Pages /\ Fresh(q)
  BY <1>1
<1>3. CASE q # p
  <2>1. (q \in due' <=> q \in due) /\ timer'[q] = timer[q] /\ stray'[q] = stray[q] /\ put'[q] = put[q]
    BY <1>2, <1>3 DEF PageStep, Mount, Start, SendHeartbeat, CheckStatus, Stop, StopAnswer, Unmount, Close,
         SetInterval, ClearInterval, GetStep, GetOperator, CheckAnswer, GetFails
  <2> QED BY <1>1, <1>2, <2>1 DEF Fresh, Running, Underway
<1>4. CASE q = p /\ SendHeartbeat(p)
  <2>1. PICK s \in Slots : put' = [put EXCEPT ![p][s] = "sent"]
    BY <1>4 DEF SendHeartbeat
  <2>2. Underway(q)'
    BY <1>4, <2>1 DEF Underway
  <2>3. timer' = timer /\ stray' = stray
    BY <1>4 DEF SendHeartbeat
  <2> QED BY <1>1, <1>2, <2>2, <2>3 DEF Fresh, Running
<1>5. CASE q = p /\ (Stop(p) \/ Unmount(p))
  <2>1. ClearInterval(p) /\ put' = put /\ stray' = stray
    BY <1>5 DEF Stop, Unmount
  <2>2. stray[p] /\ due' = due /\ stray' = stray
    BY <1>5, <2>1 DEF ClearInterval
  <2> QED BY <1>1, <1>2, <1>5, <2>1, <2>2 DEF Fresh, Running, Underway
<1>6. CASE q = p /\ (Mount(p) \/ CheckStatus(p) \/ StopAnswer(p) \/ \E s \in Slots : GetOperator(p, s) \/ GetFails(p, s))
  <2>1. UNCHANGED <<due, timer, stray, put>>
    BY <1>6 DEF Mount, CheckStatus, StopAnswer, GetOperator, GetFails
  <2> QED BY <1>1, <1>2, <2>1 DEF Fresh, Running, Underway
<1>7. CASE q = p /\ (Start(p) \/ Close(p))
  BY <1>7 DEF Start, Close, SetInterval
<1>8. CASE q = p /\ \E s \in Slots : CheckAnswer(p, s)
  <2>1. PICK s \in Slots : CheckAnswer(p, s)
    BY <1>8
  <2>2. UNCHANGED <<due, timer, stray, put>>
    BY <1>8, <2>1 DEF CheckAnswer, SetInterval
  <2> QED BY <1>1, <1>2, <2>2 DEF Fresh, Running, Underway
<1> QED BY <1>3, <1>4, <1>5, <1>6, <1>7, <1>8 DEF PageStep, GetStep

\* A PUT makes the lock new, or its page is one whose heartbeat did not get through.
LEMMA PutsStayFresh ==
    ASSUME LockInv, NEW p \in Pages, NEW s \in Slots, PutStep(p, s) \/ PutFails(p, s), NEW q \in steady'
    PROVE  Fresh(q)'
<1> USE DEF LockInv, OperatorTypeOK, keyVars, pageVars
<1>1. CASE PutAcquire(p, s) /\ holder = NoUser
  BY <1>1 DEF PutAcquire, WriteKey, Fresh
<1>2. CASE PutSave(p, s)
  BY <1>2 DEF PutSave, WriteKey, Fresh
<1>3. CASE PutAcquire(p, s) /\ holder # NoUser
  <2>1. /\ UNCHANGED <<holder, age, due, timer, stray, steady>>
        /\ put' = [put EXCEPT ![p][s] = "held"]
    BY <1>3 DEF PutAcquire, PutGoes
  <2>2. Underway(q)' <=> Underway(q)
    BY <1>3, <2>1 DEF Underway, PutAcquire
  <2> QED BY <2>1, <2>2 DEF Fresh, Running
<1>4. CASE PutCheck(p, s) /\ holder \in {NoUser, UserOf[p]}
  <2>1. /\ UNCHANGED <<holder, age, due, timer, stray, steady>>
        /\ put' = [put EXCEPT ![p][s] = "save"]
    BY <1>4 DEF PutCheck, PutGoes
  <2>2. Underway(q)' <=> Underway(q)
    BY <1>4, <2>1 DEF Underway, PutCheck
  <2> QED BY <2>1, <2>2 DEF Fresh, Running
<1>5. CASE (PutCheck(p, s) /\ holder \notin {NoUser, UserOf[p]}) \/ PutFails(p, s)
  <2>1. /\ UNCHANGED <<holder, age, due, timer, stray>> /\ steady' = steady \ {p}
        /\ \A r \in Pages \ {p} : put'[r] = put[r]
    BY <1>5 DEF PutCheck, PutGoes, PutFails
  <2> QED BY <2>1 DEF Fresh, Running, Underway
<1>6. CASE PutRefused(p, s)
  <2>1. /\ UNCHANGED <<holder, age, stray>> /\ steady' \subseteq steady
        /\ timer' = [timer EXCEPT ![p] = FALSE] /\ put' = [put EXCEPT ![p][s] = "none"]
        /\ put[p][s] = "conflict"
    BY <1>6 DEF PutRefused, ClearInterval, PutGoes
  <2>2. q \in Pages /\ (Running(q)' => Running(q)) /\ (Underway(q)' <=> Underway(q))
    BY <2>1 DEF Running, Underway
  <2>3. q \in due' <=> q \in due
    BY <1>6 DEF PutRefused, ClearInterval
  <2> QED BY <2>1, <2>2, <2>3 DEF Fresh
<1> QED BY <1>1, <1>2, <1>3, <1>4, <1>5, <1>6 DEF PutStep

\* In time, a heartbeat that gets through in every period keeps the lock.
LEMMA LockInvHolds == ASSUME Punctual PROVE OperatorSpec => []LockInv
<1>1. OperatorInit => LockInv
  BY OperatorAssumption DEF OperatorInit, LockInv, OperatorTypeOK, Shown
<1>2. ASSUME LockInv, [OperatorNext]_vars PROVE LockInv'
  <2>1. CASE UNCHANGED vars
    BY <1>2, <2>1 DEF vars, keyVars, pageVars, LockInv, OperatorTypeOK, Shown, Fresh, Running, Underway
  <2>2. CASE OperatorNext
    <3>1. OperatorTypeOK' /\ Shown'
      BY <1>2, <2>2, OperatorTyped, ShownStays DEF LockInv
    <3>2. ASSUME NEW q \in steady' PROVE Fresh(q)'
      <4>1. CASE Tick
        <5>1. q \in steady /\ UNCHANGED <<holder, timer, stray, put>>
          BY <3>2, <4>1 DEF Tick, pageVars
        <5>2. q \in Pages /\ Fresh(q)
          BY <1>2, <5>1 DEF LockInv, OperatorTypeOK
        <5>3. Running(q) => ~Underway(q) /\ q \notin due /\ q \in due'
          BY <4>1, <5>2 DEF Tick
        <5>4. age' \in {0, age + 1} /\ (holder = NoUser => age' = 0)
          BY <4>1 DEF Tick
        <5>5. Running(q)' <=> Running(q)
          BY <5>1 DEF Running
        <5> QED BY <5>1, <5>2, <5>3, <5>4, <5>5 DEF Fresh
      <4>2. CASE Expire \/ \E p \in Pages, o \in Occasions : ClearDelete(p, o)
        <5>1. holder' = NoUser /\ q \in Pages
          BY <1>2, <3>1, <3>2, <4>2 DEF Expire, ClearDelete, OperatorTypeOK
        <5> QED BY <5>1, OperatorAssumption DEF Fresh
      <4>3. CASE \E p \in Pages, o \in Occasions : ClearCheck(p, o) \/ ClearFails(p, o)
        BY <1>2, <3>2, <4>3 DEF LockInv, ClearCheck, ClearFails, keyVars, pageVars, Fresh, Running, Underway
      <4> QED BY <1>2, <2>2, <3>2, <4>1, <4>2, <4>3, PagesStayFresh, PutsStayFresh DEF OperatorNext, ClearStep
    <3> QED BY <3>1, <3>2 DEF LockInv
  <2> QED BY <1>2, <2>1, <2>2
<1> QED BY <1>1, <1>2, PTL DEF OperatorSpec

\* A step of the requests, for the lock: what it does to it.
LockStep == Promise!LockNext \/ UNCHANGED <<holder, Keeping, Claiming, Releasing>>

\* What is under way and runs of the users is that of the page and of the others.
LEMMA PageMoves ==
    ASSUME OperatorTypeOK, NEW p \in Pages,
           \A q \in Pages \ {p} : timer'[q] = timer[q] /\ stray'[q] = stray[q] /\ (q \in steady' <=> q \in steady),
           steady' \subseteq Pages
    PROVE  Keeping' \in {Keeping, Keeping \cup {UserOf[p]}, Keeping \ {UserOf[p]}}
<1> DEFINE Keeps(u) == \E q \in steady : UserOf[q] = u /\ Running(q)
<1>1. ASSUME NEW u \in Users, u # UserOf[p] PROVE u \in Keeping' <=> u \in Keeping
  <2>1. ASSUME NEW q \in Pages, UserOf[q] = u PROVE (q \in steady /\ Running(q)) <=> (q \in steady' /\ Running(q)')
    BY <1>1, <2>1 DEF Running
  <2> QED BY <1>1, <2>1 DEF Keeping, OperatorTypeOK
<1>2. UserOf[p] \in Users
  BY OperatorAssumption
<1>3. Keeping \subseteq Users /\ Keeping' \subseteq Users
  BY DEF Keeping
<1> HIDE DEF Keeping
<1>4. CASE UserOf[p] \in Keeping'
  <2>1. Keeping' = Keeping \cup {UserOf[p]}
    BY <1>1, <1>2, <1>3, <1>4
  <2> QED BY <2>1
<1>5. CASE UserOf[p] \notin Keeping'
  <2>1. Keeping' = Keeping \ {UserOf[p]}
    BY <1>1, <1>2, <1>3, <1>5
  <2> QED BY <2>1
<1> QED BY <1>4, <1>5

\* The same for requests on their way: claiming and releasing.
LEMMA ClaimMoves ==
    ASSUME OperatorTypeOK, NEW p \in Pages, \A q \in Pages \ {p} : put'[q] = put[q]
    PROVE  Claiming' \in {Claiming, Claiming \cup {UserOf[p]}, Claiming \ {UserOf[p]}}
<1>1. ASSUME NEW u \in Users, u # UserOf[p] PROVE u \in Claiming' <=> u \in Claiming
  BY <1>1 DEF Claiming
<1>2. UserOf[p] \in Users /\ Claiming \subseteq Users /\ Claiming' \subseteq Users
  BY OperatorAssumption DEF Claiming
<1> HIDE DEF Claiming
<1>4. CASE UserOf[p] \in Claiming'
  <2>1. Claiming' = Claiming \cup {UserOf[p]}
    BY <1>1, <1>2, <1>4
  <2> QED BY <2>1
<1>5. CASE UserOf[p] \notin Claiming'
  <2>1. Claiming' = Claiming \ {UserOf[p]}
    BY <1>1, <1>2, <1>5
  <2> QED BY <2>1
<1> QED BY <1>4, <1>5

LEMMA ReleaseMoves ==
    ASSUME OperatorTypeOK, NEW p \in Pages, \A q \in Pages \ {p} : clear'[q] = clear[q]
    PROVE  Releasing' \in {Releasing, Releasing \cup {UserOf[p]}, Releasing \ {UserOf[p]}}
<1>1. ASSUME NEW u \in Users, u # UserOf[p] PROVE u \in Releasing' <=> u \in Releasing
  BY <1>1 DEF Releasing
<1>2. UserOf[p] \in Users /\ Releasing \subseteq Users /\ Releasing' \subseteq Users
  BY OperatorAssumption DEF Releasing
<1> HIDE DEF Releasing
<1>4. CASE UserOf[p] \in Releasing'
  <2>1. Releasing' = Releasing \cup {UserOf[p]}
    BY <1>1, <1>2, <1>4
  <2> QED BY <2>1
<1>5. CASE UserOf[p] \notin Releasing'
  <2>1. Releasing' = Releasing \ {UserOf[p]}
    BY <1>1, <1>2, <1>5
  <2> QED BY <2>1
<1> QED BY <1>4, <1>5

\* The commands of PUT.
LEMMA PutImplements ==
    ASSUME OperatorTypeOK, NEW p \in Pages, NEW s \in Slots, PutStep(p, s) \/ PutFails(p, s)
    PROVE  LockStep
<1> USE DEF OperatorTypeOK, pageVars, keyVars
<1> DEFINE u == UserOf[p]
<1>1. u \in Users
  BY OperatorAssumption
<1>2. Releasing' = Releasing
  BY DEF PutStep, PutAcquire, PutCheck, PutSave, PutRefused, PutFails, Releasing
<1>3. Keeping' \in {Keeping, Keeping \cup {u}, Keeping \ {u}}
  <2>1. /\ \A q \in Pages \ {p} : timer'[q] = timer[q] /\ stray'[q] = stray[q] /\ (q \in steady' <=> q \in steady)
        /\ steady' \subseteq Pages
    BY DEF PutStep, PutAcquire, PutCheck, PutSave, PutRefused, PutFails, WriteKey, ClearInterval
  <2> QED BY <2>1, PageMoves
<1>4. \A q \in Pages \ {p} : put'[q] = put[q]
  BY DEF PutStep, PutAcquire, PutCheck, PutSave, PutRefused, PutFails, PutGoes
<1>5. Claiming' \in {Claiming, Claiming \cup {u}, Claiming \ {u}}
  BY <1>4, ClaimMoves
<1>6. CASE PutAcquire(p, s)
  <2>1. Claiming' = Claiming
    <3>1. \A q \in Pages, r \in Slots : put'[q][r] = "save" <=> put[q][r] = "save"
      <4>1. put[p][s] = "sent" /\ \E step \in {"none", "held"} : put' = [put EXCEPT ![p][s] = step]
        BY <1>6 DEF PutAcquire, PutGoes
      <4> QED BY <4>1, StepChanges
    <3> QED BY <3>1 DEF Claiming
  <2>2. CASE holder = NoUser
    <3>1. holder' = u
      BY <1>6, <2>2 DEF PutAcquire, WriteKey
    <3>2. Promise!Acquire(u)
      BY <1>2, <1>3, <2>1, <2>2, <3>1 DEF Promise!Acquire, Promise!Keep
    <3> QED BY <1>1, <3>2 DEF LockStep, Promise!LockNext
  <2>3. CASE holder # NoUser
    <3>1. holder' = holder /\ Keeping' = Keeping
      BY <1>6, <2>3 DEF PutAcquire, Keeping, Running
    <3> QED BY <1>2, <2>1, <3>1 DEF LockStep
  <2> QED BY <2>2, <2>3
<1>7. CASE PutCheck(p, s) /\ holder \in {NoUser, u}
  <2>1. holder' = holder /\ Keeping' = Keeping
    BY <1>7 DEF PutCheck, Keeping, Running
  <2>2. Claiming' = Claiming \cup {u}
    <3>1. put'[p][s] = "save"
      BY <1>7 DEF PutCheck, PutGoes
    <3>2. u \in Claiming'
      BY <1>1, <3>1 DEF Claiming
    <3> QED BY <1>5, <3>2
  <2>3. Promise!BeginClaim(u)
    BY <1>2, <1>7, <2>1, <2>2 DEF Promise!BeginClaim, Promise!FreeFor
  <2> QED BY <1>1, <2>3 DEF LockStep, Promise!LockNext
<1>8. CASE PutSave(p, s) \/ (PutFails(p, s) /\ put[p][s] = "save")
  <2>1. holder' \in {holder, u}
    BY <1>8 DEF PutSave, PutFails, WriteKey
  <2>2. u \in Claiming
    BY <1>1, <1>8 DEF PutSave, Claiming
  <2>3. Claiming' \in {Claiming, Claiming \ {u}}
    <3>1. Claiming \cup {u} = Claiming
      BY <2>2
    <3> QED BY <1>5, <3>1
  <2>4. Promise!EndClaim(u)
    BY <1>2, <1>3, <2>1, <2>2, <2>3 DEF Promise!EndClaim, Promise!Keep
  <2> QED BY <1>1, <2>4 DEF LockStep, Promise!LockNext
<1>9. CASE \/ PutCheck(p, s) /\ holder \notin {NoUser, u}
           \/ PutRefused(p, s)
           \/ PutFails(p, s) /\ put[p][s] # "save"
  <2>1. holder' = holder
    BY <1>9 DEF PutCheck, PutRefused, PutFails
  <2>2. Claiming' = Claiming
    <3>1. \A q \in Pages, r \in Slots : put'[q][r] = "save" <=> put[q][r] = "save"
      <4>1. put[p][s] # "save" /\ \E step \in {"none", "conflict"} : put' = [put EXCEPT ![p][s] = step]
        BY <1>9 DEF PutCheck, PutRefused, PutFails, PutGoes
      <4> QED BY <4>1, StepChanges
    <3> QED BY <3>1 DEF Claiming
  <2>3. Promise!Turn(u)
    BY <1>2, <1>3, <2>1, <2>2 DEF Promise!Turn, Promise!Keep
  <2> QED BY <1>1, <2>3 DEF LockStep, Promise!LockNext
<1> QED BY <1>6, <1>7, <1>8, <1>9 DEF PutStep

\* The commands of DELETE.
LEMMA ClearImplements ==
    ASSUME OperatorTypeOK, NEW p \in Pages, NEW o \in Occasions, ClearStep(p, o) \/ ClearFails(p, o)
    PROVE  LockStep
<1> USE DEF OperatorTypeOK, pageVars, keyVars
<1> DEFINE u == UserOf[p]
<1>1. u \in Users
  BY OperatorAssumption
<1>2. Keeping' = Keeping /\ Claiming' = Claiming
  BY DEF ClearStep, ClearFails, ClearCheck, ClearDelete, Keeping, Claiming, Running
<1>3. Releasing' \in {Releasing, Releasing \cup {u}, Releasing \ {u}}
  <2>1. \A q \in Pages \ {p} : clear'[q] = clear[q]
    BY DEF ClearStep, ClearFails, ClearCheck, ClearDelete, ClearGoes
  <2> QED BY <2>1, ReleaseMoves
<1>4. CASE ClearCheck(p, o) /\ holder \in {NoUser, u}
  <2>1. holder' = holder /\ clear'[p][o] = "delete"
    BY <1>4 DEF ClearCheck, ClearGoes
  <2>2. u \in Releasing'
    BY <1>1, <2>1 DEF Releasing
  <2>3. Promise!BeginRelease(u)
    BY <1>2, <1>3, <1>4, <2>1, <2>2 DEF Promise!BeginRelease, Promise!FreeFor
  <2> QED BY <1>1, <2>3 DEF LockStep, Promise!LockNext
<1>5. CASE ClearDelete(p, o) \/ (ClearFails(p, o) /\ clear[p][o] = "delete")
  <2>1. holder' \in {holder, NoUser} /\ clear[p][o] = "delete"
    BY <1>5 DEF ClearDelete, ClearFails
  <2>2. u \in Releasing
    BY <1>1, <2>1 DEF Releasing
  <2>3. Promise!EndRelease(u)
    BY <1>2, <1>3, <2>1, <2>2 DEF Promise!EndRelease
  <2> QED BY <1>1, <2>3 DEF LockStep, Promise!LockNext
<1>6. CASE \/ ClearCheck(p, o) /\ holder \notin {NoUser, u}
           \/ ClearFails(p, o) /\ clear[p][o] # "delete"
  <2>1. holder' = holder
    BY <1>6 DEF ClearCheck, ClearFails
  <2>2. Releasing' = Releasing
    <3>1. \A q \in Pages, r \in Occasions : clear'[q][r] = "delete" <=> clear[q][r] = "delete"
      <4>1. clear[p][o] # "delete" /\ \E step \in {"none", "done"} : clear' = [clear EXCEPT ![p][o] = step]
        BY <1>6 DEF ClearCheck, ClearFails, ClearGoes, Answered
      <4> QED BY <4>1, StepChanges
    <3> QED BY <3>1 DEF Releasing
  <2> QED BY <1>2, <2>1, <2>2 DEF LockStep
<1> QED BY <1>4, <1>5, <1>6 DEF ClearStep

\* What a page does by itself.
LEMMA PageImplements ==
    ASSUME OperatorTypeOK, Shown, NEW p \in Pages, PageStep(p) \/ (\E s \in Slots : GetStep(p, s) \/ GetFails(p, s))
    PROVE  LockStep
<1> USE DEF OperatorTypeOK, pageVars, keyVars
<1>1. holder' = holder
  BY DEF PageStep, Mount, Start, SendHeartbeat, CheckStatus, Stop, StopAnswer, Unmount, Close,
         GetStep, GetOperator, CheckAnswer, GetFails
<1>2. Claiming' = Claiming
  <2>1. \A q \in Pages, r \in Slots : put'[q][r] = "save" <=> put[q][r] = "save"
    <3>1. put' = put \/ \E s \in Slots : put[p][s] = "none" /\ put' = [put EXCEPT ![p][s] = "sent"]
      BY DEF PageStep, Mount, Start, SendHeartbeat, CheckStatus, Stop, StopAnswer, Unmount, Close,
             GetStep, GetOperator, CheckAnswer, GetFails
    <3>2. CASE put' = put
      BY <3>2
    <3>3. ASSUME NEW s \in Slots, put[p][s] = "none", put' = [put EXCEPT ![p][s] = "sent"]
          PROVE \A q \in Pages, r \in Slots : put'[q][r] = "save" <=> put[q][r] = "save"
      BY <3>3, StepChanges
    <3> QED BY <3>1, <3>2, <3>3
  <2> QED BY <2>1 DEF Claiming
<1>3. Releasing' = Releasing
  <2>1. \A q \in Pages, r \in Occasions : clear'[q][r] = "delete" <=> clear[q][r] = "delete"
    <3>1. \/ clear' = clear
          \/ \E o \in Occasions, step \in {"none", "sent"} :
                 clear' = [clear EXCEPT ![p][o] = step] /\ clear[p][o] # "delete"
      BY DEF Shown, PageStep, Mount, Start, SendHeartbeat, CheckStatus, Stop, StopAnswer, Unmount, Close,
             GetStep, GetOperator, CheckAnswer, GetFails, ClearGoes
    <3> QED BY <3>1, StepChanges
  <2> QED BY <2>1 DEF Releasing
<1>4. /\ \A q \in Pages \ {p} : timer'[q] = timer[q] /\ stray'[q] = stray[q] /\ (q \in steady' <=> q \in steady)
      /\ steady' \subseteq Pages
  BY DEF PageStep, Mount, Start, SendHeartbeat, CheckStatus, Stop, StopAnswer, Unmount, Close,
         GetStep, GetOperator, CheckAnswer, GetFails, SetInterval, ClearInterval
<1>5. UserOf[p] \in Users /\ Keeping' \in {Keeping, Keeping \cup {UserOf[p]}, Keeping \ {UserOf[p]}}
  BY <1>4, PageMoves, OperatorAssumption
<1>6. Promise!Turn(UserOf[p])
  BY <1>1, <1>2, <1>3, <1>5 DEF Promise!Turn, Promise!Keep
<1> QED BY <1>5, <1>6 DEF LockStep, Promise!LockNext

\* When intervals fire and PUTs end in time, the requests on a robot's lock keep
\* what module Lock promises, although any of them may be lost
\* (usecase/robot_operator.go Set, Clear; gateway/robot_operator.go robotOperatorTTL).
THEOREM LockImplemented ==
    ASSUME Punctual
    PROVE  OperatorSpec => ImplementsLock
<1>1. OperatorInit => Promise!LockInit
  BY DEF OperatorInit, Promise!LockInit, Keeping, Claiming, Releasing
<1>2. ASSUME LockInv, [OperatorNext]_vars PROVE [Promise!LockNext]_(Promise!lockVars)
  <2>1. SUFFICES LockStep
    BY DEF LockStep, Promise!lockVars
  <2>2. CASE UNCHANGED vars \/ Tick
    BY <2>2 DEF vars, pageVars, keyVars, Tick, LockStep, Keeping, Claiming, Releasing, Running
  <2>3. CASE Expire
    <3>1. /\ holder # NoUser /\ holder' = NoUser
          /\ Keeping' = Keeping /\ Claiming' = Claiming /\ Releasing' = Releasing
      BY <2>3 DEF Expire, pageVars, Keeping, Claiming, Releasing, Running
    <3>2. holder \notin Keeping
      BY <1>2, <2>3 DEF Expire, Keeping, LockInv, Fresh
    <3>3. Promise!Expire
      BY <3>1, <3>2 DEF Promise!Expire
    <3> QED BY <3>3 DEF LockStep, Promise!LockNext
  <2> QED BY <1>2, <2>2, <2>3, PutImplements, ClearImplements, PageImplements DEF OperatorNext, LockInv
<1> QED BY <1>1, <1>2, LockInvHolds, PTL DEF OperatorSpec, ImplementsLock, Promise!LockSpec

=============================================================================
