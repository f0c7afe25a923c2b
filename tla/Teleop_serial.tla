---------------------------- MODULE Teleop_serial ----------------------------
(***************************************************************************)
(* Safety of Teleop when the requests about a robot are served one at a    *)
(* time. If nobody edits episodes by hand, though robots may be edited and *)
(* deleted, Teleop implements the abstract sessions of module Session, and *)
(* the work on subtasks is in order. And if the requests that count for    *)
(* tasks come from one client, the status of a task is its progress.       *)
(***************************************************************************)
EXTENDS Teleop_proofs

OneAtATime ==
    /\ Overlap = FALSE
    /\ \A c \in Clients : Issues[c] \cap {"updateEpisode", "deleteEpisode"} = {}

\* The inductive invariant.  What a request has read is still so: of its robot
\* there is no other request, and a request writes nothing but its robot and
\* that robot's episodes.

OneRequest ==
    \A c, d \in Clients : req[c].robot = req[d].robot => c = d \/ req[c].robot = None

EndedSteps == EndSteps \ {"finishRobot", "cancelRobot"}

Queued(e, r) == episode[e].status = "ready" /\ episode[e].robot = r

StillSo(c) ==
    LET e == req[c].episode
        r == req[c].robot
        b == buf[c]
    IN  /\ pc[c] # "updateEpisodeWrite"
        /\ pc[c] \in SessionSteps => b.episode.robot = r
        /\ pc[c] \in StartSteps => Queued(e, r) /\ b.episode.status = "recording"
        /\ pc[c] = "startWrite" =>
             robot[r].status = "ready" /\ b.robot.status = "busy" /\ b.robot.active = e
        /\ pc[c] \in EndSteps =>
             Recording(e, r) /\ b.episode.status \in {"completed", "cancel"}
        /\ pc[c] \in EndedSteps => b.robot.status = "ready" /\ b.robot.active = NoEpisode
        /\ pc[c] = "updateRobotWrite" =>
             b.robot.active = robot[r].active /\ (b.robot.status = "busy" <=> Busy(r))
        /\ pc[c] = "deleteRobotWrite" => ~Busy(r)

SerialInv ==
    /\ SessionAgreement
    /\ OneRequest
    /\ \A c \in Clients : StillSo(c)

-----------------------------------------------------------------------------
(* What a step writes *)

SessionWrite(c) ==
    /\ pc[c] \in {"startWrite", "finishCommit", "cancelWrite"}
    /\ episode' = [episode EXCEPT ![req[c].episode] = buf[c].episode]
    /\ robot' = [robot EXCEPT ![req[c].robot] = buf[c].robot]

RobotWrite(c) ==
    /\ episode' = episode
    /\ \/ /\ pc[c] = "updateRobotWrite"
          /\ robot' = [robot EXCEPT ![req[c].robot] = buf[c].robot]
       \/ /\ pc[c] = "deleteRobotWrite"
          /\ robot' = [robot EXCEPT ![req[c].robot].status = "deleted"]

\* What each step does to robots and episodes.
LEMMA Writes ==
    ASSUME TypeInv, OneAtATime, NEW c \in Clients, StillSo(c), ClientStep(c)
    PROVE  \/ episode' = episode /\ robot' = robot
           \/ \E S \in SUBSET Absent, r \in Robots, t \in Tasks : InsertEpisodes(S, r, t)
           \/ SessionWrite(c)
           \/ RobotWrite(c)
<1> USE RowTypes
<1>1. CASE CreateWrite(c) \/ RepeatWrite(c)
  <2>1. req[c].robot \in Robots /\ req[c].task \in Tasks
    BY <1>1 DEF CreateWrite, RepeatWrite, ClientNamed, RobotSteps, TaskSteps, CreateSteps
  <2> QED BY <1>1, <2>1 DEF CreateWrite, RepeatWrite, NextEpisodes
<1>2. CASE StartWrite(c) \/ FinishCommit(c) \/ CancelWrite(c)
  BY <1>2 DEF StartWrite, FinishCommit, CancelWrite, WriteEpisodeAndRobot, SessionWrite
<1>3. CASE UpdateRobotWrite(c) \/ DeleteRobotWrite(c)
  BY <1>3 DEF UpdateRobotWrite, DeleteRobotWrite, RobotWrite
<1>4. CASE \/ Start(c) \/ Finish(c) \/ Cancel(c)
           \/ UpdateEpisode(c) \/ UpdateRobot(c) \/ DeleteRobot(c)
  BY <1>4 DEF Start, Finish, Cancel, UpdateEpisode, UpdateRobot, DeleteRobot, tables
<1>5. CASE \/ StartRobot(c) \/ FinishRobot(c) \/ CancelRobot(c)
           \/ FinishWrite(c) \/ FinishTarget(c) \/ FinishTask(c)
  BY <1>5
     DEF StartRobot, FinishRobot, CancelRobot, EndRobot, FinishWrite, FinishTarget,
         FinishTask, Read, tables
<1>6. CASE UpdateEpisodeWrite(c) \/ DeleteEpisode(c)
  BY <1>6 DEF UpdateEpisodeWrite, DeleteEpisode, OneAtATime, StillSo
<1>7. CASE QuietStep(c)
  BY <1>7, QuietSteps
<1> QED BY <1>1, <1>2, <1>3, <1>4, <1>5, <1>6, <1>7
        DEF ClientStep, EpisodeStep, RobotStep, QuietStep

\* What Start, Finish and Cancel write is either the begin of a session of a
\* free robot or the end of its session.
LEMMA SessionWrites ==
    ASSUME CoherentInv, SerialInv, NEW c \in Clients, SessionWrite(c)
    PROVE  \E e \in Episodes, r \in Robots, ep \in EpisodeRow, rob \in RobotRow :
             /\ e = req[c].episode /\ r = req[c].robot
             /\ episode' = [episode EXCEPT ![e] = ep]
             /\ robot' = [robot EXCEPT ![r] = rob]
             /\ ep.robot = r
             /\ \/ /\ Queued(e, r) /\ robot[r].active = NoEpisode /\ ~Busy(r)
                   /\ ep.status = "recording" /\ rob.status = "busy" /\ rob.active = e
                \/ /\ Recording(e, r)
                   /\ ep.status \in {"completed", "cancel"}
                   /\ rob.status = "ready" /\ rob.active = NoEpisode
<1> USE RowTypes DEF CoherentInv, SerialInv, SessionWrite
<1> DEFINE e == req[c].episode
           r == req[c].robot
<1>1. /\ e \in Episodes /\ r \in Robots
      /\ buf[c].episode \in EpisodeRow /\ buf[c].robot \in RobotRow
  BY DEF ClientNamed, RobotSteps, SessionSteps, Buffer
<1>2. buf[c].episode.robot = r
  BY DEF StillSo, SessionSteps
<1>3. CASE pc[c] = "startWrite"
  <2>1. /\ Queued(e, r) /\ robot[r].status = "ready"
        /\ buf[c].episode.status = "recording"
        /\ buf[c].robot.status = "busy" /\ buf[c].robot.active = e
    BY <1>3 DEF StillSo, StartSteps
  <2>2. robot[r].active = NoEpisode /\ ~Busy(r)
    BY <1>1, <2>1 DEF RobotRowCoherent, RobotExists, StoredStatus, Busy
  <2> QED BY <1>1, <1>2, <2>1, <2>2
<1>4. CASE pc[c] \in {"finishCommit", "cancelWrite"}
  <2>1. /\ Recording(e, r)
        /\ buf[c].episode.status \in {"completed", "cancel"}
        /\ buf[c].robot.status = "ready" /\ buf[c].robot.active = NoEpisode
    BY <1>4 DEF StillSo, StartSteps, EndSteps, EndedSteps, SessionSteps
  <2> QED BY <1>1, <1>2, <2>1
<1> QED BY <1>3, <1>4

\* What an edit by hand writes keeps the robot's session.
LEMMA RobotWrites ==
    ASSUME CoherentInv, SerialInv, NEW c \in Clients, RobotWrite(c)
    PROVE  /\ req[c].robot \in Robots
           /\ episode' = episode
           /\ \A r \in Robots : /\ r # req[c].robot => robot'[r] = robot[r]
                                /\ Busy(r)' <=> Busy(r)
                                /\ robot'[r].active = robot[r].active
<1> USE RowTypes DEF CoherentInv, SerialInv, RobotWrite
<1>0. robot \in [Robots -> RobotRow]
  BY DEF TypeInv, TypeOK, TablesOK
<1>1. req[c].robot \in Robots
  BY DEF ClientNamed, RobotSteps
<1>2. CASE pc[c] = "updateRobotWrite"
  BY <1>0, <1>1, <1>2 DEF StillSo, Busy
<1>3. CASE pc[c] = "deleteRobotWrite"
  <2>1. ~Busy(req[c].robot)
    BY <1>3 DEF StillSo
  <2>2. \A rob \in RobotRow : /\ [rob EXCEPT !.status = "deleted"].status = "deleted"
                              /\ [rob EXCEPT !.status = "deleted"].active = rob.active
    BY DEF RobotRow
  <2>3. \A r \in Robots :
          robot'[r] = IF r = req[c].robot THEN [robot[r] EXCEPT !.status = "deleted"] ELSE robot[r]
    BY <1>0, <1>3
  <2> QED BY <1>1, <1>3, <2>1, <2>2, <2>3 DEF Busy
<1> QED BY <1>2, <1>3

-----------------------------------------------------------------------------
(* The invariant is kept, and every step is one of the abstract sessions    *)

\* A step keeps the agreement, and is a step or a stutter of module Session.
LEMMA AgreementAndSession ==
    ASSUME CoherentInv, SerialInv, OneAtATime, NEW c \in Clients, ClientStep(c)
    PROVE  SessionAgreement' /\ [Abstract!SessionNext]_(Abstract!sessionVars)
<1>6. RobotWrite(c) =>
        /\ episode' = episode
        /\ \A r \in Robots : (Busy(r)' <=> Busy(r)) /\ robot'[r].active = robot[r].active
  BY RobotWrites
<1> USE DEF CoherentInv, SerialInv
<1> DEFINE phase == [x \in Episodes |-> episode[x].status]
           owner == [x \in Episodes |-> episode[x].robot]
           session == [s \in Robots |-> robot[s].active]
<1>0. episode \in [Episodes -> EpisodeRow] /\ robot \in [Robots -> RobotRow]
  BY DEF TypeInv, TypeOK, TablesOK
<1>1. ASSUME episode' = episode,
             \A r \in Robots : (Busy(r)' <=> Busy(r)) /\ robot'[r].active = robot[r].active
      PROVE  SessionAgreement' /\ [Abstract!SessionNext]_(Abstract!sessionVars)
  <2>1. \A r \in Robots : /\ Busy(r) => RobotExists(r)
                          /\ Busy(r)' => RobotExists(r)'
    BY DEF Busy, RobotExists, StoredStatus
  <2>2. SessionAgreement'
    BY <1>1, <2>1 DEF SessionAgreement, Recording
  <2>3. UNCHANGED <<phase, owner, session>>
    BY <1>1
  <2> QED BY <2>2, <2>3 DEF Abstract!sessionVars
<1>2. ASSUME NEW S \in SUBSET Absent, NEW r \in Robots, NEW t \in Tasks, InsertEpisodes(S, r, t)
      PROVE  SessionAgreement' /\ [Abstract!SessionNext]_(Abstract!sessionVars)
  <2>1. /\ \A x \in Episodes : episode'[x] = IF x \in S THEN InitEpisode(r, t) ELSE episode[x]
        /\ robot' = robot
    BY <1>2 DEF InsertEpisodes
  <2>2. S \subseteq Episodes /\ \A x \in S : episode[x].status = "absent"
    BY DEF Absent
  <2>3. /\ InitEpisode(r, t).status = "ready"
        /\ InitEpisode(r, t).robot = r
    BY DEF InitEpisode
  <2>4. \A x \in Episodes, s \in Robots : Recording(x, s)' <=> Recording(x, s)
    BY <2>1, <2>2, <2>3 DEF Recording
  <2>5. SessionAgreement'
    BY <2>1, <2>4 DEF SessionAgreement, RobotExists, Busy
  <2>6. Abstract!Queue(S, r)
    <3>1. \A x \in S : phase[x] = "absent"
      BY <2>2
    <3>2. phase' = [x \in Episodes |-> IF x \in S THEN "ready" ELSE phase[x]]
      BY <2>1, <2>3
    <3>3. owner' = [x \in Episodes |-> IF x \in S THEN r ELSE owner[x]]
      BY <2>1, <2>3
    <3>4. UNCHANGED session
      BY <2>1
    <3> QED BY <3>1, <3>2, <3>3, <3>4 DEF Abstract!Queue
  <2> QED BY <2>2, <2>5, <2>6 DEF Abstract!SessionNext
<1>3. ASSUME SessionWrite(c)
      PROVE  SessionAgreement' /\ [Abstract!SessionNext]_(Abstract!sessionVars)
  <2>1. PICK e \in Episodes, r \in Robots, ep \in EpisodeRow, rob \in RobotRow :
          /\ episode' = [episode EXCEPT ![e] = ep]
          /\ robot' = [robot EXCEPT ![r] = rob]
          /\ ep.robot = r
          /\ \/ /\ Queued(e, r) /\ robot[r].active = NoEpisode /\ ~Busy(r)
                /\ ep.status = "recording" /\ rob.status = "busy" /\ rob.active = e
             \/ /\ Recording(e, r)
                /\ ep.status \in {"completed", "cancel"}
                /\ rob.status = "ready" /\ rob.active = NoEpisode
    BY <1>3, SessionWrites
  <2>2. /\ \A x \in Episodes : episode'[x] = IF x = e THEN ep ELSE episode[x]
        /\ \A s \in Robots : robot'[s] = IF s = r THEN rob ELSE robot[s]
    BY <1>0, <2>1
  <2>3. episode[e].robot = r
    BY <2>1 DEF Queued, Recording
  <2>4. \A x \in Episodes, s \in Robots : Recording(x, s) <=> Busy(s) /\ robot[s].active = x
    BY DEF SessionAgreement, Busy, RobotExists, StoredStatus
  <2>5. owner' = owner
    BY <2>1, <2>2, <2>3
  <2>6. ASSUME Queued(e, r), robot[r].active = NoEpisode, ~Busy(r),
               ep.status = "recording", rob.status = "busy", rob.active = e
        PROVE  SessionAgreement' /\ Abstract!Record(r, e)
    <3>1. \A x \in Episodes, s \in Robots :
            Recording(x, s)' <=> Busy(s)' /\ robot'[s].active = x
      BY <2>1, <2>2, <2>4, <2>6 DEF Recording, Busy, Queued
    <3>2. SessionAgreement'
      BY <3>1 DEF SessionAgreement, Busy, RobotExists, StoredStatus
    <3>3. /\ phase' = [phase EXCEPT ![e] = "recording"]
          /\ session' = [session EXCEPT ![r] = e]
      BY <2>2, <2>6
    <3>4. session[r] = NoEpisode /\ phase[e] = "ready" /\ owner[e] = r
      BY <2>6 DEF Queued
    <3> QED BY <2>5, <3>2, <3>3, <3>4 DEF Abstract!Record
  <2>7. ASSUME Recording(e, r), ep.status \in {"completed", "cancel"},
               rob.status = "ready", rob.active = NoEpisode
        PROVE  /\ SessionAgreement'
               /\ Abstract!End(r, e, "completed") \/ Abstract!End(r, e, "cancel")
    <3>1. \A x \in Episodes, s \in Robots :
            Recording(x, s)' <=> Busy(s)' /\ robot'[s].active = x
      BY <2>1, <2>2, <2>4, <2>7 DEF Recording, Busy
    <3>2. SessionAgreement'
      BY <3>1 DEF SessionAgreement, Busy, RobotExists, StoredStatus
    <3>3. /\ phase' = [phase EXCEPT ![e] = ep.status]
          /\ session' = [session EXCEPT ![r] = NoEpisode]
      BY <2>2, <2>7
    <3>4. session[r] = e /\ phase[e] = "recording" /\ owner[e] = r
      BY <2>4, <2>7 DEF Recording
    <3>5. Abstract!End(r, e, ep.status)
      BY <2>5, <3>3, <3>4 DEF Abstract!End
    <3> QED BY <2>7, <3>2, <3>5
  <2> QED BY <2>1, <2>6, <2>7 DEF Abstract!SessionNext
<1>4. CASE RobotWrite(c)
  <2>1. /\ episode' = episode
        /\ \A r \in Robots : (Busy(r)' <=> Busy(r)) /\ robot'[r].active = robot[r].active
    BY <1>4, <1>6
  <2> QED BY <1>1, <2>1
<1>5. CASE episode' = episode /\ robot' = robot
  BY <1>1, <1>5 DEF Busy
<1> QED BY <1>2, <1>3, <1>4, <1>5, Writes

\* A step of one client leaves what the others have read as it is.
LEMMA OthersStillSo ==
    ASSUME CoherentInv, SerialInv, OneAtATime, NEW c \in Clients, ClientStep(c),
           NEW d \in Clients \ {c}
    PROVE  StillSo(d)'
<1>8. RobotWrite(c) =>
        /\ episode' = episode
        /\ \A s \in Robots : s # req[c].robot => robot'[s] = robot[s]
  BY RobotWrites
<1> USE RowTypes DEF CoherentInv, SerialInv
<1> DEFINE e == req[d].episode
           r == req[d].robot
<1>0. /\ episode \in [Episodes -> EpisodeRow] /\ robot \in [Robots -> RobotRow]
      /\ pc[d] \in Steps
  BY DEF TypeInv, TypeOK, TablesOK, ClientsOK
<1>1. pc'[d] = pc[d] /\ req'[d] = req[d] /\ buf'[d] = buf[d] /\ StillSo(d)
  BY OtherClients
<1>2. ASSUME pc[d] \in SessionSteps \cup {"updateRobotWrite", "deleteRobotWrite"}
      PROVE  /\ r \in Robots /\ r # None
             /\ r # req[c].robot
             /\ pc[d] \in SessionSteps =>
                  /\ e \in Episodes
                  /\ episode[e].robot = r
                  /\ episode[e].status \in {"ready", "recording"}
  <2>1. r \in Robots /\ (pc[d] \in SessionSteps => e \in Episodes)
    BY <1>2 DEF ClientNamed, RobotSteps
  <2>2. r # None
    BY <2>1, DomainAssumption DEF DomainAssumption
  <2>3. r # req[c].robot
    BY <2>2 DEF OneRequest
  <2> QED BY <1>1, <2>1, <2>2, <2>3
          DEF StillSo, StartSteps, EndSteps, SessionSteps, Queued, Recording
<1>3. ASSUME pc[d] \in SessionSteps => episode'[e] = episode[e],
             pc[d] \in SessionSteps \cup {"updateRobotWrite", "deleteRobotWrite"} =>
               robot'[r] = robot[r]
      PROVE  StillSo(d)'
  BY <1>1, <1>3 DEF StillSo, Queued, Recording, Busy, StartSteps, EndSteps, EndedSteps,
                    SessionSteps
<1>4. ASSUME NEW S \in SUBSET Absent, NEW s \in Robots, NEW t \in Tasks, InsertEpisodes(S, s, t)
      PROVE  StillSo(d)'
  <2>1. /\ robot' = robot
        /\ \A x \in Episodes \ S : episode'[x] = episode[x]
    BY <1>4 DEF InsertEpisodes
  <2>2. pc[d] \in SessionSteps => e \in Episodes \ S
    BY <1>2 DEF Absent
  <2> QED BY <1>3, <2>1, <2>2
<1>5. CASE SessionWrite(c)
  <2>1. PICK f \in Episodes, s \in Robots, ep \in EpisodeRow, rob \in RobotRow :
          /\ s = req[c].robot
          /\ episode' = [episode EXCEPT ![f] = ep]
          /\ robot' = [robot EXCEPT ![s] = rob]
          /\ Queued(f, s) \/ Recording(f, s)
    BY <1>5, SessionWrites
  <2>2. episode[f].robot = s
    BY <2>1 DEF Queued, Recording
  <2> QED BY <1>0, <1>2, <1>3, <2>1, <2>2
<1>6. CASE RobotWrite(c)
  <2>1. /\ episode' = episode
        /\ \A s \in Robots : s # req[c].robot => robot'[s] = robot[s]
    BY <1>6, <1>8
  <2> QED BY <1>2, <1>3, <2>1
<1>7. CASE episode' = episode /\ robot' = robot
  BY <1>3, <1>7
<1> QED BY <1>4, <1>5, <1>6, <1>7, Writes

\* There is still no other request of the robot.
LEMMA StillOneRequest ==
    ASSUME TypeInv, OneRequest, Overlap = FALSE, NEW c \in Clients, ClientStep(c)
    PROVE  OneRequest'
<1>0. req \in [Clients -> Request]
  BY DEF TypeInv, TypeOK, ClientsOK
<1>1. \A d \in Clients \ {c} : req'[d] = req[d]
  BY OtherClients
<1>2. SUFFICES ASSUME NEW d \in Clients, d # c
               PROVE  req'[c].robot # req[d].robot \/ req'[c].robot = None
  BY <1>1 DEF OneRequest
<1>3. req[c].robot # req[d].robot \/ req[c].robot = None
  BY <1>2 DEF OneRequest
<1>4. ASSUME NEW k, NEW a, NEW b, NEW s, Begin(c, k, a, b, s)
      PROVE  req'[c].robot # req[d].robot \/ req'[c].robot = None
  BY <1>0, <1>4 DEF Begin
<1>5. CASE req'[c].robot = req[c].robot
  BY <1>3, <1>5
<1>6. CASE Respond(c)
  BY <1>0, <1>6 DEF Respond, NoRequest
<1>7. CASE EpisodeStep(c)
  <2>1. CASE Create(c) \/ RepeatLast(c) \/ Start(c) \/ Finish(c) \/ Cancel(c) \/ UpdateEpisode(c)
    BY <1>4, <2>1 DEF Create, RepeatLast, Start, Finish, Cancel, UpdateEpisode
  <2>2. CASE \/ CreateRobot(c) \/ RepeatRobot(c) \/ StartRobot(c) \/ FinishRobot(c)
             \/ CancelRobot(c) \/ FinishWrite(c) \/ FinishTarget(c) \/ FinishTask(c)
    BY <1>5, <2>2
       DEF CreateRobot, RepeatRobot, BulkCreateRobot, StartRobot, FinishRobot, CancelRobot,
           EndRobot, FinishWrite, FinishTarget, FinishTask, Read
  <2>3. CASE RepeatList(c)
    <3>1. PICK t : req' = [req EXCEPT ![c].task = t]
      BY <2>3 DEF RepeatList
    <3>2. \A q \in Request : [q EXCEPT !.task = t].robot = q.robot
      BY DEF Request
    <3> QED BY <1>0, <1>5, <3>1, <3>2
  <2>4. CASE \/ CreateWrite(c) \/ RepeatWrite(c) \/ StartWrite(c) \/ FinishCommit(c)
             \/ CancelWrite(c) \/ UpdateEpisodeWrite(c)
    BY <1>6, <2>4
       DEF CreateWrite, RepeatWrite, StartWrite, FinishCommit, CancelWrite, UpdateEpisodeWrite
  <2>5. CASE DeleteEpisode(c)
    BY <1>5, <2>5 DEF DeleteEpisode, clients
  <2> QED BY <1>7, <2>1, <2>2, <2>3, <2>4, <2>5 DEF EpisodeStep
<1>8. CASE RobotStep(c)
  BY <1>4, <1>6, <1>8
     DEF RobotStep, UpdateRobot, UpdateRobotWrite, DeleteRobot, DeleteRobotWrite
<1>9. CASE ExecutionStep(c)
  <2>1. CASE \/ CreateExecution(c) \/ StartExecution(c) \/ FinishExecution(c)
             \/ CancelExecution(c) \/ CompleteSubTask(c) \/ SkipSubTask(c)
    BY <1>4, <2>1
       DEF CreateExecution, StartExecution, FinishExecution, CancelExecution,
           HoldExecutionOf, CompleteSubTask, SkipSubTask, HoldSubTaskOf
  <2>2. CASE StartExecutionCount(c)
    BY <1>5, <2>2 DEF StartExecutionCount, Read
  <2>3. CASE CreateExecutionWrite(c) \/ ExecutionWrite(c) \/ SubTaskWrite(c)
    BY <1>6, <2>3 DEF CreateExecutionWrite, ExecutionWrite, SubTaskWrite
  <2> QED BY <1>9, <2>1, <2>2, <2>3 DEF ExecutionStep
<1>10. CASE TaskStep(c)
  <2>1. CASE UpdateTask(c) \/ Approve(c)
    BY <1>4, <2>1 DEF UpdateTask, Approve
  <2>2. CASE \/ UpdateTaskRead(c) \/ UpdateTaskSum(c) \/ UpdateTaskTarget(c)
             \/ ApproveWrite(c) \/ ApproveTarget(c) \/ ApproveTask(c)
    BY <1>5, <2>2
       DEF UpdateTaskRead, UpdateTaskSum, UpdateTaskTarget, ApproveWrite, ApproveTarget,
           ApproveTask, Read
  <2>3. CASE UpdateTaskWrite(c) \/ ApproveCommit(c)
    BY <1>6, <2>3 DEF UpdateTaskWrite, ApproveCommit
  <2> QED BY <1>10, <2>1, <2>2, <2>3 DEF TaskStep
<1>11. CASE RollBack(c)
  BY <1>6, <1>11 DEF RollBack
<1> QED BY <1>7, <1>8, <1>9, <1>10, <1>11 DEF ClientStep

\* A request of the robot API begins with what its episode's row shows.
LEMMA BeginsSo ==
    ASSUME SerialInv, TypeInv, NEW c \in Clients, NEW k, NEW e \in Episodes,
           NEW row \in EpisodeRow, NEW s \in {"startRobot", "finishRobot", "cancelRobot"},
           row.robot = episode[e].robot,
           IF s = "startRobot"
             THEN episode[e].status = "ready" /\ row.status = "recording"
             ELSE episode[e].status = "recording" /\ row.status \in {"completed", "cancel"},
           Begin(c, k, EpisodeRequest(c, e), HoldEpisode(row), s), episode' = episode
    PROVE  StillSo(c)'
<1>1. pc'[c] = s /\ req'[c] = EpisodeRequest(c, e) /\ buf'[c] = HoldEpisode(row)
  BY DEF TypeInv, TypeOK, ClientsOK, Begin
<1>2. /\ EpisodeRequest(c, e).episode = e
      /\ EpisodeRequest(c, e).robot = episode[e].robot
      /\ HoldEpisode(row).episode = row
  BY DEF EpisodeRequest, NoRequest, HoldEpisode, NoBuffer
<1> QED BY <1>1, <1>2
        DEF StillSo, Queued, Recording, SessionSteps, StartSteps, EndSteps, EndedSteps

\* What the stepping request goes on with is so.
LEMMA OwnStillSo ==
    ASSUME CoherentInv, SerialInv, OneAtATime, NEW c \in Clients, ClientStep(c)
    PROVE  StillSo(c)'
<1> USE RowTypes DEF CoherentInv
<1> DEFINE r == req[c].robot
<1>0. pc \in [Clients -> Steps] /\ req \in [Clients -> Request] /\ buf \in [Clients -> Buffer]
  BY DEF TypeInv, TypeOK, ClientsOK
<1>1. StillSo(c)
  BY DEF SerialInv
<1>2. CASE pc'[c] \notin HoldingSteps
  BY <1>2 DEF StillSo, HoldingSteps, SessionSteps, StartSteps, EndSteps, EndedSteps
<1>3. CASE Respond(c)
  <2>1. pc'[c] = "idle"
    BY <1>0, <1>3 DEF Respond
  <2> QED BY <1>2, <2>1 DEF HoldingSteps, SessionSteps
<1>4. CASE Start(c)
  <2>1. PICK e \in Episodes : /\ EpisodeCanStart(episode[e])
                              /\ Begin(c, "start", EpisodeRequest(c, e),
                                       HoldEpisode(EpisodeStart(episode[e])), "startRobot")
                              /\ episode' = episode
    BY <1>4 DEF Start, tables
  <2>2. episode[e].status = "ready" /\ EpisodeStart(episode[e]).status = "recording"
    BY <2>1 DEF EpisodeCanStart, EpisodeStart, EpisodeRow
  <2> QED BY <2>1, <2>2, BeginsSo, DomainTypes, EpisodeKept
<1>5. CASE Finish(c)
  <2>1. PICK e \in Episodes : /\ EpisodeCanFinish(episode[e])
                              /\ Begin(c, "finish", EpisodeRequest(c, e),
                                       HoldEpisode(EpisodeFinish(episode[e])), "finishRobot")
                              /\ episode' = episode
    BY <1>5 DEF Finish, tables
  <2>2. episode[e].status = "recording" /\ EpisodeFinish(episode[e]).status = "completed"
    BY <2>1 DEF EpisodeCanFinish, EpisodeFinish, EpisodeRow
  <2> QED BY <2>1, <2>2, BeginsSo, DomainTypes, EpisodeKept
<1>6. CASE Cancel(c)
  <2>1. PICK e \in Episodes : /\ EpisodeCanCancel(episode[e])
                              /\ Begin(c, "cancel", EpisodeRequest(c, e),
                                       HoldEpisode(EpisodeCancel(episode[e])), "cancelRobot")
                              /\ episode' = episode
    BY <1>6 DEF Cancel, tables
  <2>2. episode[e].status = "recording" /\ EpisodeCancel(episode[e]).status = "cancel"
    BY <2>1 DEF EpisodeCanCancel, EpisodeCancel, EpisodeRow
  <2> QED BY <2>1, <2>2, BeginsSo, DomainTypes, EpisodeKept
<1>7. CASE StartRobot(c)
  <2> DEFINE rob == ResolvedStatus(robot[r], heartbeat[r])
             start == StartTeleoperation(rob, req[c].episode)
  <2>1. /\ pc[c] = "startRobot"
        /\ CanStartTeleoperation(rob)
        /\ pc'[c] = "startWrite" /\ buf'[c] = [buf[c] EXCEPT !.robot = start]
        /\ req' = req /\ episode' = episode /\ robot' = robot
    BY <1>0, <1>7 DEF StartRobot, Read, tables
  <2>2. r \in Robots /\ req[c].episode \in Episodes
    BY <2>1 DEF ClientNamed, RobotSteps, SessionSteps
  <2>3. robot[r].status = "ready"
    BY <2>1, <2>2 DEF CanStartTeleoperation, ResolvedStatus, RobotRow, StoredStatus
  <2>4. start.status = "busy" /\ start.active = req[c].episode
    BY <2>2 DEF StartTeleoperation, ResolvedStatus, RobotRow
  <2>5. buf'[c].robot = start /\ buf'[c].episode = buf[c].episode
    BY <2>1 DEF Buffer
  <2> HIDE DEF start
  <2> QED BY <1>1, <2>1, <2>3, <2>4, <2>5
          DEF StillSo, Queued, Recording, SessionSteps, StartSteps, EndSteps, EndedSteps
<1>8. CASE FinishRobot(c) \/ CancelRobot(c)
  <2> DEFINE end == EndTeleoperation(robot[r])
  <2>1. /\ pc[c] \in {"finishRobot", "cancelRobot"}
        /\ pc'[c] \in {"finishWrite", "cancelWrite"}
        /\ buf'[c] = [buf[c] EXCEPT !.robot = end]
        /\ req' = req /\ episode' = episode /\ robot' = robot
    BY <1>0, <1>8 DEF FinishRobot, CancelRobot, EndRobot, Read, tables
  <2>2. r \in Robots
    BY <2>1 DEF ClientNamed, RobotSteps, SessionSteps
  <2>3. end.status = "ready" /\ end.active = NoEpisode
    BY <2>2 DEF EndTeleoperation, RobotRow
  <2>4. buf'[c].robot = end /\ buf'[c].episode = buf[c].episode
    BY <2>1 DEF Buffer
  <2> HIDE DEF end
  <2> QED BY <1>1, <2>1, <2>3, <2>4
          DEF StillSo, Queued, Recording, SessionSteps, StartSteps, EndSteps, EndedSteps
<1>9. CASE FinishWrite(c) \/ FinishTarget(c) \/ FinishTask(c)
  <2>1. /\ pc[c] \in {"finishWrite", "finishTarget", "finishTask"}
        /\ pc'[c] \in {"finishTarget", "finishTask", "finishCommit"}
        /\ buf'[c].robot = buf[c].robot /\ buf'[c].episode = buf[c].episode
        /\ req' = req /\ episode' = episode /\ robot' = robot
    BY <1>0, <1>9 DEF FinishWrite, FinishTarget, FinishTask, Read, Buffer, tables
  <2> QED BY <1>1, <2>1
          DEF StillSo, Queued, Recording, SessionSteps, StartSteps, EndSteps, EndedSteps
<1>10. CASE UpdateRobot(c)
  <2>1. PICK s \in Robots :
          /\ RobotExists(s)
          /\ \E row \in {robot[s]} \cup {SetStatus(robot[s], wanted) :
                   wanted \in {w \in ManualStatus : CanSetStatus(robot[s], w)}} :
               Begin(c, "updateRobot", RobotRequest(s), HoldRobot(row), "updateRobotWrite")
          /\ robot' = robot
    BY <1>10 DEF UpdateRobot, tables
  <2>2. \A w \in ManualStatus : CanSetStatus(robot[s], w) =>
          /\ SetStatus(robot[s], w).active = robot[s].active
          /\ SetStatus(robot[s], w).status # "busy"
          /\ ~Busy(s)
    BY DEF SetStatus, CanSetStatus, ManualStatus, RobotRow, Busy
  <2>3. PICK row : /\ row.active = robot[s].active
                   /\ row.status = "busy" <=> Busy(s)
                   /\ Begin(c, "updateRobot", RobotRequest(s), HoldRobot(row),
                            "updateRobotWrite")
    BY <2>1, <2>2 DEF Busy
  <2>4. pc'[c] = "updateRobotWrite" /\ req'[c] = RobotRequest(s) /\ buf'[c] = HoldRobot(row)
    BY <1>0, <2>3 DEF Begin
  <2>5. RobotRequest(s).robot = s /\ HoldRobot(row).robot = row
    BY DEF RobotRequest, NoRequest, HoldRobot, NoBuffer
  <2> QED BY <2>1, <2>3, <2>4, <2>5
          DEF StillSo, Busy, SessionSteps, StartSteps, EndSteps, EndedSteps
<1>11. CASE DeleteRobot(c)
  <2>1. PICK s \in Robots :
          /\ robot[s].status # "busy"
          /\ Begin(c, "deleteRobot", RobotRequest(s), NoBuffer, "deleteRobotWrite")
          /\ robot' = robot
    BY <1>11 DEF DeleteRobot, tables
  <2>2. pc'[c] = "deleteRobotWrite" /\ req'[c].robot = s
    BY <1>0, <2>1 DEF Begin, RobotRequest, NoRequest
  <2> QED BY <2>1, <2>2 DEF StillSo, Busy, SessionSteps, StartSteps, EndSteps, EndedSteps
<1>12. CASE \/ CreateWrite(c) \/ RepeatWrite(c) \/ StartWrite(c) \/ FinishCommit(c)
            \/ CancelWrite(c) \/ UpdateEpisodeWrite(c) \/ UpdateRobotWrite(c)
            \/ DeleteRobotWrite(c)
  BY <1>3, <1>12
     DEF CreateWrite, RepeatWrite, StartWrite, FinishCommit, CancelWrite,
         UpdateEpisodeWrite, UpdateRobotWrite, DeleteRobotWrite
<1>13. CASE UpdateEpisode(c) \/ DeleteEpisode(c)
  BY <1>13 DEF UpdateEpisode, DeleteEpisode, Begin, OneAtATime
<1>14. CASE QuietStep(c)
  BY <1>2, <1>14, QuietSteps
<1> QED BY <1>4, <1>5, <1>6, <1>7, <1>8, <1>9, <1>10, <1>11, <1>12, <1>13, <1>14
        DEF ClientStep, EpisodeStep, RobotStep, QuietStep

-----------------------------------------------------------------------------

\* No request is being served at first.
LEMMA SerialInvInit == Init => SerialInv
<1> SUFFICES ASSUME Init PROVE SerialInv
  OBVIOUS
<1>1. SessionAgreement
  BY DEF Init, RequestsInit, SessionAgreement, Recording, Busy, InitRobot, NoEpisodeRow
<1>2. OneRequest
  BY DEF Init, RequestsInit, OneRequest, NoRequest
<1>3. \A c \in Clients : StillSo(c)
  BY DEF Init, RequestsInit, StillSo, SessionSteps, StartSteps, EndSteps, EndedSteps
<1> QED BY <1>1, <1>2, <1>3 DEF SerialInv

\* A step of the system keeps the invariant, and is a step of Session or none.
LEMMA SerialStep ==
    ASSUME OneAtATime, CoherentInv, SerialInv, [Next]_vars
    PROVE  SerialInv' /\ [Abstract!SessionNext]_(Abstract!sessionVars)
<1>1. ASSUME NEW c \in Clients, ClientStep(c)
      PROVE  SerialInv' /\ [Abstract!SessionNext]_(Abstract!sessionVars)
  <2>1. SessionAgreement' /\ [Abstract!SessionNext]_(Abstract!sessionVars)
    BY <1>1, AgreementAndSession
  <2>2. OneRequest'
    BY <1>1, StillOneRequest DEF CoherentInv, SerialInv, OneAtATime
  <2>3. StillSo(c)'
    BY <1>1, OwnStillSo
  <2>4. \A d \in Clients \ {c} : StillSo(d)'
    BY <1>1, OthersStillSo
  <2> QED BY <2>1, <2>2, <2>3, <2>4 DEF SerialInv
<1>2. ASSUME UNCHANGED <<episode, robot, pc, req, buf>>
      PROVE  SerialInv' /\ [Abstract!SessionNext]_(Abstract!sessionVars)
  <2>1. SerialInv'
    BY <1>2 DEF SerialInv, SessionAgreement, Recording, RobotExists, Busy, OneRequest, StillSo,
                Queued
  <2>2. UNCHANGED Abstract!sessionVars
    BY <1>2 DEF Abstract!sessionVars
  <2> QED BY <2>1, <2>2
<1>3. ASSUME NEW r \in Robots, Heartbeat(r) \/ HeartbeatExpires(r)
      PROVE  UNCHANGED <<episode, robot, pc, req, buf>>
  BY <1>3 DEF Heartbeat, HeartbeatExpires, tables, clients
<1> QED BY <1>1, <1>2, <1>3 DEF Next, ClientStep, vars

\* With requests about a robot served one at a time and no edits of episodes by
\* hand, the episodes and the robots agree on every session, for any number of
\* robots, clients and episodes (usecase/episode.go, usecase/robot.go).
THEOREM SessionsAgree == OneAtATime => (Spec => []SessionAgreement)
<1> SUFFICES ASSUME OneAtATime PROVE Spec => []SessionAgreement
  OBVIOUS
<1>1. CoherentInv /\ SerialInv /\ [Next]_vars => SerialInv'
  BY SerialStep
<1>2. SerialInv => SessionAgreement
  BY DEF SerialInv
<1> QED BY <1>1, <1>2, SerialInvInit, CoherentInvariant, PTL DEF Spec

\* Under the same assumption the API implements the abstract sessions of module
\* Session: Create and RepeatLast queue, Start records, Finish and Cancel end,
\* and every other statement, failure and edit of a robot is a stutter there.
THEOREM SessionsImplemented == OneAtATime => (Spec => ImplementsSession)
<1> SUFFICES ASSUME OneAtATime PROVE Spec => ImplementsSession
  OBVIOUS
<1>1. Init => Abstract!SessionInit
  BY DEF Init, RequestsInit, Abstract!SessionInit, NoEpisodeRow, InitRobot
<1>2. CoherentInv /\ SerialInv /\ [Next]_vars =>
        SerialInv' /\ [Abstract!SessionNext]_(Abstract!sessionVars)
  BY SerialStep
<1> QED BY <1>1, <1>2, SerialInvInit, CoherentInvariant, PTL
        DEF Spec, ImplementsSession, Abstract!SessionSpec

-----------------------------------------------------------------------------
(* The work on subtasks: what its requests have read is still so, too.      *)

WorkSteps == {"createExecutionWrite", "startExecutionCount", "executionWrite", "subTaskWrite"}

\* An execution with status is may be written over by one with status will.
MayBecome(is, will) ==
    \/ will = "started" /\ is = "ready"
    \/ will = "finished" /\ is = "started"
    \/ will = "cancelled" /\ is \in {"ready", "started", "cancelled"}

WorkStillSo(c) ==
    LET e == req[c].episode
        s == req[c].subTask
        x == req[c].execution
        will == buf[c].execution.status
    IN  pc[c] \in WorkSteps =>
        /\ e \in Episodes /\ s \in SubTasks
        /\ req[c].robot \in Robots /\ EpisodeOf(e, req[c].robot)
        /\ pc[c] = "createExecutionWrite" =>
             subTask[e][s] \in {"ready", "inProgress"} /\ buf[c].subTask = "inProgress"
        /\ pc[c] = "subTaskWrite" => /\ subTask[e][s] \notin {"absent", "cancelled"}
                                     /\ buf[c].subTask \in {"completed", "skipped"}
        /\ pc[c] \in {"startExecutionCount", "executionWrite"} =>
             x \in Executions /\ MayBecome(execution[e][s][x].status, will)
        /\ pc[c] = "executionWrite" /\ will = "started" => StartedExecutions(e, s) = {}

NoWorkYet == \A e \in Episodes : episode[e].status = "absent" =>
                \A s \in SubTasks : subTask[e][s] = "absent"

\* Cancel leaves every subtask and execution of its episode cancelled, those that
\* were completed or finished, too.
CancelledThroughout ==
    \A e \in Episodes : episode[e].status = "cancel" =>
        \A s \in SubTasks :
            /\ subTask[e][s] = "cancelled"
            /\ \A x \in Executions : execution[e][s][x].status \in {"absent", "cancelled"}

WorkInv ==
    /\ CancelledThroughout
    /\ OneStartedExecution
    /\ ExecutionOfBegunSubTask
    /\ NoWorkYet
    /\ \A c \in Clients : WorkStillSo(c)

\* What each step does to subtasks and executions.
LEMMA WorkWrites ==
    ASSUME CoherentInv, SerialInv, OneAtATime, NEW c \in Clients, ClientStep(c)
    PROVE  \/ /\ subTask' = subTask /\ execution' = execution
              /\ \A e \in Episodes : episode'[e].status = "cancel" => episode[e].status = "cancel"
           \/ \E S \in SUBSET Absent, r \in Robots, t \in Tasks : InsertEpisodes(S, r, t)
           \/ CancelWrite(c)
           \/ /\ CreateExecutionWrite(c) \/ ExecutionWrite(c) \/ SubTaskWrite(c)
              /\ episode' = episode
<1> USE RowTypes DEF CoherentInv
<1>0. episode \in [Episodes -> EpisodeRow] /\ StillSo(c)
  BY DEF TypeInv, TypeOK, TablesOK, SerialInv
<1>1. CASE CreateWrite(c) \/ RepeatWrite(c)
  <2>1. req[c].robot \in Robots /\ req[c].task \in Tasks
    BY <1>1 DEF CreateWrite, RepeatWrite, ClientNamed, RobotSteps, TaskSteps, CreateSteps
  <2> QED BY <1>1, <2>1 DEF CreateWrite, RepeatWrite, NextEpisodes
<1>2. CASE StartWrite(c) \/ FinishCommit(c)
  <2>1. /\ pc[c] \in {"startWrite", "finishCommit"}
        /\ episode' = [episode EXCEPT ![req[c].episode] = buf[c].episode]
        /\ subTask' = subTask /\ execution' = execution
    BY <1>2 DEF StartWrite, FinishCommit, WriteEpisodeAndRobot
  <2>2. buf[c].episode.status # "cancel"
    BY <1>0, <2>1 DEF StillSo, StartSteps, CoherentRequest, FinishSteps
  <2> QED BY <1>0, <2>1, <2>2
<1>3. CASE ExecutionStep(c)
  BY <1>3
     DEF ExecutionStep, CreateExecution, StartExecution, FinishExecution, CancelExecution,
         HoldExecutionOf, CompleteSubTask, SkipSubTask, HoldSubTaskOf, StartExecutionCount,
         CreateExecutionWrite, ExecutionWrite, SubTaskWrite, Read, tables
<1>4. CASE \/ Create(c) \/ RepeatLast(c) \/ Start(c) \/ Finish(c) \/ Cancel(c)
           \/ UpdateEpisode(c) \/ CreateRobot(c) \/ RepeatList(c) \/ RepeatRobot(c)
           \/ StartRobot(c) \/ FinishRobot(c) \/ CancelRobot(c)
           \/ FinishWrite(c) \/ FinishTarget(c) \/ FinishTask(c)
  BY <1>4
     DEF Create, RepeatLast, Start, Finish, Cancel, UpdateEpisode, CreateRobot, RepeatList,
         RepeatRobot, BulkCreateRobot, StartRobot, FinishRobot, CancelRobot, EndRobot,
         FinishWrite, FinishTarget, FinishTask, Read, tables
<1>5. CASE UpdateEpisodeWrite(c) \/ DeleteEpisode(c)
  BY <1>0, <1>5 DEF UpdateEpisodeWrite, DeleteEpisode, OneAtATime, StillSo
<1>6. CASE RobotStep(c)
  BY <1>6 DEF RobotStep, UpdateRobot, UpdateRobotWrite, DeleteRobot, DeleteRobotWrite, tables
<1>7. CASE TaskStep(c)
  BY <1>7
     DEF TaskStep, UpdateTask, UpdateTaskRead, UpdateTaskSum, UpdateTaskTarget,
         UpdateTaskWrite, Approve, ApproveWrite, ApproveTarget, ApproveTask, ApproveCommit,
         Read, tables
<1>8. CASE RollBack(c)
  BY <1>8 DEF RollBack, tables
<1> QED BY <1>1, <1>2, <1>3, <1>4, <1>5, <1>6, <1>7, <1>8 DEF ClientStep, EpisodeStep

\* Without edits by hand an episode stays, stays the robot's, and is never absent again.
LEMMA EpisodesStaySo ==
    ASSUME CoherentInv, SerialInv, OneAtATime, NEW c \in Clients, ClientStep(c),
           NEW e \in Episodes
    PROVE  /\ \A r : EpisodeOf(e, r) => EpisodeOf(e, r)'
           /\ episode'[e].status = "absent" => episode[e].status = "absent"
<1>0. episode \in [Episodes -> EpisodeRow] /\ StillSo(c) /\ TypeInv
  BY DEF CoherentInv, TypeInv, TypeOK, TablesOK, SerialInv
<1>1. CASE episode' = episode
  BY <1>1 DEF EpisodeOf, EpisodeExists
<1>2. ASSUME NEW S \in SUBSET Absent, NEW s \in Robots, NEW t \in Tasks, InsertEpisodes(S, s, t)
      PROVE  /\ \A r : EpisodeOf(e, r) => EpisodeOf(e, r)'
             /\ episode'[e].status = "absent" => episode[e].status = "absent"
  <2>1. /\ e \in S => episode'[e] = InitEpisode(s, t) /\ episode[e].status = "absent"
        /\ e \notin S => episode'[e] = episode[e]
    BY <1>2 DEF InsertEpisodes, Absent
  <2> QED BY <2>1 DEF EpisodeOf, EpisodeExists, EpisodeStatus
<1>3. CASE SessionWrite(c)
  <2>1. PICK f \in Episodes, s \in Robots, ep \in EpisodeRow, rob \in RobotRow :
          /\ episode' = [episode EXCEPT ![f] = ep]
          /\ ep.robot = s
          /\ Queued(f, s) \/ Recording(f, s)
          /\ ep.status \in {"recording", "completed", "cancel"}
    BY <1>3, SessionWrites
  <2>2. episode[f].robot = s
    BY <2>1 DEF Queued, Recording
  <2> QED BY <1>0, <2>1, <2>2 DEF EpisodeOf, EpisodeExists, EpisodeStatus
<1>4. CASE RobotWrite(c)
  BY <1>1, <1>4 DEF RobotWrite
<1> QED BY <1>0, <1>1, <1>2, <1>3, <1>4, Writes

\* An episode is cancelled with all its work.
LEMMA CancelWrites ==
    ASSUME CoherentInv, SerialInv, NEW c \in Clients, CancelWrite(c)
    PROVE  /\ req[c].episode \in Episodes /\ Recording(req[c].episode, req[c].robot)
           /\ \A f \in Episodes : f # req[c].episode =>
                 episode'[f] = episode[f] /\ subTask'[f] = subTask[f] /\ execution'[f] = execution[f]
           /\ \A s \in SubTasks :
                 /\ subTask'[req[c].episode][s] = "cancelled"
                 /\ \A x \in Executions :
                      execution'[req[c].episode][s][x].status =
                        IF execution[req[c].episode][s][x].status = "absent" THEN "absent"
                                                                           ELSE "cancelled"
<1> USE RowTypes DEF CoherentInv, SerialInv
<1> DEFINE e == req[c].episode
<1>0. /\ episode \in [Episodes -> EpisodeRow]
      /\ subTask \in [Episodes -> [SubTasks -> SubTaskStatus \cup {"absent"}]]
      /\ execution \in [Episodes -> [SubTasks -> [Executions -> ExecutionRow]]]
  BY DEF TypeInv, TypeOK, TablesOK
<1>1. pc[c] = "cancelWrite"
  BY DEF CancelWrite
<1>2. e \in Episodes /\ Recording(e, req[c].robot)
  BY <1>1 DEF ClientNamed, StillSo, EndSteps, StartSteps, SessionSteps
<1>3. \A f \in Episodes : f # e =>
        episode'[f] = episode[f] /\ subTask'[f] = subTask[f] /\ execution'[f] = execution[f]
  BY <1>0, <1>2
     DEF CancelWrite, WriteEpisodeAndRobot, BulkCancelSubTasks, BulkCancelExecutions
<1>4. \A s \in SubTasks : subTask'[e][s] = "cancelled"
  BY <1>0, <1>2 DEF CancelWrite, BulkCancelSubTasks
<1>5. ASSUME NEW s \in SubTasks, NEW x \in Executions
      PROVE  execution'[e][s][x].status =
               IF execution[e][s][x].status = "absent" THEN "absent" ELSE "cancelled"
  <2>1. execution'[e][s][x] = IF execution[e][s][x].status = "absent" THEN execution[e][s][x]
                              ELSE [execution[e][s][x] EXCEPT !.status = "cancelled"]
    BY <1>0, <1>2 DEF CancelWrite, BulkCancelExecutions
  <2>2. execution[e][s][x] \in ExecutionRow
    BY <1>2
  <2> QED BY <2>1, <2>2 DEF ExecutionRow
<1> QED BY <1>2, <1>3, <1>4, <1>5

\* The tables of the work keep their properties.
LEMMA WorkTables ==
    ASSUME CoherentInv, SerialInv, WorkInv, OneAtATime, NEW c \in Clients, ClientStep(c)
    PROVE  CancelledThroughout' /\ OneStartedExecution' /\ ExecutionOfBegunSubTask' /\ NoWorkYet'
<1> DEFINE e == req[c].episode
           s == req[c].subTask
<1>0. /\ WorkStillSo(c)
      /\ CancelledThroughout /\ OneStartedExecution /\ ExecutionOfBegunSubTask /\ NoWorkYet
  BY DEF WorkInv
<1>6. /\ subTask \in [Episodes -> [SubTasks -> SubTaskStatus \cup {"absent"}]]
      /\ execution \in [Episodes -> [SubTasks -> [Executions -> ExecutionRow]]]
  BY DEF CoherentInv, TypeInv, TypeOK, TablesOK
<1>1. \A f \in Episodes : episode'[f].status = "absent" => episode[f].status = "absent"
  BY EpisodesStaySo
<1>2. CASE /\ subTask' = subTask /\ execution' = execution
           /\ \A f \in Episodes : episode'[f].status = "cancel" => episode[f].status = "cancel"
  BY <1>0, <1>1, <1>2
     DEF CancelledThroughout, OneStartedExecution, StartedExecutions, ExecutionOfBegunSubTask,
         NoWorkYet
<1>3. ASSUME NEW S \in SUBSET Absent, NEW r \in Robots, NEW t \in Tasks, InsertEpisodes(S, r, t)
      PROVE  /\ CancelledThroughout' /\ OneStartedExecution'
             /\ ExecutionOfBegunSubTask' /\ NoWorkYet'
  <2>1. \A f \in Episodes : /\ execution' = execution
                            /\ f \in S => /\ episode[f].status = "absent"
                                          /\ episode'[f].status = "ready"
                                          /\ subTask'[f] = [u \in SubTasks |-> "ready"]
                            /\ f \notin S => episode'[f] = episode[f] /\ subTask'[f] = subTask[f]
    BY <1>3 DEF InsertEpisodes, Absent, InitEpisode
  <2>2. CancelledThroughout' /\ OneStartedExecution' /\ NoWorkYet'
    BY <1>0, <2>1 DEF CancelledThroughout, OneStartedExecution, StartedExecutions, NoWorkYet
  <2>3. ExecutionOfBegunSubTask'
    BY <1>0, <2>1 DEF ExecutionOfBegunSubTask, NoWorkYet
  <2> QED BY <2>2, <2>3
<1>4. CASE CancelWrite(c)
  <2>1. OneStartedExecution'
    <3>1. ASSUME NEW f \in Episodes, NEW u \in SubTasks,
                 NEW x \in StartedExecutions(f, u)', NEW y \in StartedExecutions(f, u)'
          PROVE  x = y
      <4>1. CASE f = e
        BY <1>4, <3>1, <4>1, CancelWrites DEF StartedExecutions
      <4>2. CASE f # e
        BY <1>0, <1>4, <3>1, <4>2, CancelWrites DEF OneStartedExecution, StartedExecutions
      <4> QED BY <4>1, <4>2
    <3> QED BY <3>1 DEF OneStartedExecution
  <2>2. CancelledThroughout' /\ NoWorkYet'
    BY <1>0, <1>1, <1>4, CancelWrites DEF CancelledThroughout, NoWorkYet, Recording
  <2>3. ExecutionOfBegunSubTask'
    BY <1>0, <1>4, CancelWrites DEF ExecutionOfBegunSubTask
  <2> QED BY <2>1, <2>2, <2>3
<1>5. CASE (CreateExecutionWrite(c) \/ ExecutionWrite(c) \/ SubTaskWrite(c)) /\ episode' = episode
  <2>1. /\ e \in Episodes /\ s \in SubTasks /\ EpisodeExists(e)
    BY <1>0, <1>5 DEF WorkStillSo, WorkSteps, EpisodeOf, CreateExecutionWrite, ExecutionWrite,
                      SubTaskWrite
  <2> HIDE DEF e, s
  <2>2. CASE CreateExecutionWrite(c)
    <3>1. PICK x \in Executions : execution' = [execution EXCEPT ![e][s][x] = InitExecution]
      BY <2>2 DEF CreateExecutionWrite, e, s
    <3>2. /\ subTask[e][s] \in {"ready", "inProgress"}
          /\ subTask' = [subTask EXCEPT ![e][s] = "inProgress"]
      BY <1>0, <2>2 DEF CreateExecutionWrite, WorkStillSo, WorkSteps, e, s
    <3> DEFINE row == InitExecution
    <3> HIDE DEF row
    <3>8. \A f \in Episodes, u \in SubTasks :
            subTask'[f][u] = IF f = e /\ u = s THEN "inProgress" ELSE subTask[f][u]
      BY <1>6, <2>1, <3>2
    <3>9. \A f \in Episodes, u \in SubTasks, y \in Executions :
            execution'[f][u][y] = IF f = e /\ u = s /\ y = x THEN row ELSE execution[f][u][y]
      BY <1>6, <2>1, <3>1 DEF row
    <3>4. row.status = "ready"
      BY DEF row, InitExecution
    <3>5. CancelledThroughout'
      BY <1>0, <1>5, <2>1, <3>2, <3>8, <3>9 DEF CancelledThroughout
    <3>6. OneStartedExecution' /\ ExecutionOfBegunSubTask'
      BY <1>0, <3>8, <3>9, <3>4 DEF OneStartedExecution, StartedExecutions, ExecutionOfBegunSubTask
    <3>7. NoWorkYet'
      BY <1>0, <1>5, <2>1, <3>8, <3>9 DEF NoWorkYet, EpisodeExists, EpisodeStatus
    <3> QED BY <3>5, <3>6, <3>7
  <2>3. CASE ExecutionWrite(c)
    <3> DEFINE x == req[c].execution
               row == buf[c].execution
    <3>1. /\ execution' = [execution EXCEPT ![e][s][x] = row]
          /\ subTask' = subTask
          /\ x \in Executions
          /\ MayBecome(execution[e][s][x].status, row.status)
          /\ row.status = "started" => StartedExecutions(e, s) = {}
      BY <1>0, <2>3 DEF ExecutionWrite, WorkStillSo, WorkSteps, e, s
    <3> HIDE DEF x, row
    <3>2. \A f \in Episodes, u \in SubTasks, y \in Executions :
            execution'[f][u][y] = IF f = e /\ u = s /\ y = x THEN row ELSE execution[f][u][y]
      BY <1>6, <2>1, <3>1
    <3>3. CancelledThroughout'
      <4>1. episode[e].status = "cancel" => row.status = "cancelled"
        BY <1>0, <2>1, <3>1 DEF CancelledThroughout, MayBecome
      <4> QED BY <1>0, <1>5, <3>1, <3>2, <4>1 DEF CancelledThroughout
    <3>4. ExecutionOfBegunSubTask'
      <4>1. subTask[e][s] \notin {"absent", "ready"}
        BY <1>0, <2>1, <3>1 DEF ExecutionOfBegunSubTask, MayBecome
      <4> QED BY <1>0, <3>1, <3>2, <4>1 DEF ExecutionOfBegunSubTask
    <3>6. OneStartedExecution'
      BY <1>0, <3>1, <3>2 DEF OneStartedExecution, StartedExecutions
    <3>5. NoWorkYet'
      BY <1>0, <1>5, <3>1 DEF NoWorkYet
    <3> QED BY <3>3, <3>4, <3>5, <3>6
  <2>4. CASE SubTaskWrite(c)
    <3>1. /\ subTask' = [subTask EXCEPT ![e][s] = buf[c].subTask]
          /\ execution' = execution
          /\ subTask[e][s] \notin {"absent", "cancelled"}
          /\ buf[c].subTask \in {"completed", "skipped"}
      BY <1>0, <2>4 DEF SubTaskWrite, WorkStillSo, WorkSteps, e, s
    <3>2. \A f \in Episodes, u \in SubTasks :
            subTask'[f][u] = IF f = e /\ u = s THEN buf[c].subTask ELSE subTask[f][u]
      BY <1>6, <2>1, <3>1
    <3>3. CancelledThroughout' /\ OneStartedExecution' /\ ExecutionOfBegunSubTask'
      BY <1>0, <1>5, <2>1, <3>1, <3>2
         DEF CancelledThroughout, OneStartedExecution, StartedExecutions, ExecutionOfBegunSubTask
    <3>4. NoWorkYet'
      BY <1>0, <1>5, <2>1, <3>2 DEF NoWorkYet, EpisodeExists, EpisodeStatus
    <3> QED BY <3>3, <3>4
  <2> QED BY <1>5, <2>2, <2>3, <2>4
<1> QED BY <1>2, <1>3, <1>4, <1>5, WorkWrites

\* A step leaves the work on the episodes of other robots alone.
LEMMA WorkApart ==
    ASSUME CoherentInv, SerialInv, WorkInv, OneAtATime, NEW c \in Clients, ClientStep(c),
           NEW e \in Episodes, EpisodeExists(e), episode[e].robot # req[c].robot
    PROVE  subTask'[e] = subTask[e] /\ execution'[e] = execution[e]
<1>1. ASSUME NEW S \in SUBSET Absent, NEW r \in Robots, NEW t \in Tasks, InsertEpisodes(S, r, t)
      PROVE  subTask'[e] = subTask[e] /\ execution'[e] = execution[e]
  BY <1>1 DEF InsertEpisodes, Absent, EpisodeExists, EpisodeStatus
<1>2. CASE CancelWrite(c)
  BY <1>2, CancelWrites DEF Recording
<1>3. CASE CreateExecutionWrite(c) \/ ExecutionWrite(c) \/ SubTaskWrite(c)
  <2>1. req[c].episode # e
    BY <1>3
       DEF WorkInv, WorkStillSo, WorkSteps, EpisodeOf, CreateExecutionWrite, ExecutionWrite,
           SubTaskWrite
  <2>2. /\ subTask \in [Episodes -> [SubTasks -> SubTaskStatus \cup {"absent"}]]
        /\ execution \in [Episodes -> [SubTasks -> [Executions -> ExecutionRow]]]
    BY DEF CoherentInv, TypeInv, TypeOK, TablesOK
  <2> QED BY <1>3, <2>1, <2>2 DEF CreateExecutionWrite, ExecutionWrite, SubTaskWrite
<1> QED BY <1>1, <1>2, <1>3, WorkWrites

\* So what the other requests have read of the work is still so.
LEMMA OthersWorkStillSo ==
    ASSUME CoherentInv, SerialInv, WorkInv, OneAtATime, NEW c \in Clients, ClientStep(c),
           NEW d \in Clients \ {c}
    PROVE  WorkStillSo(d)'
<1> DEFINE e == req[d].episode
           r == req[d].robot
<1>1. pc'[d] = pc[d] /\ req'[d] = req[d] /\ buf'[d] = buf[d] /\ WorkStillSo(d)
  BY OtherClients DEF CoherentInv, WorkInv
<1>2. SUFFICES ASSUME pc[d] \in WorkSteps PROVE WorkStillSo(d)'
  BY <1>1 DEF WorkStillSo
<1>3. e \in Episodes /\ r \in Robots /\ EpisodeOf(e, r)
  BY <1>1, <1>2 DEF WorkStillSo
<1>4. r # req[c].robot
  BY <1>3, DomainAssumption DEF SerialInv, OneRequest, DomainAssumption
<1>5. subTask'[e] = subTask[e] /\ execution'[e] = execution[e]
  BY <1>3, <1>4, WorkApart DEF EpisodeOf
<1>6. EpisodeOf(e, r)'
  BY <1>1, <1>3, EpisodesStaySo DEF EpisodeOf, EpisodeExists
<1> QED BY <1>1, <1>2, <1>5, <1>6 DEF WorkStillSo, StartedExecutions

\* A request about an execution names the episode, which is its robot's.
LEMMA WorkBegins ==
    ASSUME TypeInv, NEW c \in Clients, NEW e \in Episodes, NEW s \in SubTasks, NEW x,
           NEW k, NEW b, NEW p, OwnEpisode(c, e), UNCHANGED tables,
           Begin(c, k, ExecutionRequest(c, e, s, x), b, p)
    PROVE  /\ pc'[c] = p /\ buf'[c] = b
           /\ req'[c].episode = e /\ req'[c].subTask = s /\ req'[c].execution = x
           /\ req'[c].robot = RobotOf[c] /\ RobotOf[c] \in Robots
           /\ EpisodeExists(e)' /\ episode'[e].robot = RobotOf[c]
<1>1. pc'[c] = p /\ req'[c] = ExecutionRequest(c, e, s, x) /\ buf'[c] = b
  BY DEF TypeInv, TypeOK, ClientsOK, Begin
<1>2. /\ ExecutionRequest(c, e, s, x).episode = e
      /\ ExecutionRequest(c, e, s, x).subTask = s
      /\ ExecutionRequest(c, e, s, x).execution = x
      /\ ExecutionRequest(c, e, s, x).robot = RobotOf[c]
  BY DEF ExecutionRequest, NoRequest
<1>3. RobotOf[c] \in Robots
  BY RequestsAssumption DEF RequestsAssumption
<1> QED BY <1>1, <1>2, <1>3 DEF OwnEpisode, EpisodeExists, tables

\* What the stepping request has read of the work is so.
LEMMA OwnWorkStillSo ==
    ASSUME CoherentInv, SerialInv, WorkInv, OneAtATime, NEW c \in Clients, ClientStep(c)
    PROVE  WorkStillSo(c)'
<1>0. /\ TypeInv
      /\ pc \in [Clients -> Steps] /\ req \in [Clients -> Request] /\ buf \in [Clients -> Buffer]
      /\ subTask \in [Episodes -> [SubTasks -> SubTaskStatus \cup {"absent"}]]
      /\ execution \in [Episodes -> [SubTasks -> [Executions -> ExecutionRow]]]
  BY DEF CoherentInv, TypeInv, TypeOK, TablesOK, ClientsOK
<1>1. CASE pc'[c] \notin WorkSteps
  BY <1>1 DEF WorkStillSo
<1>2. ASSUME NEW k, NEW a, NEW b, NEW s, s \notin WorkSteps, Begin(c, k, a, b, s)
      PROVE  pc'[c] \notin WorkSteps
  BY <1>0, <1>2 DEF Begin
<1>3. ASSUME NEW b, NEW s, s \notin WorkSteps, Read(c, b, s)
      PROVE  pc'[c] \notin WorkSteps
  BY <1>0, <1>3 DEF Read
<1>4. ASSUME Respond(c)
      PROVE  pc'[c] \notin WorkSteps
  BY <1>0, <1>4 DEF Respond, WorkSteps
<1>5. CASE EpisodeStep(c)
  <2>1. CASE Create(c) \/ RepeatLast(c)
    <3>1. "createRobot" \notin WorkSteps /\ "repeatList" \notin WorkSteps
      BY DEF WorkSteps
    <3> QED BY <1>1, <1>2, <2>1, <3>1 DEF Create, RepeatLast
  <2>6. CASE Start(c) \/ Finish(c) \/ Cancel(c)
    BY <1>1, <1>2, <2>6 DEF WorkSteps, Start, Finish, Cancel
  <2>2. CASE \/ CreateRobot(c) \/ RepeatRobot(c) \/ StartRobot(c) \/ FinishRobot(c)
             \/ CancelRobot(c) \/ FinishWrite(c) \/ FinishTarget(c) \/ FinishTask(c)
    BY <1>1, <1>3, <2>2
       DEF WorkSteps, CreateRobot, RepeatRobot, BulkCreateRobot, StartRobot, FinishRobot,
           CancelRobot, EndRobot, FinishWrite, FinishTarget, FinishTask
  <2>3. CASE RepeatList(c)
    BY <1>0, <1>1, <2>3 DEF WorkSteps, RepeatList
  <2>4. CASE \/ CreateWrite(c) \/ RepeatWrite(c) \/ StartWrite(c) \/ FinishCommit(c)
             \/ CancelWrite(c) \/ UpdateEpisodeWrite(c)
    BY <1>1, <1>4, <2>4
       DEF CreateWrite, RepeatWrite, StartWrite, FinishCommit, CancelWrite, UpdateEpisodeWrite
  <2>5. CASE UpdateEpisode(c) \/ DeleteEpisode(c)
    BY <2>5 DEF UpdateEpisode, DeleteEpisode, Begin, OneAtATime
  <2> QED BY <1>5, <2>1, <2>2, <2>3, <2>4, <2>5, <2>6 DEF EpisodeStep
<1>6. CASE RobotStep(c)
  BY <1>1, <1>2, <1>4, <1>6
     DEF WorkSteps, RobotStep, UpdateRobot, UpdateRobotWrite, DeleteRobot, DeleteRobotWrite
<1>7. CASE ExecutionStep(c)
  <2>1. CASE CreateExecution(c)
    <3>1. PICK e \in Episodes, s \in SubTasks :
            /\ OwnEpisode(c, e) /\ SubTaskCanStartProgress(subTask[e][s]) /\ UNCHANGED tables
            /\ Begin(c, "createExecution", ExecutionRequest(c, e, s, NoExecution),
                     HoldSubTask(SubTaskStartProgress(subTask[e][s])), "createExecutionWrite")
      BY <2>1 DEF CreateExecution
    <3>2. HoldSubTask(SubTaskStartProgress(subTask[e][s])).subTask = "inProgress"
      BY DEF HoldSubTask, NoBuffer, SubTaskStartProgress
    <3>3. subTask'[e][s] \in {"ready", "inProgress"}
      BY <3>1 DEF SubTaskCanStartProgress, tables
    <3>4. /\ pc'[c] = "createExecutionWrite"
          /\ buf'[c] = HoldSubTask(SubTaskStartProgress(subTask[e][s]))
          /\ req'[c].episode = e /\ req'[c].subTask = s
          /\ req'[c].robot = RobotOf[c] /\ RobotOf[c] \in Robots
          /\ EpisodeExists(e)' /\ episode'[e].robot = RobotOf[c]
      BY <1>0, <3>1, WorkBegins
    <3> QED BY <3>2, <3>3, <3>4 DEF WorkStillSo, EpisodeOf
  <2>2. ASSUME NEW e \in Episodes, NEW s \in SubTasks, NEW x \in Executions,
               NEW k, NEW row, NEW p \in {"startExecutionCount", "executionWrite"},
               OwnEpisode(c, e), UNCHANGED tables, MayBecome(execution[e][s][x].status, row.status),
               p = "executionWrite" => row.status # "started",
               Begin(c, k, ExecutionRequest(c, e, s, x), HoldExecution(row), p)
        PROVE  WorkStillSo(c)'
    <3>1. HoldExecution(row).execution = row
      BY DEF HoldExecution, NoBuffer
    <3> QED BY <1>0, <2>2, <3>1, WorkBegins DEF WorkStillSo, EpisodeOf, MayBecome, tables
  <2>3. \A row \in ExecutionRow :
          /\ ExecutionCanStart(row) => MayBecome(row.status, ExecutionStart(row).status)
          /\ ExecutionCanFinish(row) => /\ MayBecome(row.status, ExecutionFinish(row).status)
                                        /\ ExecutionFinish(row).status # "started"
          /\ ExecutionCanCancel(row) => /\ MayBecome(row.status, ExecutionCancel(row).status)
                                        /\ ExecutionCancel(row).status # "started"
    BY DEF ExecutionRow, ExecutionCanStart, ExecutionStart, ExecutionCanFinish, ExecutionFinish,
           ExecutionCanCancel, ExecutionCancel, MayBecome
  <2>4. \A e \in Episodes, s \in SubTasks, x \in Executions : execution[e][s][x] \in ExecutionRow
    BY <1>0
  <2>5. CASE StartExecution(c)
    <3>1. PICK e \in Episodes, s \in SubTasks, x \in Executions :
            /\ OwnEpisode(c, e) /\ ExecutionCanStart(execution[e][s][x]) /\ UNCHANGED tables
            /\ Begin(c, "startExecution", ExecutionRequest(c, e, s, x),
                     HoldExecution(ExecutionStart(execution[e][s][x])), "startExecutionCount")
      BY <2>5 DEF StartExecution, HoldExecutionOf
    <3> QED BY <2>2, <2>3, <2>4, <3>1
  <2>6. CASE FinishExecution(c)
    <3>1. PICK e \in Episodes, s \in SubTasks, x \in Executions :
            /\ OwnEpisode(c, e) /\ ExecutionCanFinish(execution[e][s][x]) /\ UNCHANGED tables
            /\ Begin(c, "finishExecution", ExecutionRequest(c, e, s, x),
                     HoldExecution(ExecutionFinish(execution[e][s][x])), "executionWrite")
      BY <2>6 DEF FinishExecution, HoldExecutionOf
    <3> QED BY <2>2, <2>3, <2>4, <3>1
  <2>7. CASE CancelExecution(c)
    <3>1. PICK e \in Episodes, s \in SubTasks, x \in Executions :
            /\ OwnEpisode(c, e) /\ ExecutionCanCancel(execution[e][s][x]) /\ UNCHANGED tables
            /\ Begin(c, "cancelExecution", ExecutionRequest(c, e, s, x),
                     HoldExecution(ExecutionCancel(execution[e][s][x])), "executionWrite")
      BY <2>7 DEF CancelExecution, HoldExecutionOf
    <3> QED BY <2>2, <2>3, <2>4, <3>1
  <2>8. ASSUME NEW k, NEW will \in {"completed", "skipped"}, NEW e \in Episodes, NEW s \in SubTasks,
               OwnEpisode(c, e), UNCHANGED tables, subTask[e][s] \notin {"absent", "cancelled"},
               Begin(c, k, ExecutionRequest(c, e, s, NoExecution), HoldSubTask(will), "subTaskWrite")
        PROVE  WorkStillSo(c)'
    <3>1. HoldSubTask(will).subTask = will
      BY DEF HoldSubTask, NoBuffer
    <3> QED BY <1>0, <2>8, <3>1, WorkBegins DEF WorkStillSo, EpisodeOf, tables
  <2>9. CASE CompleteSubTask(c)
    BY <2>8, <2>9 DEF CompleteSubTask, HoldSubTaskOf, SubTaskCanComplete, SubTaskComplete
  <2>10. CASE SkipSubTask(c)
    BY <2>8, <2>10 DEF SkipSubTask, HoldSubTaskOf, SubTaskCanSkip, SubTaskSkip
  <2>11. CASE StartExecutionCount(c)
    <3>1. /\ pc[c] = "startExecutionCount" /\ StartedExecutions(req[c].episode, req[c].subTask) = {}
          /\ pc'[c] = "executionWrite" /\ buf'[c] = buf[c] /\ req' = req
          /\ UNCHANGED tables
      BY <1>0, <2>11 DEF StartExecutionCount, Read
    <3>2. WorkStillSo(c)
      BY DEF WorkInv
    <3> QED BY <3>1, <3>2
            DEF WorkStillSo, WorkSteps, StartedExecutions, EpisodeOf, EpisodeExists, tables
  <2>12. CASE CreateExecutionWrite(c) \/ ExecutionWrite(c) \/ SubTaskWrite(c)
    BY <1>1, <1>4, <2>12 DEF CreateExecutionWrite, ExecutionWrite, SubTaskWrite
  <2> QED BY <1>7, <2>1, <2>5, <2>6, <2>7, <2>9, <2>10, <2>11, <2>12 DEF ExecutionStep
<1>8. CASE TaskStep(c)
  <2>1. CASE UpdateTask(c) \/ Approve(c)
    BY <1>1, <1>2, <2>1 DEF WorkSteps, UpdateTask, Approve
  <2>2. CASE \/ UpdateTaskRead(c) \/ UpdateTaskSum(c) \/ UpdateTaskTarget(c)
             \/ ApproveWrite(c) \/ ApproveTarget(c) \/ ApproveTask(c)
    BY <1>1, <1>3, <2>2
       DEF WorkSteps, UpdateTaskRead, UpdateTaskSum, UpdateTaskTarget, ApproveWrite,
           ApproveTarget, ApproveTask
  <2>3. CASE UpdateTaskWrite(c) \/ ApproveCommit(c)
    BY <1>1, <1>4, <2>3 DEF UpdateTaskWrite, ApproveCommit
  <2> QED BY <1>8, <2>1, <2>2, <2>3 DEF TaskStep
<1>9. CASE RollBack(c)
  BY <1>1, <1>4, <1>9 DEF RollBack
<1> QED BY <1>5, <1>6, <1>7, <1>8, <1>9 DEF ClientStep

\* The invariant, of every behaviour of Teleop.
LEMMA WorkInvariant == OneAtATime => (Spec => []WorkInv)
<1> SUFFICES ASSUME OneAtATime PROVE Spec => []WorkInv
  OBVIOUS
<1>1. Init => WorkInv
  <2> SUFFICES ASSUME Init PROVE WorkInv
    OBVIOUS
  <2>1. \A c \in Clients : WorkStillSo(c)
    BY DEF Init, RequestsInit, WorkStillSo, WorkSteps
  <2>2. CancelledThroughout /\ NoWorkYet
    BY DEF Init, RequestsInit, CancelledThroughout, NoEpisodeRow, NoWorkYet
  <2>3. OneStartedExecution /\ ExecutionOfBegunSubTask
    BY DEF Init, RequestsInit, OneStartedExecution, StartedExecutions, ExecutionOfBegunSubTask,
           NoExecutionRow
  <2> QED BY <2>1, <2>2, <2>3 DEF WorkInv
<1>2. CoherentInv /\ SerialInv /\ WorkInv /\ [Next]_vars => WorkInv'
  <2> SUFFICES ASSUME CoherentInv, SerialInv, WorkInv, [Next]_vars PROVE WorkInv'
    OBVIOUS
  <2>1. ASSUME NEW c \in Clients, ClientStep(c)
        PROVE  WorkInv'
    <3>1. CancelledThroughout' /\ OneStartedExecution' /\ ExecutionOfBegunSubTask' /\ NoWorkYet'
      BY <2>1, WorkTables
    <3>2. WorkStillSo(c)'
      BY <2>1, OwnWorkStillSo
    <3>3. \A d \in Clients \ {c} : WorkStillSo(d)'
      BY <2>1, OthersWorkStillSo
    <3> QED BY <3>1, <3>2, <3>3 DEF WorkInv
  <2>2. ASSUME UNCHANGED <<tables, clients>>
        PROVE  WorkInv'
    BY <2>2
       DEF WorkInv, CancelledThroughout, OneStartedExecution, StartedExecutions,
           ExecutionOfBegunSubTask, NoWorkYet, WorkStillSo, EpisodeOf, EpisodeExists,
           tables, clients
  <2>3. ASSUME NEW r \in Robots, Heartbeat(r) \/ HeartbeatExpires(r)
        PROVE  UNCHANGED <<tables, clients>>
    BY <2>3 DEF Heartbeat, HeartbeatExpires
  <2> QED BY <2>1, <2>2, <2>3 DEF Next, ClientStep, vars, tables, clients
<1>3. CoherentInv /\ SerialInv /\ [Next]_vars => SerialInv'
  BY SerialStep
<1> QED BY <1>1, <1>2, <1>3, SerialInvInit, CoherentInvariant, PTL DEF Spec

\* With requests about a robot served one at a time and no edits of episodes by
\* hand, no work of a cancelled episode is under way or begun (usecase/episode.go
\* Cancel).
THEOREM CancelledIsOverAlways == OneAtATime => (Spec => []CancelledIsOver)
<1>1. WorkInv => CancelledIsOver
  BY DEF WorkInv, CancelledThroughout, CancelledIsOver
<1> QED BY <1>1, WorkInvariant, PTL

\* Under the same assumption no two executions of a subtask run at once, though
\* Start counts them in one statement and writes in another (usecase/
\* episode_execution.go Start).
THEOREM OneStartedExecutionAlways == OneAtATime => (Spec => []OneStartedExecution)
<1>1. WorkInv => OneStartedExecution
  BY DEF WorkInv
<1> QED BY <1>1, WorkInvariant, PTL

\* Under the same assumption an execution exists only of a subtask that was
\* begun (usecase/episode_execution.go Create).
THEOREM ExecutionsOfBegunSubTasks == OneAtATime => (Spec => []ExecutionOfBegunSubTask)
<1>1. WorkInv => ExecutionOfBegunSubTask
  BY DEF WorkInv
<1> QED BY <1>1, WorkInvariant, PTL

-----------------------------------------------------------------------------
(***************************************************************************)
(* The status of tasks. What Finish, Approve and Update of a task make of  *)
(* its collection is still so when they write, if the requests that count  *)
(* for tasks come from one client; any number of others create, start,     *)
(* cancel and repeat episodes meanwhile.                                   *)
(***************************************************************************)

Counted == {"finish", "updateTask", "approve", "updateEpisode", "deleteEpisode"}

Counts(c) == Issues[c] \cap Counted # {}

CountedByOne == /\ Overlap = FALSE
                /\ \A c, d \in Clients : Counts(c) /\ Counts(d) => c = d

\* The inductive invariant: what a client holds of an episode, and what it has
\* read of the progress of its task.

CancelSteps     == {"cancelRobot", "cancelWrite"}
WrittenSteps    == {"finishTarget", "finishTask", "finishCommit"}
UpdateTaskSteps == {"updateTaskRead", "updateTaskSum", "updateTaskTarget", "updateTaskWrite"}
CountedSteps    == FinishSteps \cup ApproveSteps \cup UpdateTaskSteps \cup {"updateEpisodeWrite"}

Issued(c) == pc[c] \in CountedSteps => Counts(c)

EpisodeHeld(c) ==
    /\ pc[c] \in SessionSteps => EpisodeOf(req[c].episode, req[c].robot)
    /\ pc[c] \in StartSteps =>
          episode[req[c].episode].status = "ready" /\ buf[c].episode.status = "recording"
    /\ pc[c] \in CancelSteps =>
          episode[req[c].episode].status = "recording" /\ buf[c].episode.status = "cancel"

\* The episodes as the transaction of a Finish sees them.
Written(c) == [episode EXCEPT ![req[c].episode] = buf[c].episode]

ProgressHeld(c) ==
    /\ pc[c] \in WrittenSteps => buf[c].actual = SumDuration(Written(c), req[c].task)
    /\ pc[c] \in {"finishTask", "finishCommit"} => buf[c].target = SumTarget(approved[req[c].task])
    /\ pc[c] \in {"approveTarget", "approveTask", "approveCommit", "updateTaskTarget"} =>
          buf[c].actual = SumDuration(episode, req[c].task)
    /\ pc[c] \in {"approveTask", "approveCommit"} =>
          buf[c].target = SumTarget(approved[req[c].task] \cup {req[c].version})
    /\ pc[c] \in {"finishCommit", "approveCommit"} => buf[c].task = task[req[c].task]
    /\ pc[c] = "updateTaskWrite" /\ task[req[c].task] = "canceled" =>
          buf[c].task \in {"canceled", Progress(req[c].task)}

TaskInv ==
    /\ TypeInv
    /\ OneRequest
    /\ \A c \in Clients : Issued(c) /\ EpisodeHeld(c) /\ ProgressHeld(c)

-----------------------------------------------------------------------------
(* What a step writes *)

EpisodeWrite(c) ==
    /\ pc[c] \in {"startWrite", "finishCommit", "cancelWrite", "updateEpisodeWrite"}
    /\ episode' = [episode EXCEPT ![req[c].episode] = buf[c].episode]

\* What a step does to the episodes.
LEMMA EpisodeWrites ==
    ASSUME TypeInv, NEW c \in Clients, ClientStep(c)
    PROVE  \/ episode' = episode
           \/ \E S \in SUBSET Absent, r \in Robots, t \in Tasks : InsertEpisodes(S, r, t)
           \/ EpisodeWrite(c)
           \/ DeleteEpisode(c)
<1> USE RowTypes
<1>1. CASE CreateWrite(c) \/ RepeatWrite(c)
  <2>1. req[c].robot \in Robots /\ req[c].task \in Tasks
    BY <1>1 DEF CreateWrite, RepeatWrite, ClientNamed, RobotSteps, TaskSteps, CreateSteps
  <2> QED BY <1>1, <2>1 DEF CreateWrite, RepeatWrite, NextEpisodes
<1>2. CASE StartWrite(c) \/ FinishCommit(c) \/ CancelWrite(c) \/ UpdateEpisodeWrite(c)
  BY <1>2 DEF StartWrite, FinishCommit, CancelWrite, UpdateEpisodeWrite, WriteEpisodeAndRobot,
              EpisodeWrite
<1>3. CASE UpdateRobotWrite(c) \/ DeleteRobotWrite(c)
  BY <1>3 DEF UpdateRobotWrite, DeleteRobotWrite
<1>4. CASE \/ Start(c) \/ Finish(c) \/ Cancel(c)
           \/ UpdateEpisode(c) \/ UpdateRobot(c) \/ DeleteRobot(c)
  BY <1>4 DEF Start, Finish, Cancel, UpdateEpisode, UpdateRobot, DeleteRobot, tables
<1>5. CASE \/ StartRobot(c) \/ FinishRobot(c) \/ CancelRobot(c)
           \/ FinishWrite(c) \/ FinishTarget(c) \/ FinishTask(c)
  BY <1>5
     DEF StartRobot, FinishRobot, CancelRobot, EndRobot, FinishWrite, FinishTarget,
         FinishTask, Read, tables
<1>6. CASE QuietStep(c)
  BY <1>6, QuietSteps
<1> QED BY <1>1, <1>2, <1>3, <1>4, <1>5, <1>6
        DEF ClientStep, EpisodeStep, RobotStep, QuietStep

\* The status of a task and its versions are written by three statements only.
TaskWrite(c) == FinishCommit(c) \/ ApproveCommit(c) \/ UpdateTaskWrite(c)

\* What it leaves of the tasks, if it is none of those that write them.
LEMMA TaskWrites ==
    ASSUME NEW c \in Clients, ClientStep(c), ~TaskWrite(c)
    PROVE  task' = task /\ approved' = approved
<1>1. ASSUME NEW b, NEW s, Read(c, b, s) PROVE task' = task /\ approved' = approved
  BY <1>1 DEF Read, tables
<1>2. CASE EpisodeStep(c)
  <2>1. CASE Create(c) \/ RepeatLast(c) \/ Start(c) \/ Finish(c) \/ Cancel(c) \/ UpdateEpisode(c)
    BY <2>1 DEF Create, RepeatLast, Start, Finish, Cancel, UpdateEpisode, tables
  <2>2. CASE \/ CreateRobot(c) \/ RepeatRobot(c) \/ StartRobot(c) \/ FinishRobot(c)
             \/ CancelRobot(c) \/ FinishWrite(c) \/ FinishTarget(c) \/ FinishTask(c)
    BY <1>1, <2>2, Zenon
       DEF CreateRobot, RepeatRobot, BulkCreateRobot, StartRobot, FinishRobot, CancelRobot,
           EndRobot, FinishWrite, FinishTarget, FinishTask
  <2>3. CASE RepeatList(c) \/ DeleteEpisode(c)
    BY <2>3 DEF RepeatList, DeleteEpisode, tables
  <2>4. CASE CreateWrite(c) \/ RepeatWrite(c)
    BY <2>4 DEF CreateWrite, RepeatWrite, InsertEpisodes
  <2>5. CASE StartWrite(c) \/ CancelWrite(c) \/ UpdateEpisodeWrite(c)
    BY <2>5 DEF StartWrite, CancelWrite, UpdateEpisodeWrite
  <2> QED BY <1>2, <2>1, <2>2, <2>3, <2>4, <2>5 DEF EpisodeStep, TaskWrite
<1>3. CASE RobotStep(c)
  BY <1>3 DEF RobotStep, UpdateRobot, UpdateRobotWrite, DeleteRobot, DeleteRobotWrite, tables
<1>4. CASE ExecutionStep(c)
  BY <1>4
     DEF ExecutionStep, CreateExecution, CreateExecutionWrite, StartExecution,
         StartExecutionCount, FinishExecution, CancelExecution, HoldExecutionOf,
         ExecutionWrite, CompleteSubTask, SkipSubTask, HoldSubTaskOf, SubTaskWrite, Read, tables
<1>5. CASE TaskStep(c)
  BY <1>5
     DEF TaskStep, UpdateTask, UpdateTaskRead, UpdateTaskSum, UpdateTaskTarget,
         Approve, ApproveWrite, ApproveTarget, ApproveTask, TaskWrite, Read, tables
<1>6. CASE RollBack(c)
  BY <1>6 DEF RollBack, tables
<1> QED BY <1>2, <1>3, <1>4, <1>5, <1>6 DEF ClientStep

\* A sum of durations depends on the completed episodes only.
LEMMA SameSum ==
    ASSUME NEW eps, NEW others, NEW t,
           \A e \in Episodes : \/ others[e] = eps[e]
                               \/ eps[e].status # "completed" /\ others[e].status # "completed"
    PROVE  SumDuration(others, t) = SumDuration(eps, t)
<1>1. {e \in Episodes : /\ others[e].task = t /\ others[e].status = "completed"
                        /\ others[e].started /\ others[e].finished}
      = {e \in Episodes : /\ eps[e].task = t /\ eps[e].status = "completed"
                          /\ eps[e].started /\ eps[e].finished}
  OBVIOUS
<1> QED BY <1>1 DEF SumDuration

\* The episode of a client is not written by another.
LEMMA EpisodeApart ==
    ASSUME TaskInv, Overlap = FALSE, NEW c \in Clients, ClientStep(c), NEW d \in Clients \ {c},
           pc[d] \in SessionSteps
    PROVE  req[d].episode \in Episodes /\ episode'[req[d].episode] = episode[req[d].episode]
<1> USE RowTypes DEF TaskInv
<1> DEFINE e == req[d].episode
           r == req[d].robot
<1>0. episode \in [Episodes -> EpisodeRow]
  BY DEF TypeInv, TypeOK, TablesOK
<1>1. /\ e \in Episodes /\ r \in Robots /\ r # None /\ episode[e].robot = r
  BY DomainAssumption DEF ClientNamed, RobotSteps, EpisodeHeld, EpisodeOf
<1>2. r # req[c].robot
  BY <1>1 DEF OneRequest
<1>3. CASE EpisodeWrite(c)
  <2>1. pc[c] \in SessionSteps
    BY <1>3 DEF EpisodeWrite, SessionSteps
  <2>2. req[c].episode # e
    BY <1>1, <1>2, <2>1 DEF EpisodeHeld, EpisodeOf
  <2> QED BY <1>0, <1>1, <1>3, <2>2 DEF EpisodeWrite
<1>4. ASSUME NEW S \in SUBSET Absent, NEW s \in Robots, NEW t \in Tasks, InsertEpisodes(S, s, t)
      PROVE  episode'[e] = episode[e]
  <2>1. e \notin S
    <3>1. episode[e].status # "absent"
      BY DEF EpisodeHeld, EpisodeOf, EpisodeExists, EpisodeStatus
    <3> QED BY <3>1 DEF Absent
  <2> QED BY <1>1, <1>4, <2>1 DEF InsertEpisodes
<1>5. CASE DeleteEpisode(c)
  <2>1. PICK f \in Episodes : /\ req[d].robot # episode[f].robot
                              /\ episode' = [episode EXCEPT ![f] = [NoEpisodeRow EXCEPT !.status = "deleted"]]
    BY <1>5 DEF DeleteEpisode
  <2> QED BY <1>0, <1>1, <2>1
<1> QED BY <1>1, <1>3, <1>4, <1>5, EpisodeWrites

\* A client that does not count changes neither a task, nor its versions, nor
\* an episode that is completed.
LEMMA Uncounted ==
    ASSUME TaskInv, NEW c \in Clients, ClientStep(c), ~Counts(c)
    PROVE  /\ task' = task /\ approved' = approved
           /\ \A e \in Episodes : \/ episode'[e] = episode[e]
                                  \/ episode[e].status # "completed" /\ episode'[e].status # "completed"
<1> USE RowTypes DEF TaskInv
<1>0. episode \in [Episodes -> EpisodeRow]
  BY DEF TypeInv, TypeOK, TablesOK
<1>1. pc[c] \notin CountedSteps
  BY DEF Issued
<1>2. ~TaskWrite(c)
  BY <1>1 DEF TaskWrite, FinishCommit, ApproveCommit, UpdateTaskWrite, CountedSteps, FinishSteps,
              ApproveSteps, UpdateTaskSteps
<1>3. CASE EpisodeWrite(c)
  <2>1. pc[c] \in {"startWrite", "cancelWrite"}
    BY <1>1, <1>3 DEF EpisodeWrite, CountedSteps, FinishSteps
  <2>2. /\ episode[req[c].episode].status # "completed" /\ buf[c].episode.status # "completed"
    BY <2>1 DEF EpisodeHeld, StartSteps, CancelSteps
  <2> QED BY <1>0, <1>2, <1>3, <2>2, TaskWrites DEF EpisodeWrite
<1>4. ASSUME NEW S \in SUBSET Absent, NEW s \in Robots, NEW t \in Tasks, InsertEpisodes(S, s, t)
      PROVE  \A e \in Episodes : \/ episode'[e] = episode[e]
                                 \/ episode[e].status # "completed" /\ episode'[e].status # "completed"
  <2>1. InitEpisode(s, t).status = "ready" /\ \A e \in S : episode[e].status = "absent"
    BY DEF InitEpisode, Absent
  <2> QED BY <1>4, <2>1 DEF InsertEpisodes
<1>5. ~DeleteEpisode(c)
  BY DEF DeleteEpisode, Counts, Counted
<1> QED BY <1>2, <1>3, <1>4, <1>5, EpisodeWrites, TaskWrites

-----------------------------------------------------------------------------
(* The invariant is kept                                                   *)

\* What a step of one client leaves of what another holds.
LEMMA OthersHold ==
    ASSUME TaskInv, CountedByOne, NEW c \in Clients, ClientStep(c), NEW d \in Clients \ {c}
    PROVE  Issued(d)' /\ EpisodeHeld(d)' /\ ProgressHeld(d)'
<1>0. /\ pc'[d] = pc[d] /\ req'[d] = req[d] /\ buf'[d] = buf[d]
      /\ Issued(d) /\ EpisodeHeld(d) /\ ProgressHeld(d)
  BY OtherClients DEF TaskInv
<1>1. Issued(d)'
  BY <1>0 DEF Issued, Counts
<1>2. pc[d] \in SessionSteps => episode'[req[d].episode] = episode[req[d].episode]
  BY EpisodeApart DEF CountedByOne
<1>3. EpisodeHeld(d)'
  BY <1>0, <1>2 DEF EpisodeHeld, EpisodeOf, EpisodeExists, StartSteps, CancelSteps, SessionSteps
<1>4. CASE pc[d] \notin CountedSteps
  BY <1>0, <1>1, <1>3, <1>4
     DEF ProgressHeld, CountedSteps, WrittenSteps, FinishSteps, ApproveSteps, UpdateTaskSteps
<1>5. CASE pc[d] \in CountedSteps
  <2>1. ~Counts(c)
    BY <1>0, <1>5 DEF Issued, CountedByOne
  <2>2. /\ task' = task /\ approved' = approved
        /\ \A e \in Episodes : \/ episode'[e] = episode[e]
                               \/ episode[e].status # "completed" /\ episode'[e].status # "completed"
    BY <2>1, Uncounted
  <2>3. \A t : SumDuration(episode', t) = SumDuration(episode, t)
    BY <2>2, SameSum
  <2>4. \A t : SumDuration(Written(d)', t) = SumDuration(Written(d), t)
    <3>1. /\ Written(d)' = [episode' EXCEPT ![req[d].episode] = buf[d].episode]
          /\ Written(d) = [episode EXCEPT ![req[d].episode] = buf[d].episode]
      BY <1>0 DEF Written
    <3>2. episode \in [Episodes -> EpisodeRow] /\ episode' \in [Episodes -> EpisodeRow]
      BY TypeInvNext DEF TaskInv, TypeInv, TypeOK, TablesOK, Next, ClientStep
    <3>3. \A e \in Episodes :
             \/ Written(d)'[e] = Written(d)[e]
             \/ Written(d)[e].status # "completed" /\ Written(d)'[e].status # "completed"
      BY <2>2, <3>1, <3>2
    <3> HIDE DEF Written
    <3> QED BY <3>3, SameSum
  <2>5. \A t : Progress(t)' = Progress(t)
    BY <2>2, <2>3 DEF Progress
  <2>6. ProgressHeld(d)'
    BY <1>0, <2>2, <2>3, <2>4, <2>5 DEF ProgressHeld
  <2> QED BY <1>1, <1>3, <2>6
<1> QED BY <1>4, <1>5

\* A client counts from the request on that makes it count.
LEMMA OwnIssued ==
    ASSUME TaskInv, NEW c \in Clients, ClientStep(c)
    PROVE  Issued(c)'
<1> USE DEF CountedSteps, FinishSteps, ApproveSteps, UpdateTaskSteps
<1>0. pc \in [Clients -> Steps] /\ Issued(c)
  BY DEF TaskInv, TypeInv, TypeOK, ClientsOK
<1>1. ASSUME NEW k, NEW a, NEW b, NEW s, Begin(c, k, a, b, s), s \in CountedSteps => k \in Counted
      PROVE  Issued(c)'
  BY <1>0, <1>1 DEF Begin, Issued, Counts
<1>2. ASSUME NEW b, NEW s, Read(c, b, s), s \in CountedSteps => pc[c] \in CountedSteps
      PROVE  Issued(c)'
  BY <1>0, <1>2 DEF Read, Issued, Counts
<1>3. ASSUME Respond(c) PROVE Issued(c)'
  BY <1>0, <1>3 DEF Respond, Issued
<1>4. CASE EpisodeStep(c)
  <2>1. CASE Create(c) \/ RepeatLast(c) \/ Start(c) \/ Cancel(c)
    BY <1>1, <2>1 DEF Create, RepeatLast, Start, Cancel
  <2>2. CASE Finish(c) \/ UpdateEpisode(c)
    BY <1>1, <2>2 DEF Finish, UpdateEpisode, Counted
  <2>3. CASE \/ CreateRobot(c) \/ RepeatRobot(c) \/ StartRobot(c) \/ FinishRobot(c)
             \/ CancelRobot(c) \/ FinishWrite(c) \/ FinishTarget(c) \/ FinishTask(c)
    BY <1>2, <2>3
       DEF CreateRobot, RepeatRobot, BulkCreateRobot, StartRobot, FinishRobot, CancelRobot,
           EndRobot, FinishWrite, FinishTarget, FinishTask
  <2>4. CASE RepeatList(c)
    BY <1>0, <2>4 DEF RepeatList, Issued
  <2>5. CASE \/ CreateWrite(c) \/ RepeatWrite(c) \/ StartWrite(c) \/ FinishCommit(c)
             \/ CancelWrite(c) \/ UpdateEpisodeWrite(c)
    BY <1>3, <2>5
       DEF CreateWrite, RepeatWrite, StartWrite, FinishCommit, CancelWrite, UpdateEpisodeWrite
  <2>6. CASE DeleteEpisode(c)
    BY <1>0, <2>6 DEF DeleteEpisode, clients, Issued, Counts
  <2> QED BY <1>4, <2>1, <2>2, <2>3, <2>4, <2>5, <2>6 DEF EpisodeStep
<1>5. CASE RobotStep(c)
  BY <1>1, <1>3, <1>5
     DEF RobotStep, UpdateRobot, UpdateRobotWrite, DeleteRobot, DeleteRobotWrite
<1>6. CASE ExecutionStep(c)
  <2>1. CASE \/ CreateExecution(c) \/ StartExecution(c) \/ FinishExecution(c)
             \/ CancelExecution(c) \/ CompleteSubTask(c) \/ SkipSubTask(c)
    BY <1>1, <2>1
       DEF CreateExecution, StartExecution, FinishExecution, CancelExecution,
           HoldExecutionOf, CompleteSubTask, SkipSubTask, HoldSubTaskOf
  <2>2. CASE StartExecutionCount(c)
    BY <1>2, <2>2 DEF StartExecutionCount
  <2>3. CASE CreateExecutionWrite(c) \/ ExecutionWrite(c) \/ SubTaskWrite(c)
    BY <1>3, <2>3 DEF CreateExecutionWrite, ExecutionWrite, SubTaskWrite
  <2> QED BY <1>6, <2>1, <2>2, <2>3 DEF ExecutionStep
<1>7. CASE TaskStep(c)
  <2>1. CASE UpdateTask(c) \/ Approve(c)
    BY <1>1, <2>1 DEF UpdateTask, Approve, Counted
  <2>2. CASE \/ UpdateTaskRead(c) \/ UpdateTaskSum(c) \/ UpdateTaskTarget(c)
             \/ ApproveWrite(c) \/ ApproveTarget(c) \/ ApproveTask(c)
    BY <1>2, <2>2
       DEF UpdateTaskRead, UpdateTaskSum, UpdateTaskTarget, ApproveWrite, ApproveTarget, ApproveTask
  <2>3. CASE UpdateTaskWrite(c) \/ ApproveCommit(c)
    BY <1>3, <2>3 DEF UpdateTaskWrite, ApproveCommit
  <2> QED BY <1>7, <2>1, <2>2, <2>3 DEF TaskStep
<1>8. CASE RollBack(c)
  BY <1>3, <1>8 DEF RollBack
<1> QED BY <1>4, <1>5, <1>6, <1>7, <1>8 DEF ClientStep

\* Steps after which nothing is held.
HoldSteps == SessionSteps \cup CountedSteps

\* A client at no such step holds nothing.
LEMMA NothingHeld ==
    ASSUME NEW c, pc'[c] \notin HoldSteps
    PROVE  EpisodeHeld(c)' /\ ProgressHeld(c)'
BY DEF HoldSteps, EpisodeHeld, ProgressHeld, SessionSteps, StartSteps, CancelSteps, WrittenSteps,
       CountedSteps, FinishSteps, ApproveSteps, UpdateTaskSteps

\* Steps that do not lead to one of those.
LEMMA OwnNothing ==
    ASSUME TaskInv, NEW c \in Clients,
           \/ Create(c) \/ CreateRobot(c) \/ CreateWrite(c)
           \/ RepeatLast(c) \/ RepeatList(c) \/ RepeatRobot(c) \/ RepeatWrite(c)
           \/ StartWrite(c) \/ FinishCommit(c) \/ CancelWrite(c) \/ UpdateEpisodeWrite(c)
           \/ DeleteEpisode(c) \/ RobotStep(c) \/ ExecutionStep(c) \/ UpdateTaskWrite(c)
           \/ ApproveCommit(c) \/ RollBack(c)
    PROVE  pc'[c] \notin HoldSteps
<1> USE DEF HoldSteps, SessionSteps, CountedSteps, FinishSteps, ApproveSteps, UpdateTaskSteps
<1>0. pc \in [Clients -> Steps]
  BY DEF TaskInv, TypeInv, TypeOK, ClientsOK
<1>1. ASSUME NEW k, NEW a, NEW b, NEW s, Begin(c, k, a, b, s), s \notin HoldSteps
      PROVE  pc'[c] \notin HoldSteps
  BY <1>0, <1>1 DEF Begin
<1>2. ASSUME NEW b, NEW s, Read(c, b, s), s \notin HoldSteps PROVE pc'[c] \notin HoldSteps
  BY <1>0, <1>2 DEF Read
<1>3. ASSUME Respond(c) PROVE pc'[c] \notin HoldSteps
  BY <1>0, <1>3 DEF Respond
<1>4. CASE Create(c) \/ RepeatLast(c)
  BY <1>1, <1>4 DEF Create, RepeatLast
<1>5. CASE CreateRobot(c) \/ RepeatRobot(c)
  BY <1>2, <1>5 DEF CreateRobot, RepeatRobot, BulkCreateRobot
<1>6. CASE RepeatList(c)
  BY <1>0, <1>6 DEF RepeatList
<1>7. CASE \/ CreateWrite(c) \/ RepeatWrite(c) \/ StartWrite(c) \/ FinishCommit(c)
           \/ CancelWrite(c) \/ UpdateEpisodeWrite(c) \/ UpdateTaskWrite(c) \/ ApproveCommit(c)
           \/ RollBack(c)
  BY <1>3, <1>7
     DEF CreateWrite, RepeatWrite, StartWrite, FinishCommit, CancelWrite, UpdateEpisodeWrite,
         UpdateTaskWrite, ApproveCommit, RollBack
<1>8. CASE RobotStep(c)
  BY <1>1, <1>3, <1>8
     DEF RobotStep, UpdateRobot, UpdateRobotWrite, DeleteRobot, DeleteRobotWrite
<1>9. CASE ExecutionStep(c)
  <2>1. CASE \/ CreateExecution(c) \/ StartExecution(c) \/ FinishExecution(c)
             \/ CancelExecution(c) \/ CompleteSubTask(c) \/ SkipSubTask(c)
    BY <1>1, <2>1
       DEF CreateExecution, StartExecution, FinishExecution, CancelExecution,
           HoldExecutionOf, CompleteSubTask, SkipSubTask, HoldSubTaskOf
  <2>2. CASE StartExecutionCount(c)
    BY <1>2, <2>2 DEF StartExecutionCount
  <2>3. CASE CreateExecutionWrite(c) \/ ExecutionWrite(c) \/ SubTaskWrite(c)
    BY <1>3, <2>3 DEF CreateExecutionWrite, ExecutionWrite, SubTaskWrite
  <2> QED BY <1>9, <2>1, <2>2, <2>3 DEF ExecutionStep
<1>10. CASE DeleteEpisode(c)
  BY <1>10 DEF DeleteEpisode, clients
<1> QED BY <1>4, <1>5, <1>6, <1>7, <1>8, <1>9, <1>10

\* A request about an episode begins with what the episode's row shows.
LEMMA OwnBegins ==
    ASSUME TaskInv, NEW c \in Clients, Start(c) \/ Finish(c) \/ Cancel(c) \/ UpdateEpisode(c)
    PROVE  EpisodeHeld(c)' /\ ProgressHeld(c)'
<1>0. /\ pc \in [Clients -> Steps] /\ req \in [Clients -> Request] /\ buf \in [Clients -> Buffer]
      /\ episode \in [Episodes -> EpisodeRow]
  BY DEF TaskInv, TypeInv, TypeOK, ClientsOK, TablesOK
<1>1. ASSUME NEW e \in Episodes, NEW k, NEW row, NEW s \in {"startRobot", "finishRobot", "cancelRobot", "updateEpisodeWrite"},
             EpisodeExists(e), Begin(c, k, EpisodeRequest(c, e), HoldEpisode(row), s), episode' = episode,
             s = "startRobot" => episode[e].status = "ready" /\ row.status = "recording",
             s = "cancelRobot" => episode[e].status = "recording" /\ row.status = "cancel"
      PROVE  EpisodeHeld(c)' /\ ProgressHeld(c)'
  <2>1. pc'[c] = s /\ req'[c] = EpisodeRequest(c, e) /\ buf'[c] = HoldEpisode(row)
    BY <1>0, <1>1 DEF Begin
  <2>2. /\ req'[c].episode = e /\ req'[c].robot = episode[e].robot /\ buf'[c].episode = row
    BY <2>1 DEF EpisodeRequest, NoRequest, HoldEpisode, NoBuffer
  <2>3. EpisodeHeld(c)'
    BY <1>1, <2>1, <2>2
       DEF EpisodeHeld, EpisodeOf, EpisodeExists, SessionSteps, StartSteps, CancelSteps
  <2>4. ProgressHeld(c)'
    BY <1>1, <2>1 DEF ProgressHeld, WrittenSteps
  <2> QED BY <2>3, <2>4
<1>2. CASE Start(c)
  <2>1. PICK e \in Episodes : /\ OwnEpisode(c, e) /\ EpisodeCanStart(episode[e])
                              /\ Begin(c, "start", EpisodeRequest(c, e), HoldEpisode(EpisodeStart(episode[e])), "startRobot")
                              /\ episode' = episode
    BY <1>2 DEF Start, tables
  <2>2. episode[e].status = "ready" /\ EpisodeStart(episode[e]).status = "recording" /\ EpisodeExists(e)
    BY <1>0, <2>1 DEF OwnEpisode, EpisodeCanStart, EpisodeStart, EpisodeRow
  <2> QED BY <1>1, <2>1, <2>2
<1>3. CASE Finish(c)
  <2>1. PICK e \in Episodes : /\ OwnEpisode(c, e)
                              /\ Begin(c, "finish", EpisodeRequest(c, e), HoldEpisode(EpisodeFinish(episode[e])), "finishRobot")
                              /\ episode' = episode
    BY <1>3 DEF Finish, tables
  <2> QED BY <1>1, <2>1 DEF OwnEpisode
<1>4. CASE Cancel(c)
  <2>1. PICK e \in Episodes : /\ OwnEpisode(c, e) /\ EpisodeCanCancel(episode[e])
                              /\ Begin(c, "cancel", EpisodeRequest(c, e), HoldEpisode(EpisodeCancel(episode[e])), "cancelRobot")
                              /\ episode' = episode
    BY <1>4 DEF Cancel, tables
  <2>2. episode[e].status = "recording" /\ EpisodeCancel(episode[e]).status = "cancel" /\ EpisodeExists(e)
    BY <1>0, <2>1 DEF OwnEpisode, EpisodeCanCancel, EpisodeCancel, EpisodeRow
  <2> QED BY <1>1, <2>1, <2>2
<1>5. CASE UpdateEpisode(c)
  <2> DEFINE Row(e, s, started, finished) ==
               [episode[e] EXCEPT !.status = s, !.started = @ \/ started, !.finished = @ \/ finished]
  <2>1. \E e \in Episodes, s \in EpisodeStatus, started, finished \in BOOLEAN :
               /\ EpisodeExists(e)
               /\ Begin(c, "updateEpisode", EpisodeRequest(c, e), HoldEpisode(Row(e, s, started, finished)),
                        "updateEpisodeWrite")
    BY <1>5 DEF UpdateEpisode
  <2>2. episode' = episode
    BY <1>5 DEF UpdateEpisode, tables
  <2> HIDE DEF Row
  <2> QED BY <1>1, <2>1, <2>2
<1> QED BY <1>2, <1>3, <1>4, <1>5

\* The statements between the first of Start, Finish and Cancel and the last.
LEMMA OwnSession ==
    ASSUME TaskInv, NEW c \in Clients,
           \/ StartRobot(c) \/ FinishRobot(c) \/ CancelRobot(c)
           \/ FinishWrite(c) \/ FinishTarget(c) \/ FinishTask(c)
    PROVE  EpisodeHeld(c)' /\ ProgressHeld(c)'
<1>0. /\ pc \in [Clients -> Steps] /\ req \in [Clients -> Request] /\ buf \in [Clients -> Buffer]
      /\ EpisodeHeld(c) /\ ProgressHeld(c) /\ buf[c] \in Buffer
  BY DEF TaskInv, TypeInv, TypeOK, ClientsOK
<1>1. ASSUME NEW b, NEW s, Read(c, b, s)
      PROVE  /\ pc'[c] = s /\ req' = req /\ buf'[c] = b
             /\ episode' = episode /\ task' = task /\ approved' = approved
  BY <1>0, <1>1 DEF Read, tables
<1>2. ASSUME NEW b, NEW s, Read(c, b, s), b.episode = buf[c].episode, pc[c] \in SessionSteps,
             s \in StartSteps => pc[c] \in StartSteps, s \in CancelSteps => pc[c] \in CancelSteps
      PROVE  EpisodeHeld(c)'
  BY <1>0, <1>1, <1>2 DEF EpisodeHeld, EpisodeOf, EpisodeExists
<1> USE DEF SessionSteps, StartSteps, CancelSteps
<1>3. CASE StartRobot(c)
  <2>1. PICK rob : pc[c] = "startRobot" /\ Read(c, [buf[c] EXCEPT !.robot = rob], "startWrite")
    BY <1>3 DEF StartRobot
  <2>2. [buf[c] EXCEPT !.robot = rob].episode = buf[c].episode
    BY <1>0 DEF Buffer
  <2>3. EpisodeHeld(c)'
    BY <1>2, <2>1, <2>2
  <2> QED BY <1>1, <2>1, <2>3 DEF ProgressHeld, WrittenSteps
<1>4. CASE FinishRobot(c) \/ CancelRobot(c)
  <2> DEFINE rob == EndTeleoperation(robot[req[c].robot])
  <2>1. PICK s \in {"finishWrite", "cancelWrite"} :
               /\ pc[c] = IF s = "finishWrite" THEN "finishRobot" ELSE "cancelRobot"
               /\ Read(c, [buf[c] EXCEPT !.robot = rob], s)
    BY <1>4 DEF FinishRobot, CancelRobot, EndRobot
  <2>2. [buf[c] EXCEPT !.robot = rob].episode = buf[c].episode
    BY <1>0 DEF Buffer
  <2>3. EpisodeHeld(c)'
    BY <1>2, <2>1, <2>2
  <2> QED BY <1>1, <2>1, <2>3 DEF ProgressHeld, WrittenSteps
<1>5. CASE FinishWrite(c)
  <2> DEFINE b == [buf[c] EXCEPT !.actual = SumDuration(Written(c), req[c].task)]
  <2>1. pc[c] = "finishWrite" /\ Read(c, b, "finishTarget")
    BY <1>5 DEF FinishWrite, Written
  <2>2. b.episode = buf[c].episode /\ b.actual = SumDuration(Written(c), req[c].task)
    BY <1>0 DEF Buffer
  <2> HIDE DEF b
  <2>3. EpisodeHeld(c)'
    BY <1>2, <2>1, <2>2
  <2>4. /\ pc'[c] = "finishTarget" /\ req'[c] = req[c] /\ buf'[c].actual = SumDuration(Written(c), req[c].task)
        /\ Written(c)' = Written(c)
    BY <1>1, <2>1, <2>2 DEF Written
  <2> QED BY <2>3, <2>4 DEF ProgressHeld
<1>6. CASE FinishTarget(c)
  <2> DEFINE b == [buf[c] EXCEPT !.target = SumTarget(approved[req[c].task])]
  <2>1. pc[c] = "finishTarget" /\ Read(c, b, "finishTask")
    BY <1>6 DEF FinishTarget
  <2>2. b.episode = buf[c].episode /\ b.actual = buf[c].actual /\ b.target = SumTarget(approved[req[c].task])
    BY <1>0 DEF Buffer
  <2> HIDE DEF b
  <2>3. EpisodeHeld(c)'
    BY <1>2, <2>1, <2>2
  <2>4. /\ pc'[c] = "finishTask" /\ req'[c] = req[c] /\ approved' = approved
        /\ buf'[c].actual = buf[c].actual /\ buf'[c].target = SumTarget(approved[req[c].task])
        /\ Written(c)' = Written(c)
    BY <1>1, <2>1, <2>2 DEF Written
  <2> QED BY <1>0, <2>1, <2>3, <2>4 DEF ProgressHeld, WrittenSteps
<1>7. CASE FinishTask(c)
  <2> DEFINE b == [buf[c] EXCEPT !.task = task[req[c].task]]
  <2>1. pc[c] = "finishTask" /\ Read(c, b, "finishCommit")
    BY <1>7 DEF FinishTask
  <2>2. /\ b.episode = buf[c].episode /\ b.actual = buf[c].actual /\ b.target = buf[c].target
        /\ b.task = task[req[c].task]
    BY <1>0 DEF Buffer
  <2> HIDE DEF b
  <2>3. EpisodeHeld(c)'
    BY <1>2, <2>1, <2>2
  <2>4. /\ pc'[c] = "finishCommit" /\ req'[c] = req[c] /\ approved' = approved /\ task' = task
        /\ buf'[c].actual = buf[c].actual /\ buf'[c].target = buf[c].target
        /\ buf'[c].task = task[req[c].task] /\ Written(c)' = Written(c)
    BY <1>1, <2>1, <2>2 DEF Written
  <2> QED BY <1>0, <2>1, <2>3, <2>4 DEF ProgressHeld, WrittenSteps
<1> QED BY <1>3, <1>4, <1>5, <1>6, <1>7

\* The statements of Update of a task and of Approve, but for the last.
LEMMA OwnTask ==
    ASSUME TaskInv, NEW c \in Clients,
           \/ UpdateTask(c) \/ UpdateTaskRead(c) \/ UpdateTaskSum(c) \/ UpdateTaskTarget(c)
           \/ Approve(c) \/ ApproveWrite(c) \/ ApproveTarget(c) \/ ApproveTask(c)
    PROVE  EpisodeHeld(c)' /\ ProgressHeld(c)'
<1>0. /\ pc \in [Clients -> Steps] /\ req \in [Clients -> Request] /\ buf \in [Clients -> Buffer]
      /\ ProgressHeld(c) /\ buf[c] \in Buffer
  BY DEF TaskInv, TypeInv, TypeOK, ClientsOK
<1>1. ASSUME NEW b, NEW s, Read(c, b, s)
      PROVE  /\ pc'[c] = s /\ req'[c] = req[c] /\ buf'[c] = b
             /\ episode' = episode /\ task' = task /\ approved' = approved
             /\ \A t : Progress(t)' = Progress(t)
  BY <1>0, <1>1 DEF Read, tables, Progress
<1>2. ASSUME pc'[c] \in ApproveSteps \cup UpdateTaskSteps PROVE EpisodeHeld(c)'
  BY <1>2 DEF EpisodeHeld, SessionSteps, StartSteps, CancelSteps, ApproveSteps, UpdateTaskSteps
<1> USE DEF WrittenSteps, ApproveSteps, UpdateTaskSteps
<1>3. CASE UpdateTask(c)
  <2>1. PICK t \in Tasks, wanted \in TaskStatus :
          /\ Begin(c, "updateTask", TaskRequest(t, None), HoldTask(wanted),
                   IF wanted = "canceled" THEN "updateTaskWrite" ELSE "updateTaskRead")
    BY <1>3 DEF UpdateTask
  <2>2. HoldTask(wanted).task = wanted
    BY DEF HoldTask, NoBuffer
  <2>3. pc'[c] \in {"updateTaskRead", "updateTaskWrite"} /\ (pc'[c] = "updateTaskWrite" => buf'[c].task = "canceled")
    BY <1>0, <2>1, <2>2 DEF Begin
  <2> QED BY <1>2, <2>3 DEF ProgressHeld
<1>4. CASE UpdateTaskRead(c)
  <2>1. Read(c, buf[c], IF task[req[c].task] = "canceled" THEN "updateTaskSum" ELSE "updateTaskWrite")
    BY <1>4 DEF UpdateTaskRead
  <2> QED BY <1>1, <1>2, <2>1 DEF ProgressHeld
<1>5. CASE UpdateTaskSum(c)
  <2>1. Read(c, [buf[c] EXCEPT !.actual = SumDuration(episode, req[c].task)], "updateTaskTarget")
    BY <1>5 DEF UpdateTaskSum
  <2>2. [buf[c] EXCEPT !.actual = SumDuration(episode, req[c].task)].actual = SumDuration(episode, req[c].task)
    BY <1>0 DEF Buffer
  <2>3. /\ pc'[c] = "updateTaskTarget" /\ req'[c] = req[c] /\ episode' = episode
        /\ buf'[c].actual = SumDuration(episode, req[c].task)
    BY <1>1, <2>1, <2>2
  <2> QED BY <1>2, <2>3 DEF ProgressHeld
<1>6. CASE UpdateTaskTarget(c)
  <2> DEFINE target == SumTarget(approved[req[c].task])
             b == [buf[c] EXCEPT !.target = target, !.task = DetermineTaskStatus(buf[c].actual, target)]
  <2>1. pc[c] = "updateTaskTarget" /\ Read(c, b, "updateTaskWrite")
    BY <1>6 DEF UpdateTaskTarget
  <2>2. b.task = DetermineTaskStatus(buf[c].actual, target)
    BY <1>0 DEF Buffer
  <2>3. b.task = Progress(req[c].task)
    BY <1>0, <2>1, <2>2 DEF ProgressHeld, Progress
  <2> HIDE DEF b, target
  <2>4. /\ pc'[c] = "updateTaskWrite" /\ req'[c] = req[c] /\ buf'[c].task = Progress(req[c].task)
        /\ \A t : Progress(t)' = Progress(t)
    BY <1>1, <2>1, <2>3
  <2> QED BY <1>2, <2>4 DEF ProgressHeld
<1>7. CASE Approve(c)
  <2>1. pc'[c] = "approveWrite"
    BY <1>0, <1>7 DEF Approve, Begin
  <2> QED BY <1>2, <2>1 DEF ProgressHeld
<1>8. CASE ApproveWrite(c)
  <2>1. Read(c, [buf[c] EXCEPT !.actual = SumDuration(episode, req[c].task)], "approveTarget")
    BY <1>8 DEF ApproveWrite
  <2>2. [buf[c] EXCEPT !.actual = SumDuration(episode, req[c].task)].actual = SumDuration(episode, req[c].task)
    BY <1>0 DEF Buffer
  <2>3. /\ pc'[c] = "approveTarget" /\ req'[c] = req[c] /\ episode' = episode
        /\ buf'[c].actual = SumDuration(episode, req[c].task)
    BY <1>1, <2>1, <2>2
  <2> QED BY <1>2, <2>3 DEF ProgressHeld
<1>9. CASE ApproveTarget(c)
  <2> DEFINE target == SumTarget(approved[req[c].task] \cup {req[c].version})
             b == [buf[c] EXCEPT !.target = target]
  <2>1. pc[c] = "approveTarget" /\ Read(c, b, "approveTask")
    BY <1>9 DEF ApproveTarget
  <2>2. b.target = target /\ b.actual = buf[c].actual
    BY <1>0 DEF Buffer
  <2>3. b.actual = SumDuration(episode, req[c].task)
    BY <1>0, <2>1, <2>2 DEF ProgressHeld
  <2>4. b.target = SumTarget(approved[req[c].task] \cup {req[c].version})
    BY <2>2
  <2> HIDE DEF b, target
  <2>5. /\ pc'[c] = "approveTask" /\ req'[c] = req[c] /\ episode' = episode /\ approved' = approved
        /\ buf'[c].actual = SumDuration(episode, req[c].task)
        /\ buf'[c].target = SumTarget(approved[req[c].task] \cup {req[c].version})
    BY <1>1, <2>1, <2>3, <2>4
  <2> QED BY <1>2, <2>5 DEF ProgressHeld
<1>10. CASE ApproveTask(c)
  <2> DEFINE b == [buf[c] EXCEPT !.task = task[req[c].task]]
  <2>1. pc[c] = "approveTask" /\ Read(c, b, "approveCommit")
    BY <1>10 DEF ApproveTask
  <2>2. b.task = task[req[c].task] /\ b.actual = buf[c].actual /\ b.target = buf[c].target
    BY <1>0 DEF Buffer
  <2> HIDE DEF b
  <2>3. /\ pc'[c] = "approveCommit" /\ req'[c] = req[c] /\ episode' = episode /\ approved' = approved
        /\ task' = task /\ buf'[c].actual = buf[c].actual /\ buf'[c].target = buf[c].target
        /\ buf'[c].task = task[req[c].task]
    BY <1>1, <2>1, <2>2
  <2> QED BY <1>0, <1>2, <2>1, <2>3 DEF ProgressHeld
<1> QED BY <1>3, <1>4, <1>5, <1>6, <1>7, <1>8, <1>9, <1>10

-----------------------------------------------------------------------------
(* The theorems                                                            *)

\* Nobody holds anything at first.
LEMMA TaskInvInit == Init => TaskInv
<1> SUFFICES ASSUME Init PROVE TaskInv
  OBVIOUS
<1>1. \A c \in Clients : pc[c] = "idle" /\ req[c].robot = None
  BY DEF Init, RequestsInit, NoRequest
<1>2. OneRequest
  BY <1>1 DEF OneRequest
<1>3. \A c \in Clients : Issued(c) /\ EpisodeHeld(c) /\ ProgressHeld(c)
  BY <1>1 DEF Issued, EpisodeHeld, ProgressHeld, SessionSteps, StartSteps, CancelSteps, WrittenSteps,
              CountedSteps, FinishSteps, ApproveSteps, UpdateTaskSteps
<1> QED BY <1>2, <1>3, TypeInvInit DEF TaskInv

\* Every step keeps the invariant.
LEMMA TaskInvNext ==
    ASSUME CountedByOne, TaskInv, [Next]_vars
    PROVE  TaskInv'
<1>1. TypeInv'
  BY TypeInvNext DEF TaskInv
<1>2. ASSUME NEW c \in Clients, ClientStep(c) PROVE TaskInv'
  <2>1. OneRequest'
    BY <1>2, StillOneRequest DEF TaskInv, CountedByOne
  <2>2. EpisodeHeld(c)' /\ ProgressHeld(c)'
    BY <1>2, OwnBegins, OwnSession, OwnTask, OwnNothing, NothingHeld
       DEF ClientStep, EpisodeStep, TaskStep
  <2>3. Issued(c)'
    BY <1>2, OwnIssued
  <2>4. \A d \in Clients \ {c} : Issued(d)' /\ EpisodeHeld(d)' /\ ProgressHeld(d)'
    BY <1>2, OthersHold
  <2> QED BY <1>1, <2>1, <2>2, <2>3, <2>4 DEF TaskInv
<1>3. ASSUME UNCHANGED <<episode, task, approved, pc, req, buf>> PROVE TaskInv'
  <2>1. ASSUME NEW c \in Clients PROVE Issued(c)' /\ EpisodeHeld(c)' /\ ProgressHeld(c)'
    BY <1>3 DEF TaskInv, Issued, Counts, EpisodeHeld, EpisodeOf, EpisodeExists, ProgressHeld,
                Written, Progress
  <2>2. OneRequest'
    BY <1>3 DEF TaskInv, OneRequest
  <2> QED BY <1>1, <2>1, <2>2 DEF TaskInv
<1>4. ASSUME NEW r \in Robots, Heartbeat(r) \/ HeartbeatExpires(r)
      PROVE  UNCHANGED <<episode, task, approved, pc, req, buf>>
  BY <1>4 DEF Heartbeat, HeartbeatExpires, tables, clients
<1> QED BY <1>2, <1>3, <1>4 DEF Next, ClientStep, vars

\* The invariant, of every behaviour of Teleop.
LEMMA TaskInvariant == CountedByOne => (Spec => []TaskInv)
<1> SUFFICES ASSUME CountedByOne PROVE Spec => []TaskInv
  OBVIOUS
<1>1. TaskInv /\ [Next]_vars => TaskInv'
  BY TaskInvNext
<1> QED BY <1>1, TaskInvInit, PTL DEF Spec

\* What Finish and Approve write to the task.
LEMMA StatusWritten ==
    ASSUME TaskInv, NEW c \in Clients, FinishCommit(c) \/ ApproveCommit(c), NEW t, t = req[c].task
    PROVE  /\ t \in Tasks
           /\ Progress(t)' = DetermineTaskStatus(buf[c].actual, buf[c].target)
           /\ task' = IF task[t] \in {"canceled", Progress(t)'} THEN task
                      ELSE [task EXCEPT ![t] = Progress(t)']
<1>0. /\ ProgressHeld(c) /\ ClientNamed(pc[c], req[c], buf[c])
      /\ approved \in [Tasks -> SUBSET Versions]
  BY RowTypes DEF TaskInv, TypeInv, TypeOK, TablesOK
<1>1. CASE FinishCommit(c)
  <2>1. /\ pc[c] = "finishCommit" /\ approved' = approved /\ episode' = Written(c) /\ WriteTaskStatus(c)
    BY <1>1 DEF FinishCommit, Written
  <2>2. /\ buf[c].actual = SumDuration(episode', t)
        /\ buf[c].target = SumTarget(approved'[t])
        /\ buf[c].task = task[t]
    BY <1>0, <2>1 DEF ProgressHeld, WrittenSteps
  <2>3. t \in Tasks
    BY <1>0, <2>1 DEF ClientNamed, TaskSteps, SessionSteps
  <2>4. Progress(t)' = DetermineTaskStatus(buf[c].actual, buf[c].target)
    BY <2>2 DEF Progress
  <2> QED BY <2>1, <2>2, <2>3, <2>4 DEF WriteTaskStatus
<1>2. CASE ApproveCommit(c)
  <2>1. /\ pc[c] = "approveCommit" /\ episode' = episode /\ WriteTaskStatus(c)
        /\ approved' = [approved EXCEPT ![t] = @ \cup {req[c].version}]
    BY <1>2 DEF ApproveCommit
  <2>2. t \in Tasks
    BY <1>0, <2>1 DEF ClientNamed, TaskSteps, ApproveSteps
  <2>3. /\ buf[c].actual = SumDuration(episode', t)
        /\ buf[c].target = SumTarget(approved'[t])
        /\ buf[c].task = task[t]
    BY <1>0, <2>1, <2>2 DEF ProgressHeld
  <2>4. Progress(t)' = DetermineTaskStatus(buf[c].actual, buf[c].target)
    BY <2>3 DEF Progress
  <2> QED BY <2>1, <2>2, <2>3, <2>4 DEF WriteTaskStatus
<1> QED BY <1>1, <1>2

\* If the requests that count for tasks come one after another, whoever
\* finishes an episode or approves a version leaves the task with the status
\* that its collection has by then, unless it is cancelled
\* (usecase/episode.go Finish, usecase/task_version.go Approve).
THEOREM TaskStatusAlwaysProgress == CountedByOne => (Spec => TaskStatusIsProgress)
<1> SUFFICES ASSUME CountedByOne PROVE Spec => TaskStatusIsProgress
  OBVIOUS
<1>1. ASSUME TaskInv, NEW c \in Clients, NEW t \in Tasks, req[c].task = t, FinishCommit(c) \/ ApproveCommit(c)
      PROVE  task'[t] \in {"canceled", Progress(t)'}
  <2>1. task' = IF task[t] \in {"canceled", Progress(t)'} THEN task
                ELSE [task EXCEPT ![t] = Progress(t)']
    BY <1>1, StatusWritten
  <2>2. task \in [Tasks -> TaskStatus]
    BY <1>1 DEF TaskInv, TypeInv, TypeOK, TablesOK
  <2> QED BY <2>1, <2>2
<1>2. TaskInv /\ [Next]_vars =>
        [\A c \in Clients, t \in Tasks : req[c].task = t /\ (FinishCommit(c) \/ ApproveCommit(c)) =>
            task'[t] \in {"canceled", Progress(t)'}]_vars
  BY <1>1
<1> QED BY <1>2, TaskInvariant, PTL DEF Spec, TaskStatusIsProgress

\* Under the same hypothesis a cancelled task is taken back only by an edit of
\* the task, and then to the status that its collection has by now
\* (usecase/task.go Update).
THEOREM CanceledTaskAlwaysReturns == CountedByOne => (Spec => CanceledTaskReturnsToProgress)
<1> SUFFICES ASSUME CountedByOne PROVE Spec => CanceledTaskReturnsToProgress
  OBVIOUS
<1>1. ASSUME TaskInv, NEW c \in Clients, ClientStep(c), NEW t \in Tasks,
             task[t] = "canceled", task'[t] # "canceled"
      PROVE  pc[c] = "updateTaskWrite" /\ req[c].task = t /\ task'[t] = Progress(t)
  <2>0. task \in [Tasks -> TaskStatus] /\ ProgressHeld(c)
    BY <1>1 DEF TaskInv, TypeInv, TypeOK, TablesOK
  <2>1. CASE FinishCommit(c) \/ ApproveCommit(c)
    <3>1. PICK u : u = req[c].task
      OBVIOUS
    <3>2. task' = IF task[u] \in {"canceled", Progress(u)'} THEN task
                  ELSE [task EXCEPT ![u] = Progress(u)']
      BY <1>1, <2>1, <3>1, StatusWritten
    <3>3. task'[t] = task[t]
      BY <1>1, <2>0, <3>2
    <3> QED BY <1>1, <3>3
  <2>2. CASE UpdateTaskWrite(c)
    <3>1. pc[c] = "updateTaskWrite" /\ task' = [task EXCEPT ![req[c].task] = buf[c].task]
      BY <2>2 DEF UpdateTaskWrite
    <3>2. req[c].task = t /\ task'[t] = buf[c].task
      BY <1>1, <2>0, <3>1
    <3>3. buf[c].task \in {"canceled", Progress(req[c].task)}
      BY <1>1, <2>0, <3>1, <3>2 DEF ProgressHeld
    <3> QED BY <1>1, <3>1, <3>2, <3>3
  <2> QED BY <1>1, <2>1, <2>2, TaskWrites DEF TaskWrite
<1>2. ASSUME TaskInv, [Next]_vars, NEW t \in Tasks, task[t] = "canceled", task'[t] # "canceled"
      PROVE  /\ \E c \in Clients : pc[c] = "updateTaskWrite" /\ req[c].task = t
             /\ task'[t] = Progress(t)
  <2>1. ASSUME NEW r \in Robots, Heartbeat(r) \/ HeartbeatExpires(r) PROVE task' = task
    BY <2>1 DEF Heartbeat, HeartbeatExpires, tables
  <2>2. PICK c \in Clients : ClientStep(c)
    BY <1>2, <2>1 DEF Next, ClientStep, vars
  <2> QED BY <1>1, <1>2, <2>2
<1>3. TaskInv /\ [Next]_vars =>
        [\A t \in Tasks : task[t] = "canceled" /\ task'[t] # "canceled" =>
             /\ \E c \in Clients : pc[c] = "updateTaskWrite" /\ req[c].task = t
             /\ task'[t] = Progress(t)]_vars
  BY <1>2
<1> QED BY <1>3, TaskInvariant, PTL DEF Spec, CanceledTaskReturnsToProgress

=============================================================================
