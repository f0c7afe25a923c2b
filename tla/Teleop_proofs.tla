---------------------------- MODULE Teleop_proofs ----------------------------
(***************************************************************************)
(* Safety of Teleop for every number of robots, clients, episodes,         *)
(* subtasks, executions, tasks and versions, however the requests overlap: *)
(* that every row and every request has its type; what no interleaving can *)
(* break, edits in the console included; and, as long as nobody edits a    *)
(* robot or an episode by hand, that a Busy robot is recording the episode *)
(* it names.                                                               *)
(***************************************************************************)
EXTENDS Teleop, TLAPS, FiniteSetTheorems

\* The domain methods yield rows (domain/model/episode.go, robot.go,
\* episode_sub_task.go, episode_sub_task_execution.go, task.go).
LEMMA DomainTypes ==
    /\ NoEpisodeRow \in EpisodeRow
    /\ \A r \in Robots, t \in Tasks : InitEpisode(r, t) \in EpisodeRow
    /\ \A ep \in EpisodeRow : /\ EpisodeStart(ep) \in EpisodeRow
                              /\ EpisodeFinish(ep) \in EpisodeRow
                              /\ EpisodeCancel(ep) \in EpisodeRow
    /\ InitRobot \in RobotRow
    /\ \A rob \in RobotRow : EndTeleoperation(rob) \in RobotRow
    /\ \A rob \in RobotRow, hb \in BOOLEAN, e \in Episodes :
         StartTeleoperation(ResolvedStatus(rob, hb), e) \in RobotRow
    /\ \A rob \in RobotRow, w \in ManualStatus : SetStatus(rob, w) \in RobotRow
    /\ NoExecutionRow \in ExecutionRow /\ InitExecution \in ExecutionRow
    /\ \A exe \in ExecutionRow : /\ ExecutionStart(exe) \in ExecutionRow
                                 /\ ExecutionFinish(exe) \in ExecutionRow
                                 /\ ExecutionCancel(exe) \in ExecutionRow
    /\ \A n, m : DetermineTaskStatus(n, m) \in TaskStatus
    /\ NoEpisode \notin Episodes
<1>1. /\ NoEpisodeRow \in EpisodeRow
      /\ \A r \in Robots, t \in Tasks : InitEpisode(r, t) \in EpisodeRow
  BY DEF NoEpisodeRow, EpisodeRow, EpisodeStatus, InitEpisode
<1>2. \A ep \in EpisodeRow : /\ EpisodeStart(ep) \in EpisodeRow
                             /\ EpisodeFinish(ep) \in EpisodeRow
                             /\ EpisodeCancel(ep) \in EpisodeRow
  BY DEF EpisodeRow, EpisodeStatus, EpisodeStart, EpisodeFinish, EpisodeCancel
<1>3. InitRobot \in RobotRow /\ \A rob \in RobotRow : EndTeleoperation(rob) \in RobotRow
  BY DEF InitRobot, RobotRow, StoredStatus, EndTeleoperation
<1>4. ASSUME NEW rob \in RobotRow, NEW hb \in BOOLEAN, NEW e \in Episodes
      PROVE  StartTeleoperation(ResolvedStatus(rob, hb), e) \in RobotRow
  BY DEF RobotRow, StoredStatus, StartTeleoperation, ResolvedStatus
<1>5. ASSUME NEW rob \in RobotRow, NEW w \in ManualStatus
      PROVE  SetStatus(rob, w) \in RobotRow
  BY DEF RobotRow, StoredStatus, SetStatus, ManualStatus
<1>6. /\ NoExecutionRow \in ExecutionRow /\ InitExecution \in ExecutionRow
      /\ \A exe \in ExecutionRow : /\ ExecutionStart(exe) \in ExecutionRow
                                   /\ ExecutionFinish(exe) \in ExecutionRow
                                   /\ ExecutionCancel(exe) \in ExecutionRow
  BY DEF NoExecutionRow, InitExecution, ExecutionRow, ExecutionStatus,
         ExecutionStart, ExecutionFinish, ExecutionCancel
<1>7. \A n, m : DetermineTaskStatus(n, m) \in TaskStatus
  BY DEF DetermineTaskStatus, TaskStatus
<1>8. NoEpisode \notin Episodes
  BY DEF NoEpisode, Episodes
<1> QED BY <1>1, <1>2, <1>3, <1>4, <1>5, <1>6, <1>7, <1>8

\* Sums over the tables are natural numbers.
LEMMA SumTypes ==
    /\ \A eps, t : SumDuration(eps, t) \in Nat
    /\ \A V \in SUBSET Versions : SumTarget(V) \in Nat
<1>1. ASSUME NEW eps, NEW t PROVE SumDuration(eps, t) \in Nat
  <2> DEFINE S == {e \in Episodes : /\ eps[e].task = t
                                    /\ eps[e].status = "completed"
                                    /\ eps[e].started
                                    /\ eps[e].finished}
  <2>1. IsFiniteSet(Episodes)
    BY FS_Interval, DomainAssumption DEF DomainAssumption, Episodes
  <2>2. IsFiniteSet(S)
    BY <2>1, FS_Subset
  <2>3. Cardinality(S) \in Nat
    BY <2>2, FS_CardinalityType
  <2> QED BY <2>3 DEF SumDuration
<1>2. ASSUME NEW V \in SUBSET Versions PROVE SumTarget(V) \in Nat
  <2>1. IsFiniteSet(V)
    BY DomainAssumption, FS_Subset DEF DomainAssumption
  <2>2. Cardinality(V) \in Nat
    BY <2>1, FS_CardinalityType
  <2> QED BY <2>2, DomainAssumption DEF DomainAssumption, SumTarget
<1> QED BY <1>1, <1>2

-----------------------------------------------------------------------------
(* The inductive invariant: TypeOK alone is not, for a request may look up *)
(* the robot, the episode or the task it names only if it names one.       *)

SessionSteps == {"startRobot", "startWrite", "finishRobot", "finishWrite",
                 "finishTarget", "finishTask", "finishCommit",
                 "cancelRobot", "cancelWrite", "updateEpisodeWrite"}
CreateSteps  == {"createRobot", "createWrite", "repeatRobot", "repeatWrite"}
ApproveSteps == {"approveWrite", "approveTarget", "approveTask", "approveCommit"}
RobotSteps   == SessionSteps \cup CreateSteps
                  \cup {"repeatList", "updateRobotWrite", "deleteRobotWrite"}
TaskSteps    == SessionSteps \cup CreateSteps \cup ApproveSteps
                  \cup {"updateTaskRead", "updateTaskSum", "updateTaskTarget",
                        "updateTaskWrite"}

\* A request q with next statement p and memory b names what it acts on.
ClientNamed(p, q, b) ==
    /\ p \in RobotSteps => q.robot \in Robots
    /\ p \in TaskSteps => q.task \in Tasks
    /\ p \in ApproveSteps => q.version \in Versions
    /\ p \in SessionSteps => /\ q.episode \in Episodes
                             /\ b.episode.robot \in Robots
                             /\ b.episode.task \in Tasks

RowsNamed == \A e \in Episodes : EpisodeExists(e) =>
                episode[e].robot \in Robots /\ episode[e].task \in Tasks
ClientsNamed == \A c \in Clients : ClientNamed(pc[c], req[c], buf[c])

TypeInv == TypeOK /\ RowsNamed /\ ClientsNamed

-----------------------------------------------------------------------------
(* What the steps of a request do to its client *)

\* An idle client holds nothing.
LEMMA NoTypes == NoRequest \in Request /\ NoBuffer \in Buffer
<1>1. NoRequest \in Request
  BY DEF NoRequest, Request
<1>2. NoBuffer \in Buffer
  BY DomainTypes DEF NoBuffer, Buffer, SubTaskStatus, TaskStatus
<1> QED BY <1>1, <1>2

\* A step that begins a request and leaves the tables alone.
LEMMA BeginTypes ==
    ASSUME TypeInv, NEW c \in Clients, NEW k, NEW a \in Request, NEW b \in Buffer,
           NEW s \in Steps, ClientNamed(s, a, b),
           Begin(c, k, a, b, s), UNCHANGED <<heartbeat, tables>>
    PROVE  TypeInv'
<1>1. ClientsOK'
  BY DEF Begin, TypeInv, TypeOK, ClientsOK
<1>2. TablesOK' /\ RowsNamed'
  BY DEF TypeInv, TypeOK, TablesOK, RowsNamed, EpisodeExists, tables
<1>3. ClientsNamed'
  BY DEF Begin, TypeInv, TypeOK, ClientsOK, ClientsNamed
<1> QED BY <1>1, <1>2, <1>3 DEF TypeInv, TypeOK

\* A step that reads.
LEMMA ReadTypes ==
    ASSUME TypeInv, NEW c \in Clients, NEW b \in Buffer, NEW s \in Steps,
           ClientNamed(s, req[c], b), Read(c, b, s)
    PROVE  TypeInv'
<1>1. TypeOK' /\ RowsNamed'
  BY DEF Read, TypeInv, TypeOK, ClientsOK, TablesOK, RowsNamed, EpisodeExists, tables
<1>2. ClientsNamed'
  BY DEF Read, TypeInv, TypeOK, ClientsOK, ClientsNamed
<1> QED BY <1>1, <1>2 DEF TypeInv

\* A step that ends a request.
LEMMA RespondTypes ==
    ASSUME TypeInv, NEW c \in Clients, Respond(c)
    PROVE  ClientsOK' /\ ClientsNamed'
<1>1. ClientsOK'
  BY NoTypes DEF Respond, TypeInv, TypeOK, ClientsOK, Steps
<1>2. ClientNamed("idle", NoRequest, NoBuffer)
  BY DEF ClientNamed, RobotSteps, TaskSteps, ApproveSteps, SessionSteps, CreateSteps
<1>3. ClientsNamed'
  BY <1>2 DEF Respond, TypeInv, TypeOK, ClientsOK, ClientsNamed
<1> QED BY <1>1, <1>3

-----------------------------------------------------------------------------
(* The requests and what they hold *)

\* What a request holds at each of its steps.
LEMMA RequestTypes ==
    ASSUME TypeInv
    PROVE  /\ \A c \in Clients, e \in Episodes : EpisodeRequest(c, e) \in Request
           /\ \A c \in Clients, e \in Episodes, s \in SubTasks,
                x \in Executions \cup {NoExecution} :
                 ExecutionRequest(c, e, s, x) \in Request
           /\ \A r \in Robots : RobotRequest(r) \in Request
           /\ \A t \in Tasks, v \in Versions \cup {None} : TaskRequest(t, v) \in Request
           /\ \A row \in EpisodeRow : HoldEpisode(row) \in Buffer
           /\ \A row \in RobotRow : HoldRobot(row) \in Buffer
           /\ \A st \in SubTaskStatus : HoldSubTask(st) \in Buffer
           /\ \A row \in ExecutionRow : HoldExecution(row) \in Buffer
           /\ \A status \in TaskStatus : HoldTask(status) \in Buffer
<1>1. ASSUME NEW c \in Clients, NEW e \in Episodes PROVE EpisodeRequest(c, e) \in Request
  <2>1. episode[e] \in EpisodeRow
    BY DEF TypeInv, TypeOK, TablesOK
  <2> QED BY <2>1, NoTypes DEF EpisodeRequest, Request, EpisodeRow
<1>2. ASSUME NEW c \in Clients, NEW e \in Episodes, NEW s \in SubTasks,
             NEW x \in Executions \cup {NoExecution}
      PROVE  ExecutionRequest(c, e, s, x) \in Request
  BY NoTypes, RequestsAssumption DEF RequestsAssumption, ExecutionRequest, Request
<1>3. /\ \A r \in Robots : RobotRequest(r) \in Request
      /\ \A t \in Tasks, v \in Versions \cup {None} : TaskRequest(t, v) \in Request
  BY NoTypes DEF RobotRequest, TaskRequest, Request
<1>4. /\ \A row \in EpisodeRow : HoldEpisode(row) \in Buffer
      /\ \A row \in RobotRow : HoldRobot(row) \in Buffer
      /\ \A st \in SubTaskStatus : HoldSubTask(st) \in Buffer
      /\ \A row \in ExecutionRow : HoldExecution(row) \in Buffer
      /\ \A status \in TaskStatus : HoldTask(status) \in Buffer
  BY NoTypes DEF HoldEpisode, HoldRobot, HoldSubTask, HoldExecution, HoldTask, Buffer
<1> QED BY <1>1, <1>2, <1>3, <1>4

\* The rows a client of each kind of step may look up.
LEMMA RowTypes ==
    ASSUME TypeInv
    PROVE  /\ \A e \in Episodes : episode[e] \in EpisodeRow
           /\ \A r \in Robots : robot[r] \in RobotRow /\ heartbeat[r] \in BOOLEAN
           /\ \A e \in Episodes, s \in SubTasks, x \in Executions :
                execution[e][s][x] \in ExecutionRow
           /\ \A t \in Tasks : task[t] \in TaskStatus /\ approved[t] \in SUBSET Versions
           /\ \A c \in Clients : /\ buf[c] \in Buffer
                                 /\ req[c] \in Request
                                 /\ ClientNamed(pc[c], req[c], buf[c])
BY DEF TypeInv, TypeOK, TablesOK, ClientsOK, ClientsNamed

\* A request about an episode names it, its robot and its task.
LEMMA SessionNamed ==
    ASSUME TypeInv, NEW c \in Clients, NEW e \in Episodes, EpisodeExists(e),
           NEW row \in EpisodeRow, row.robot = episode[e].robot,
           row.task = episode[e].task, NEW s \in SessionSteps
    PROVE  ClientNamed(s, EpisodeRequest(c, e), HoldEpisode(row))
<1>1. /\ EpisodeRequest(c, e).robot = episode[e].robot
      /\ EpisodeRequest(c, e).task = episode[e].task
      /\ EpisodeRequest(c, e).episode = e
      /\ HoldEpisode(row).episode = row
  BY DEF EpisodeRequest, NoRequest, HoldEpisode, NoBuffer
<1>2. s \notin ApproveSteps
  BY DEF SessionSteps, ApproveSteps
<1> QED BY <1>1, <1>2 DEF TypeInv, RowsNamed, ClientNamed

\* Start, Finish and Cancel keep the robot and the task of an episode.
LEMMA EpisodeKept ==
    ASSUME NEW ep \in EpisodeRow
    PROVE  /\ EpisodeStart(ep).robot = ep.robot /\ EpisodeStart(ep).task = ep.task
           /\ EpisodeFinish(ep).robot = ep.robot /\ EpisodeFinish(ep).task = ep.task
           /\ EpisodeCancel(ep).robot = ep.robot /\ EpisodeCancel(ep).task = ep.task
BY DEF EpisodeRow, EpisodeStart, EpisodeFinish, EpisodeCancel

-----------------------------------------------------------------------------
(* Episodes *)

\* Requests on episodes begin.
LEMMA EpisodeBeginTypes ==
    ASSUME TypeInv, NEW c \in Clients,
           \/ Create(c) \/ RepeatLast(c) \/ Start(c) \/ Finish(c) \/ Cancel(c)
           \/ UpdateEpisode(c)
    PROVE  TypeInv'
<1> USE BeginTypes, RequestTypes, RowTypes, NoTypes DEF Steps
<1>1. CASE Create(c)
  <2>1. PICK r \in Robots, t \in Tasks :
          /\ Begin(c, "create", [NoRequest EXCEPT !.robot = r, !.task = t],
                   NoBuffer, "createRobot")
          /\ UNCHANGED <<heartbeat, tables>>
    BY <1>1 DEF Create
  <2>2. [NoRequest EXCEPT !.robot = r, !.task = t] \in Request
    BY DEF Request
  <2>3. ClientNamed("createRobot", [NoRequest EXCEPT !.robot = r, !.task = t], NoBuffer)
    BY DEF ClientNamed, NoRequest, ApproveSteps, SessionSteps
  <2> QED BY <2>1, <2>2, <2>3
<1>2. CASE RepeatLast(c)
  <2>1. [NoRequest EXCEPT !.robot = RobotOf[c]] \in Request
    BY RequestsAssumption DEF RequestsAssumption, Request
  <2>2. ClientNamed("repeatList", [NoRequest EXCEPT !.robot = RobotOf[c]], NoBuffer)
    BY RequestsAssumption
       DEF RequestsAssumption, ClientNamed, NoRequest, TaskSteps, CreateSteps,
           ApproveSteps, SessionSteps
  <2> QED BY <1>2, <2>1, <2>2 DEF RepeatLast
<1>3. CASE Start(c)
  <2>1. PICK e \in Episodes :
          /\ OwnEpisode(c, e)
          /\ Begin(c, "start", EpisodeRequest(c, e),
                   HoldEpisode(EpisodeStart(episode[e])), "startRobot")
          /\ UNCHANGED <<heartbeat, tables>>
    BY <1>3 DEF Start
  <2>2. EpisodeStart(episode[e]) \in EpisodeRow
    BY DomainTypes
  <2>3. ClientNamed("startRobot", EpisodeRequest(c, e), HoldEpisode(EpisodeStart(episode[e])))
    BY <2>1, <2>2, SessionNamed, EpisodeKept DEF OwnEpisode, SessionSteps
  <2> QED BY <2>1, <2>2, <2>3
<1>4. CASE Finish(c)
  <2>1. PICK e \in Episodes :
          /\ OwnEpisode(c, e)
          /\ Begin(c, "finish", EpisodeRequest(c, e),
                   HoldEpisode(EpisodeFinish(episode[e])), "finishRobot")
          /\ UNCHANGED <<heartbeat, tables>>
    BY <1>4 DEF Finish
  <2>2. EpisodeFinish(episode[e]) \in EpisodeRow
    BY DomainTypes
  <2>3. ClientNamed("finishRobot", EpisodeRequest(c, e), HoldEpisode(EpisodeFinish(episode[e])))
    BY <2>1, <2>2, SessionNamed, EpisodeKept DEF OwnEpisode, SessionSteps
  <2> QED BY <2>1, <2>2, <2>3
<1>5. CASE Cancel(c)
  <2>1. PICK e \in Episodes :
          /\ OwnEpisode(c, e)
          /\ Begin(c, "cancel", EpisodeRequest(c, e),
                   HoldEpisode(EpisodeCancel(episode[e])), "cancelRobot")
          /\ UNCHANGED <<heartbeat, tables>>
    BY <1>5 DEF Cancel
  <2>2. EpisodeCancel(episode[e]) \in EpisodeRow
    BY DomainTypes
  <2>3. ClientNamed("cancelRobot", EpisodeRequest(c, e), HoldEpisode(EpisodeCancel(episode[e])))
    BY <2>1, <2>2, SessionNamed, EpisodeKept DEF OwnEpisode, SessionSteps
  <2> QED BY <2>1, <2>2, <2>3
<1>6. CASE UpdateEpisode(c)
  <2> DEFINE Row(e, s, started, finished) ==
               [episode[e] EXCEPT !.status = s, !.started = @ \/ started,
                                  !.finished = @ \/ finished]
  <2>1. \A e \in Episodes, s \in EpisodeStatus, started, finished \in BOOLEAN :
          /\ Row(e, s, started, finished) \in EpisodeRow
          /\ Row(e, s, started, finished).robot = episode[e].robot
          /\ Row(e, s, started, finished).task = episode[e].task
    BY DEF EpisodeRow
  <2>2. \E e \in Episodes, s \in EpisodeStatus, started, finished \in BOOLEAN :
          /\ EpisodeExists(e)
          /\ Begin(c, "updateEpisode", EpisodeRequest(c, e),
                   HoldEpisode(Row(e, s, started, finished)), "updateEpisodeWrite")
    BY <1>6 DEF UpdateEpisode
  <2>3. UNCHANGED <<heartbeat, tables>>
    BY <1>6 DEF UpdateEpisode
  <2> HIDE DEF Row
  <2>4. PICK e \in Episodes, s \in EpisodeStatus, started, finished \in BOOLEAN :
          /\ EpisodeExists(e)
          /\ Begin(c, "updateEpisode", EpisodeRequest(c, e),
                   HoldEpisode(Row(e, s, started, finished)), "updateEpisodeWrite")
    BY <2>2
  <2>5. ClientNamed("updateEpisodeWrite", EpisodeRequest(c, e),
                    HoldEpisode(Row(e, s, started, finished)))
    BY <2>1, <2>4, SessionNamed DEF SessionSteps
  <2> QED BY <2>1, <2>3, <2>4, <2>5
<1> QED BY <1>1, <1>2, <1>3, <1>4, <1>5, <1>6

\* They read on.
LEMMA EpisodeReadTypes ==
    ASSUME TypeInv, NEW c \in Clients,
           \/ CreateRobot(c) \/ RepeatRobot(c) \/ RepeatList(c)
           \/ StartRobot(c) \/ FinishRobot(c) \/ CancelRobot(c)
           \/ FinishWrite(c) \/ FinishTarget(c) \/ FinishTask(c)
    PROVE  TypeInv'
<1> USE ReadTypes, RowTypes DEF Steps
<1> USE DEF ClientNamed, RobotSteps, TaskSteps, ApproveSteps, SessionSteps, CreateSteps
<1>1. CASE CreateRobot(c)
  BY <1>1 DEF CreateRobot, BulkCreateRobot
<1>2. CASE RepeatRobot(c)
  BY <1>2 DEF RepeatRobot, BulkCreateRobot
<1>3. CASE RepeatList(c)
  <2>1. PICK last \in Repeatable(req[c].robot) :
          /\ pc' = [pc EXCEPT ![c] = "repeatRobot"]
          /\ req' = [req EXCEPT ![c].task = episode[last].task]
    BY <1>3 DEF RepeatList
  <2>2. last \in Episodes /\ EpisodeExists(last)
    BY DEF Repeatable, EpisodeExists, EpisodeStatus
  <2>3. episode[last].task \in Tasks
    BY <2>2 DEF TypeInv, RowsNamed
  <2>4. pc[c] = "repeatList" /\ UNCHANGED <<buf, heartbeat, tables>>
    BY <1>3 DEF RepeatList
  <2>5. ClientsOK'
    BY <2>1, <2>3, <2>4 DEF TypeInv, TypeOK, ClientsOK, Request
  <2>6. TablesOK' /\ RowsNamed'
    BY <2>4 DEF TypeInv, TypeOK, TablesOK, RowsNamed, EpisodeExists, tables
  <2>7. ClientNamed(pc'[c], req'[c], buf'[c])
    BY <2>1, <2>3, <2>4 DEF TypeInv, TypeOK, ClientsOK, Request
  <2>8. \A d \in Clients \ {c} : pc'[d] = pc[d] /\ req'[d] = req[d] /\ buf'[d] = buf[d]
    BY <2>1, <2>4 DEF TypeInv, TypeOK, ClientsOK
  <2>9. ClientsNamed'
    BY <2>7, <2>8, Zenon DEF TypeInv, ClientsNamed
  <2> QED BY <2>5, <2>6, <2>9 DEF TypeInv, TypeOK
<1>4. CASE StartRobot(c)
  <2> DEFINE rob == StartTeleoperation(ResolvedStatus(robot[req[c].robot],
                                                      heartbeat[req[c].robot]),
                                       req[c].episode)
  <2>1. pc[c] = "startRobot" /\ Read(c, [buf[c] EXCEPT !.robot = rob], "startWrite")
    BY <1>4 DEF StartRobot
  <2>2. rob \in RobotRow
    BY <2>1, DomainTypes
  <2> HIDE DEF rob
  <2>3. [buf[c] EXCEPT !.robot = rob] \in Buffer
    BY <2>2 DEF Buffer
  <2>4. [buf[c] EXCEPT !.robot = rob].episode = buf[c].episode
    BY DEF Buffer
  <2> QED BY <2>1, <2>3, <2>4
<1>5. ASSUME NEW at \in {"finishRobot", "cancelRobot"},
             NEW then \in {"finishWrite", "cancelWrite"}, EndRobot(c, at, then)
      PROVE  TypeInv'
  <2> DEFINE rob == EndTeleoperation(robot[req[c].robot])
  <2>1. pc[c] = at /\ Read(c, [buf[c] EXCEPT !.robot = rob], then)
    BY <1>5 DEF EndRobot
  <2>2. rob \in RobotRow
    BY <2>1, DomainTypes
  <2> HIDE DEF rob
  <2>3. [buf[c] EXCEPT !.robot = rob] \in Buffer
    BY <2>2 DEF Buffer
  <2>4. [buf[c] EXCEPT !.robot = rob].episode = buf[c].episode
    BY DEF Buffer
  <2> QED BY <2>1, <2>3, <2>4
<1>6. CASE FinishRobot(c)
  BY <1>5, <1>6 DEF FinishRobot
<1>7. CASE CancelRobot(c)
  BY <1>5, <1>7 DEF CancelRobot
<1>8. CASE FinishWrite(c)
  <2>1. PICK n \in Nat : pc[c] = "finishWrite" /\ Read(c, [buf[c] EXCEPT !.actual = n], "finishTarget")
    BY <1>8, SumTypes DEF FinishWrite
  <2>2. /\ [buf[c] EXCEPT !.actual = n] \in Buffer
        /\ [buf[c] EXCEPT !.actual = n].episode = buf[c].episode
    BY DEF Buffer
  <2> QED BY <2>1, <2>2
<1>9. CASE FinishTarget(c)
  <2>1. PICK n \in Nat : pc[c] = "finishTarget" /\ Read(c, [buf[c] EXCEPT !.target = n], "finishTask")
    BY <1>9, SumTypes DEF FinishTarget
  <2>2. /\ [buf[c] EXCEPT !.target = n] \in Buffer
        /\ [buf[c] EXCEPT !.target = n].episode = buf[c].episode
    BY DEF Buffer
  <2> QED BY <2>1, <2>2
<1>10. CASE FinishTask(c)
  <2>1. PICK t \in TaskStatus : pc[c] = "finishTask" /\ Read(c, [buf[c] EXCEPT !.task = t], "finishCommit")
    BY <1>10 DEF FinishTask
  <2>2. /\ [buf[c] EXCEPT !.task = t] \in Buffer
        /\ [buf[c] EXCEPT !.task = t].episode = buf[c].episode
    BY DEF Buffer
  <2> QED BY <2>1, <2>2
<1> QED BY <1>1, <1>2, <1>3, <1>4, <1>6, <1>7, <1>8, <1>9, <1>10

\* The row an episode's request writes, whole, is the row it read with another
\* status and other times, so it names a robot and a task.
LEMMA EpisodeWriteTypes ==
    ASSUME TypeInv, NEW c \in Clients,
           \/ CreateWrite(c) \/ RepeatWrite(c) \/ StartWrite(c) \/ FinishCommit(c)
           \/ CancelWrite(c) \/ UpdateEpisodeWrite(c) \/ DeleteEpisode(c)
    PROVE  TypeInv'
<1> USE RespondTypes, RowTypes
<1> USE DEF RobotSteps, TaskSteps, ApproveSteps, SessionSteps, CreateSteps
<1>1. ASSUME NEW S \in SUBSET Episodes, NEW r \in Robots, NEW t \in Tasks,
             InsertEpisodes(S, r, t), UNCHANGED heartbeat
      PROVE  TablesOK' /\ RowsNamed'
  <2>1. TablesOK'
    BY <1>1, DomainTypes
       DEF InsertEpisodes, TypeInv, TypeOK, TablesOK, SubTaskStatus
  <2>2. RowsNamed'
    BY <1>1 DEF InsertEpisodes, InitEpisode, TypeInv, RowsNamed, EpisodeExists
  <2> QED BY <2>1, <2>2
<1>2. ASSUME NEW e \in Episodes, NEW ep \in EpisodeRow, ep.robot \in Robots, ep.task \in Tasks,
             episode' = [episode EXCEPT ![e] = ep]
      PROVE  episode' \in [Episodes -> EpisodeRow] /\ RowsNamed'
  BY <1>2 DEF TypeInv, TypeOK, TablesOK, RowsNamed, EpisodeExists
<1>3. ASSUME NEW r, NEW rob \in RobotRow, robot' = [robot EXCEPT ![r] = rob]
      PROVE  robot' \in [Robots -> RobotRow]
  BY <1>3 DEF TypeInv, TypeOK, TablesOK
<1>4. buf[c].episode \in EpisodeRow /\ buf[c].robot \in RobotRow
  BY DEF Buffer
<1>5. CASE CreateWrite(c)
  <2>1. req[c].robot \in Robots /\ req[c].task \in Tasks
    BY <1>5 DEF CreateWrite, ClientNamed
  <2> QED BY <1>1, <1>5, <2>1
          DEF CreateWrite, NextEpisodes, Absent, Respond, TypeInv, TypeOK
<1>6. CASE RepeatWrite(c)
  <2>1. req[c].robot \in Robots /\ req[c].task \in Tasks
    BY <1>6 DEF RepeatWrite, ClientNamed
  <2>2. \E e \in Episodes : InsertEpisodes({e}, req[c].robot, req[c].task)
    BY <1>6 DEF RepeatWrite, Absent
  <2> QED BY <1>1, <1>6, <2>1, <2>2 DEF RepeatWrite, Respond, TypeInv, TypeOK
<1>7. CASE StartWrite(c)
  <2>1. /\ episode' = [episode EXCEPT ![req[c].episode] = buf[c].episode]
        /\ robot' = [robot EXCEPT ![req[c].robot] = buf[c].robot]
        /\ UNCHANGED <<subTask, execution, task, approved, heartbeat>>
    BY <1>7 DEF StartWrite, WriteEpisodeAndRobot, Respond
  <2>2. episode' \in [Episodes -> EpisodeRow] /\ RowsNamed'
    BY <1>2, <1>4, <1>7, <2>1 DEF StartWrite, ClientNamed
  <2> QED BY <1>3, <1>4, <1>7, <2>1, <2>2 DEF StartWrite, TypeInv, TypeOK, TablesOK
<1>8. CASE FinishCommit(c)
  <2>1. /\ episode' = [episode EXCEPT ![req[c].episode] = buf[c].episode]
        /\ robot' = [robot EXCEPT ![req[c].robot] = buf[c].robot]
        /\ UNCHANGED <<subTask, execution, approved, heartbeat>>
    BY <1>8 DEF FinishCommit, Respond
  <2>2. episode' \in [Episodes -> EpisodeRow] /\ RowsNamed'
    BY <1>2, <1>4, <1>8, <2>1 DEF FinishCommit, ClientNamed
  <2>3. task' \in [Tasks -> TaskStatus]
    BY <1>8, DomainTypes DEF FinishCommit, WriteTaskStatus, TypeInv, TypeOK, TablesOK
  <2> QED BY <1>3, <1>4, <1>8, <2>1, <2>2, <2>3 DEF FinishCommit, TypeInv, TypeOK, TablesOK
<1>9. CASE CancelWrite(c)
  <2>1. /\ episode' = [episode EXCEPT ![req[c].episode] = buf[c].episode]
        /\ robot' = [robot EXCEPT ![req[c].robot] = buf[c].robot]
        /\ UNCHANGED <<task, approved, heartbeat>>
    BY <1>9 DEF CancelWrite, WriteEpisodeAndRobot, Respond
  <2>2. episode' \in [Episodes -> EpisodeRow] /\ RowsNamed'
    BY <1>2, <1>4, <1>9, <2>1 DEF CancelWrite, ClientNamed
  <2>3. subTask' \in [Episodes -> [SubTasks -> SubTaskStatus \cup {"absent"}]]
    BY <1>9 DEF CancelWrite, BulkCancelSubTasks, SubTaskStatus, TypeInv, TypeOK, TablesOK
  <2>4. \A e \in Episodes, s \in SubTasks, x \in Executions :
          [execution[e][s][x] EXCEPT !.status = "cancelled"] \in ExecutionRow
    BY DEF ExecutionRow, ExecutionStatus
  <2>5. execution' \in [Episodes -> [SubTasks -> [Executions -> ExecutionRow]]]
    BY <1>9, <2>4 DEF CancelWrite, BulkCancelExecutions, TypeInv, TypeOK, TablesOK
  <2> QED BY <1>3, <1>4, <1>9, <2>1, <2>2, <2>3, <2>5 DEF CancelWrite, TypeInv, TypeOK, TablesOK
<1>10. CASE UpdateEpisodeWrite(c)
  <2>1. episode' \in [Episodes -> EpisodeRow] /\ RowsNamed'
    BY <1>2, <1>4, <1>10 DEF UpdateEpisodeWrite, ClientNamed
  <2> QED BY <1>10, <2>1 DEF UpdateEpisodeWrite, Respond, TypeInv, TypeOK, TablesOK
<1>11. CASE DeleteEpisode(c)
  <2>1. PICK e \in Episodes :
          episode' = [episode EXCEPT ![e] = [NoEpisodeRow EXCEPT !.status = "deleted"]]
    BY <1>11 DEF DeleteEpisode
  <2>2. UNCHANGED <<subTask, execution, robot, task, approved, heartbeat, clients>>
    BY <1>11 DEF DeleteEpisode
  <2>3. TablesOK' /\ RowsNamed'
    BY <2>1, <2>2
       DEF TypeInv, TypeOK, TablesOK, RowsNamed, EpisodeExists, NoEpisodeRow,
           EpisodeRow, EpisodeStatus
  <2>4. ClientsOK' /\ ClientsNamed'
    BY <2>2 DEF TypeInv, TypeOK, ClientsOK, ClientsNamed, clients
  <2> QED BY <2>3, <2>4 DEF TypeInv, TypeOK
<1> QED BY <1>5, <1>6, <1>7, <1>8, <1>9, <1>10, <1>11

-----------------------------------------------------------------------------
(* Robots *)

\* Requests on robots.
LEMMA RobotStepTypes ==
    ASSUME TypeInv, NEW c \in Clients, RobotStep(c)
    PROVE  TypeInv'
<1> USE RowTypes, NoTypes DEF Steps
<1> USE DEF ClientNamed, RobotSteps, TaskSteps, ApproveSteps, SessionSteps, CreateSteps
<1>1. ASSUME NEW r \in Robots, NEW b, NEW s \in {"updateRobotWrite", "deleteRobotWrite"}
      PROVE  ClientNamed(s, RobotRequest(r), b)
  BY DEF RobotRequest, NoRequest
<1>2. CASE UpdateRobot(c)
  <2>1. PICK r \in Robots : \E row \in {robot[r]} \cup {SetStatus(robot[r], wanted) :
                  wanted \in {w \in ManualStatus : CanSetStatus(robot[r], w)}} :
             Begin(c, "updateRobot", RobotRequest(r), HoldRobot(row), "updateRobotWrite")
    BY <1>2 DEF UpdateRobot
  <2>2. PICK row \in RobotRow :
          Begin(c, "updateRobot", RobotRequest(r), HoldRobot(row), "updateRobotWrite")
    BY <2>1, DomainTypes
  <2>3. HoldRobot(row) \in Buffer /\ RobotRequest(r) \in Request
    BY RequestTypes
  <2> QED BY <1>1, <1>2, <2>2, <2>3, BeginTypes DEF UpdateRobot
<1>3. CASE DeleteRobot(c)
  <2>1. PICK r \in Robots :
          Begin(c, "deleteRobot", RobotRequest(r), NoBuffer, "deleteRobotWrite")
    BY <1>3 DEF DeleteRobot
  <2> QED BY <1>1, <1>3, <2>1, BeginTypes, RequestTypes DEF DeleteRobot
<1>4. CASE UpdateRobotWrite(c)
  <2>1. buf[c].robot \in RobotRow
    BY DEF Buffer
  <2>2. TablesOK' /\ RowsNamed'
    BY <1>4, <2>1
       DEF UpdateRobotWrite, Respond, TypeInv, TypeOK, TablesOK, RowsNamed, EpisodeExists
  <2> QED BY <1>4, <2>2, RespondTypes DEF UpdateRobotWrite, TypeInv, TypeOK
<1>5. CASE DeleteRobotWrite(c)
  <2>1. \A r \in Robots : [robot[r] EXCEPT !.status = "deleted"] \in RobotRow
    BY DEF RobotRow
  <2>2. TablesOK' /\ RowsNamed'
    BY <1>5, <2>1
       DEF DeleteRobotWrite, Respond, TypeInv, TypeOK, TablesOK, RowsNamed, EpisodeExists
  <2> QED BY <1>5, <2>2, RespondTypes DEF DeleteRobotWrite, TypeInv, TypeOK
<1> QED BY <1>2, <1>3, <1>4, <1>5 DEF RobotStep

-----------------------------------------------------------------------------
(* Subtasks and executions *)

\* A row of a subtask or an execution is put in its place.
LEMMA PutType ==
    ASSUME NEW A, NEW B, NEW f \in [A -> B], NEW i, NEW v, i \in A => v \in B
    PROVE  [f EXCEPT ![i] = v] \in [A -> B]
OBVIOUS

\* The same of an execution.
LEMMA ExecutionPut ==
    ASSUME TypeInv, NEW e, NEW s, NEW x, NEW row \in ExecutionRow
    PROVE  [execution EXCEPT ![e][s][x] = row]
             \in [Episodes -> [SubTasks -> [Executions -> ExecutionRow]]]
<1> DEFINE perSubTask == [execution[e][s] EXCEPT ![x] = row]
           perEpisode == [execution[e] EXCEPT ![s] = perSubTask]
<1>1. execution \in [Episodes -> [SubTasks -> [Executions -> ExecutionRow]]]
  BY DEF TypeInv, TypeOK, TablesOK
<1>2. e \in Episodes /\ s \in SubTasks => perSubTask \in [Executions -> ExecutionRow]
  <2> SUFFICES ASSUME e \in Episodes, s \in SubTasks
               PROVE  perSubTask \in [Executions -> ExecutionRow]
    OBVIOUS
  <2>1. execution[e][s] \in [Executions -> ExecutionRow]
    BY <1>1
  <2> QED BY <2>1, PutType
<1> HIDE DEF perSubTask
<1>3. e \in Episodes => perEpisode \in [SubTasks -> [Executions -> ExecutionRow]]
  <2> SUFFICES ASSUME e \in Episodes
               PROVE  perEpisode \in [SubTasks -> [Executions -> ExecutionRow]]
    OBVIOUS
  <2>1. execution[e] \in [SubTasks -> [Executions -> ExecutionRow]]
    BY <1>1
  <2> QED BY <1>2, <2>1, PutType
<1> HIDE DEF perEpisode
<1>4. [execution EXCEPT ![e] = perEpisode]
        \in [Episodes -> [SubTasks -> [Executions -> ExecutionRow]]]
  BY <1>1, <1>3, PutType
<1> QED BY <1>4, Zenon DEF perEpisode, perSubTask

\* Requests on subtasks and executions.
LEMMA ExecutionStepTypes ==
    ASSUME TypeInv, NEW c \in Clients, ExecutionStep(c)
    PROVE  TypeInv'
<1> USE RowTypes, NoTypes DEF Steps
<1>1. ASSUME NEW s, s \notin RobotSteps \cup TaskSteps, NEW q, NEW b
      PROVE  ClientNamed(s, q, b)
  BY <1>1 DEF ClientNamed, RobotSteps, TaskSteps
<1>2. \A s \in {"createExecutionWrite", "startExecutionCount", "executionWrite",
                "subTaskWrite"} : s \notin RobotSteps \cup TaskSteps
  BY DEF RobotSteps, TaskSteps, ApproveSteps, SessionSteps, CreateSteps
<1>3. ASSUME NEW k, NEW e \in Episodes, NEW s \in SubTasks, NEW x \in Executions,
             NEW row \in ExecutionRow,
             NEW then \in {"startExecutionCount", "executionWrite"},
             Begin(c, k, ExecutionRequest(c, e, s, x), HoldExecution(row), then),
             UNCHANGED <<heartbeat, tables>>
      PROVE  TypeInv'
  BY <1>1, <1>2, <1>3, BeginTypes, RequestTypes
<1>4. ASSUME NEW k, NEW e \in Episodes, NEW s \in SubTasks, NEW st \in SubTaskStatus,
             Begin(c, k, ExecutionRequest(c, e, s, NoExecution), HoldSubTask(st),
                   "subTaskWrite"),
             UNCHANGED <<heartbeat, tables>>
      PROVE  TypeInv'
  BY <1>1, <1>2, <1>4, BeginTypes, RequestTypes
<1>5. CASE CreateExecution(c)
  BY <1>1, <1>2, <1>5, BeginTypes, RequestTypes
     DEF CreateExecution, SubTaskStartProgress, SubTaskStatus
<1>6. CASE StartExecution(c)
  BY <1>3, <1>6, DomainTypes DEF StartExecution, HoldExecutionOf
<1>7. CASE FinishExecution(c)
  BY <1>3, <1>7, DomainTypes DEF FinishExecution, HoldExecutionOf
<1>8. CASE CancelExecution(c)
  BY <1>3, <1>8, DomainTypes DEF CancelExecution, HoldExecutionOf
<1>9. CASE CompleteSubTask(c)
  BY <1>4, <1>9 DEF CompleteSubTask, HoldSubTaskOf, SubTaskComplete, SubTaskStatus
<1>10. CASE SkipSubTask(c)
  BY <1>4, <1>10 DEF SkipSubTask, HoldSubTaskOf, SubTaskSkip, SubTaskStatus
<1>11. CASE StartExecutionCount(c)
  BY <1>1, <1>2, <1>11, ReadTypes DEF StartExecutionCount
<1>12. buf[c].subTask \in SubTaskStatus /\ buf[c].execution \in ExecutionRow
  BY DEF Buffer
<1>13. CASE CreateExecutionWrite(c)
  <2>0. execution' \in [Episodes -> [SubTasks -> [Executions -> ExecutionRow]]]
    <3>1. PICK x \in Executions : execution' = [execution EXCEPT
              ![req[c].episode][req[c].subTask][x] = InitExecution]
      BY <1>13 DEF CreateExecutionWrite
    <3> QED BY <3>1, DomainTypes, ExecutionPut, Zenon
  <2>1. TablesOK' /\ RowsNamed'
    BY <1>12, <1>13, <2>0
       DEF CreateExecutionWrite, Respond, TypeInv, TypeOK, TablesOK, RowsNamed, EpisodeExists
  <2> QED BY <1>13, <2>1, RespondTypes DEF CreateExecutionWrite, TypeInv, TypeOK
<1>14. CASE ExecutionWrite(c)
  <2>0. execution' \in [Episodes -> [SubTasks -> [Executions -> ExecutionRow]]]
    BY <1>12, <1>14, ExecutionPut, Zenon DEF ExecutionWrite
  <2>1. TablesOK' /\ RowsNamed'
    BY <1>12, <1>14, <2>0
       DEF ExecutionWrite, Respond, TypeInv, TypeOK, TablesOK, RowsNamed, EpisodeExists
  <2> QED BY <1>14, <2>1, RespondTypes DEF ExecutionWrite, TypeInv, TypeOK
<1>15. CASE SubTaskWrite(c)
  <2>1. TablesOK' /\ RowsNamed'
    BY <1>12, <1>15
       DEF SubTaskWrite, Respond, TypeInv, TypeOK, TablesOK, RowsNamed, EpisodeExists
  <2> QED BY <1>15, <2>1, RespondTypes DEF SubTaskWrite, TypeInv, TypeOK
<1> QED BY <1>5, <1>6, <1>7, <1>8, <1>9, <1>10, <1>11, <1>13, <1>14, <1>15 DEF ExecutionStep

-----------------------------------------------------------------------------
(* Tasks *)

\* Requests on tasks.
LEMMA TaskStepTypes ==
    ASSUME TypeInv, NEW c \in Clients, TaskStep(c)
    PROVE  TypeInv'
<1> USE RowTypes, NoTypes DEF Steps
<1> USE DEF ClientNamed, RobotSteps, TaskSteps, ApproveSteps, SessionSteps, CreateSteps
<1>1. ASSUME NEW n \in Nat, NEW m \in Nat, NEW t \in TaskStatus
      PROVE  /\ [buf[c] EXCEPT !.actual = n] \in Buffer
             /\ [buf[c] EXCEPT !.target = m] \in Buffer
             /\ [buf[c] EXCEPT !.target = m, !.task = t] \in Buffer
             /\ [buf[c] EXCEPT !.task = t] \in Buffer
  BY DEF Buffer
<1>2. CASE UpdateTask(c)
  <2>1. PICK t \in Tasks, wanted \in TaskStatus, s \in {"updateTaskWrite", "updateTaskRead"} :
          Begin(c, "updateTask", TaskRequest(t, None), HoldTask(wanted), s)
    BY <1>2 DEF UpdateTask
  <2>2. ClientNamed(s, TaskRequest(t, None), HoldTask(wanted))
    BY DEF TaskRequest, NoRequest
  <2> QED BY <1>2, <2>1, <2>2, BeginTypes, RequestTypes DEF UpdateTask
<1>3. CASE Approve(c)
  <2>1. PICK t \in Tasks, v \in Versions :
          Begin(c, "approve", TaskRequest(t, v), NoBuffer, "approveWrite")
    BY <1>3 DEF Approve
  <2>2. ClientNamed("approveWrite", TaskRequest(t, v), NoBuffer)
    BY DEF TaskRequest, NoRequest
  <2> QED BY <1>3, <2>1, <2>2, BeginTypes, RequestTypes DEF Approve
<1>4. CASE UpdateTaskRead(c)
  BY <1>4, ReadTypes DEF UpdateTaskRead
<1>5. CASE UpdateTaskSum(c)
  BY <1>1, <1>5, ReadTypes, SumTypes DEF UpdateTaskSum
<1>6. CASE UpdateTaskTarget(c)
  BY <1>1, <1>6, ReadTypes, SumTypes, DomainTypes DEF UpdateTaskTarget
<1>7. CASE ApproveWrite(c)
  BY <1>1, <1>7, ReadTypes, SumTypes DEF ApproveWrite
<1>8. CASE ApproveTarget(c)
  <2>1. approved[req[c].task] \cup {req[c].version} \in SUBSET Versions
    BY <1>8 DEF ApproveTarget
  <2> QED BY <1>1, <1>8, <2>1, ReadTypes, SumTypes DEF ApproveTarget
<1>9. CASE ApproveTask(c)
  BY <1>1, <1>9, ReadTypes DEF ApproveTask
<1>10. CASE UpdateTaskWrite(c)
  <2>1. buf[c].task \in TaskStatus
    BY DEF Buffer
  <2>2. TablesOK' /\ RowsNamed'
    BY <1>10, <2>1
       DEF UpdateTaskWrite, Respond, TypeInv, TypeOK, TablesOK, RowsNamed, EpisodeExists
  <2> QED BY <1>10, <2>2, RespondTypes DEF UpdateTaskWrite, TypeInv, TypeOK
<1>11. CASE ApproveCommit(c)
  <2>1. task' \in [Tasks -> TaskStatus]
    BY <1>11, DomainTypes DEF ApproveCommit, WriteTaskStatus, TypeInv, TypeOK, TablesOK
  <2>2. approved' \in [Tasks -> SUBSET Versions]
    BY <1>11 DEF ApproveCommit, TypeInv, TypeOK, TablesOK
  <2>3. TablesOK' /\ RowsNamed'
    BY <1>11, <2>1, <2>2
       DEF ApproveCommit, Respond, TypeInv, TypeOK, TablesOK, RowsNamed, EpisodeExists
  <2> QED BY <1>11, <2>3, RespondTypes DEF ApproveCommit, TypeInv, TypeOK
<1> QED BY <1>2, <1>3, <1>4, <1>5, <1>6, <1>7, <1>8, <1>9, <1>10, <1>11 DEF TaskStep

-----------------------------------------------------------------------------
(* The theorem *)

\* The initial state.
LEMMA TypeInvInit == Init => TypeInv
<1> SUFFICES ASSUME Init PROVE TypeInv
  OBVIOUS
<1>1. TablesOK
  BY DomainTypes DEF Init, RequestsInit, TablesOK, TaskStatus
<1>2. ClientsOK
  BY NoTypes DEF Init, RequestsInit, ClientsOK, Steps
<1>3. RowsNamed
  BY DEF Init, RequestsInit, RowsNamed, EpisodeExists, NoEpisodeRow, EpisodeStatus
<1>4. ClientsNamed
  BY DEF Init, RequestsInit, ClientsNamed, ClientNamed, RobotSteps, TaskSteps,
         ApproveSteps, SessionSteps, CreateSteps
<1> QED BY <1>1, <1>2, <1>3, <1>4 DEF TypeInv, TypeOK

\* Every step.
LEMMA TypeInvNext == TypeInv /\ [Next]_vars => TypeInv'
<1> SUFFICES ASSUME TypeInv, [Next]_vars PROVE TypeInv'
  OBVIOUS
<1>1. ASSUME NEW c \in Clients, EpisodeStep(c) PROVE TypeInv'
  BY <1>1, EpisodeBeginTypes, EpisodeReadTypes, EpisodeWriteTypes DEF EpisodeStep
<1>2. ASSUME NEW c \in Clients, RollBack(c) PROVE TypeInv'
  <2>1. TablesOK' /\ RowsNamed'
    BY <1>2 DEF RollBack, Respond, TypeInv, TypeOK, TablesOK, RowsNamed, EpisodeExists, tables
  <2> QED BY <1>2, <2>1, RespondTypes DEF RollBack, TypeInv, TypeOK
<1>3. ASSUME NEW r \in Robots, Heartbeat(r) \/ HeartbeatExpires(r) PROVE TypeInv'
  <2>1. ClientsOK' /\ ClientsNamed'
    BY <1>3 DEF Heartbeat, HeartbeatExpires, clients, TypeInv, TypeOK, ClientsOK, ClientsNamed
  <2>2. TablesOK' /\ RowsNamed'
    BY <1>3 DEF Heartbeat, HeartbeatExpires, tables, TypeInv, TypeOK, TablesOK,
                RowsNamed, EpisodeExists
  <2> QED BY <2>1, <2>2 DEF TypeInv, TypeOK
<1>4. ASSUME UNCHANGED vars PROVE TypeInv'
  <2>1. ClientsOK' /\ ClientsNamed'
    BY <1>4 DEF vars, TypeInv, TypeOK, ClientsOK, ClientsNamed
  <2>2. TablesOK' /\ RowsNamed'
    BY <1>4 DEF vars, TypeInv, TypeOK, TablesOK, RowsNamed, EpisodeExists
  <2> QED BY <2>1, <2>2 DEF TypeInv, TypeOK
<1> QED BY <1>1, <1>2, <1>3, <1>4, RobotStepTypes, ExecutionStepTypes, TaskStepTypes DEF Next

\* The invariant, of every behaviour of Teleop.
LEMMA TypeInvariant == Spec => []TypeInv
<1> QED BY TypeInvInit, TypeInvNext, PTL DEF Spec

\* Every variable has its type in every state of every instance.
THEOREM TypeCorrect == Spec => []TypeOK
<1>1. TypeInv => TypeOK
  BY DEF TypeInv
<1> QED BY <1>1, TypeInvariant, PTL

-----------------------------------------------------------------------------
(***************************************************************************)
(* Whatever requests there are, edits in the console included.             *)
(***************************************************************************)

ClientStep(c) == EpisodeStep(c) \/ RobotStep(c) \/ ExecutionStep(c) \/ TaskStep(c) \/ RollBack(c)

\* A step of one client leaves the requests of the others alone.
LEMMA OtherClients ==
    ASSUME TypeInv, NEW c \in Clients, ClientStep(c), NEW d \in Clients \ {c}
    PROVE  pc'[d] = pc[d] /\ req'[d] = req[d] /\ buf'[d] = buf[d]
<1>0. pc \in [Clients -> Steps] /\ req \in [Clients -> Request] /\ buf \in [Clients -> Buffer]
  BY DEF TypeInv, TypeOK, ClientsOK
<1>1. ASSUME NEW k, NEW a, NEW b, NEW s, Begin(c, k, a, b, s)
      PROVE  pc'[d] = pc[d] /\ req'[d] = req[d] /\ buf'[d] = buf[d]
  BY <1>0, <1>1 DEF Begin
<1>2. ASSUME NEW b, NEW s, Read(c, b, s)
      PROVE  pc'[d] = pc[d] /\ req'[d] = req[d] /\ buf'[d] = buf[d]
  BY <1>0, <1>2 DEF Read
<1>3. ASSUME Respond(c)
      PROVE  pc'[d] = pc[d] /\ req'[d] = req[d] /\ buf'[d] = buf[d]
  BY <1>0, <1>3 DEF Respond
<1>4. CASE EpisodeStep(c)
  <2>1. CASE \/ Create(c) \/ RepeatLast(c) \/ Start(c) \/ Finish(c) \/ Cancel(c)
             \/ UpdateEpisode(c)
    BY <1>1, <2>1, Zenon DEF Create, RepeatLast, Start, Finish, Cancel, UpdateEpisode
  <2>2. CASE \/ CreateRobot(c) \/ RepeatRobot(c) \/ StartRobot(c) \/ FinishRobot(c)
             \/ CancelRobot(c) \/ FinishWrite(c) \/ FinishTarget(c) \/ FinishTask(c)
    BY <1>2, <2>2, Zenon
       DEF CreateRobot, RepeatRobot, BulkCreateRobot, StartRobot, FinishRobot, CancelRobot,
           EndRobot, FinishWrite, FinishTarget, FinishTask
  <2>3. CASE \/ CreateWrite(c) \/ RepeatWrite(c) \/ StartWrite(c) \/ FinishCommit(c)
             \/ CancelWrite(c) \/ UpdateEpisodeWrite(c)
    BY <1>3, <2>3, Zenon
       DEF CreateWrite, RepeatWrite, StartWrite, FinishCommit, CancelWrite, UpdateEpisodeWrite
  <2>4. CASE RepeatList(c)
    BY <1>0, <2>4 DEF RepeatList
  <2>5. CASE DeleteEpisode(c)
    BY <2>5 DEF DeleteEpisode, clients
  <2> QED BY <1>4, <2>1, <2>2, <2>3, <2>4, <2>5 DEF EpisodeStep
<1>5. CASE RobotStep(c)
  BY <1>1, <1>3, <1>5, Zenon
     DEF RobotStep, UpdateRobot, UpdateRobotWrite, DeleteRobot, DeleteRobotWrite
<1>6. CASE ExecutionStep(c)
  BY <1>1, <1>2, <1>3, <1>6, Zenon
     DEF ExecutionStep, CreateExecution, CreateExecutionWrite, StartExecution,
         StartExecutionCount, FinishExecution, CancelExecution, HoldExecutionOf,
         ExecutionWrite, CompleteSubTask, SkipSubTask, HoldSubTaskOf, SubTaskWrite
<1>7. CASE TaskStep(c)
  BY <1>1, <1>2, <1>3, <1>7, Zenon
     DEF TaskStep, UpdateTask, UpdateTaskRead, UpdateTaskSum, UpdateTaskTarget,
         UpdateTaskWrite, Approve, ApproveWrite, ApproveTarget, ApproveTask, ApproveCommit
<1>8. CASE RollBack(c)
  BY <1>3, <1>8 DEF RollBack
<1> QED BY <1>4, <1>5, <1>6, <1>7, <1>8 DEF ClientStep

\* Statements that neither write an episode or a robot nor lead to one that
\* does with rows of the request.
HoldingSteps == SessionSteps \cup {"updateRobotWrite", "deleteRobotWrite"}

QuietStep(c) ==
    \/ Create(c) \/ CreateRobot(c) \/ RepeatLast(c) \/ RepeatList(c) \/ RepeatRobot(c)
    \/ ExecutionStep(c) \/ TaskStep(c) \/ RollBack(c)

\* Steps that touch neither robots nor episodes.
LEMMA QuietSteps ==
    ASSUME TypeInv, NEW c \in Clients, QuietStep(c)
    PROVE  episode' = episode /\ robot' = robot /\ pc'[c] \notin HoldingSteps
<1> USE DEF HoldingSteps, SessionSteps
<1>0. pc \in [Clients -> Steps]
  BY DEF TypeInv, TypeOK, ClientsOK
<1>1. ASSUME NEW k, NEW a, NEW b, NEW s, s \notin HoldingSteps, Begin(c, k, a, b, s)
      PROVE  pc'[c] \notin HoldingSteps
  BY <1>0, <1>1 DEF Begin
<1>2. ASSUME NEW b, NEW s, s \notin HoldingSteps, Read(c, b, s)
      PROVE  episode' = episode /\ robot' = robot /\ pc'[c] \notin HoldingSteps
  BY <1>0, <1>2 DEF Read, tables
<1>3. ASSUME Respond(c)
      PROVE  pc'[c] \notin HoldingSteps
  BY <1>0, <1>3 DEF Respond
<1>4. CASE Create(c) \/ RepeatLast(c)
  BY <1>1, <1>4 DEF Create, RepeatLast, tables
<1>5. CASE CreateRobot(c) \/ RepeatRobot(c)
  BY <1>2, <1>5 DEF CreateRobot, RepeatRobot, BulkCreateRobot
<1>6. CASE RepeatList(c)
  BY <1>0, <1>6 DEF RepeatList, tables
<1>7. CASE ExecutionStep(c)
  <2>1. CASE \/ CreateExecution(c) \/ StartExecution(c) \/ FinishExecution(c)
             \/ CancelExecution(c) \/ CompleteSubTask(c) \/ SkipSubTask(c)
    BY <1>1, <2>1
       DEF CreateExecution, StartExecution, FinishExecution, CancelExecution,
           HoldExecutionOf, CompleteSubTask, SkipSubTask, HoldSubTaskOf, tables
  <2>2. CASE StartExecutionCount(c)
    BY <1>2, <2>2 DEF StartExecutionCount
  <2>3. CASE CreateExecutionWrite(c) \/ ExecutionWrite(c) \/ SubTaskWrite(c)
    BY <1>3, <2>3 DEF CreateExecutionWrite, ExecutionWrite, SubTaskWrite
  <2> QED BY <1>7, <2>1, <2>2, <2>3 DEF ExecutionStep
<1>8. CASE TaskStep(c)
  <2>1. CASE UpdateTask(c) \/ Approve(c)
    BY <1>1, <2>1 DEF UpdateTask, Approve, tables
  <2>2. CASE \/ UpdateTaskRead(c) \/ UpdateTaskSum(c) \/ UpdateTaskTarget(c)
             \/ ApproveWrite(c) \/ ApproveTarget(c) \/ ApproveTask(c)
    BY <1>2, <2>2
       DEF UpdateTaskRead, UpdateTaskSum, UpdateTaskTarget, ApproveWrite, ApproveTarget,
           ApproveTask
  <2>3. CASE UpdateTaskWrite(c) \/ ApproveCommit(c)
    BY <1>3, <2>3 DEF UpdateTaskWrite, ApproveCommit
  <2> QED BY <1>8, <2>1, <2>2, <2>3 DEF TaskStep
<1>9. CASE RollBack(c)
  BY <1>3, <1>9 DEF RollBack, tables
<1> QED BY <1>4, <1>5, <1>6, <1>7, <1>8, <1>9 DEF QuietStep

-----------------------------------------------------------------------------
(* No interleaving, not even with the console's edits, gives a robot two    *)
(* recording episodes or an incoherent row.  The rows that requests hold    *)
(* are part of the invariant: they are written back whole.                  *)

RowCoherent(rob) == /\ rob.status = "busy" <=> rob.active # NoEpisode
                    /\ rob.faultSince <=> rob.status = "faulted"

FinishSteps == {"finishRobot", "finishWrite", "finishTarget", "finishTask", "finishCommit"}
RowWriters  == {"startWrite", "finishWrite", "finishTarget", "finishTask", "finishCommit",
                "cancelWrite", "updateRobotWrite"}

CoherentRequest(p, b) == /\ p \in RowWriters => RowCoherent(b.robot)
                         /\ p \in FinishSteps => b.episode.status = "completed"

CoherentInv ==
    /\ TypeInv
    /\ OneRecording
    /\ RobotRowCoherent
    /\ \A c \in Clients : CoherentRequest(pc[c], buf[c])

\* Start, Finish, Cancel and the manual changes of status keep a row coherent.
LEMMA CoherentRows ==
    ASSUME NEW rob \in RobotRow, RowCoherent(rob)
    PROVE  /\ \A hb \in BOOLEAN, e \in Episodes :
                CanStartTeleoperation(ResolvedStatus(rob, hb)) =>
                   RowCoherent(StartTeleoperation(ResolvedStatus(rob, hb), e))
           /\ CanEndTeleoperation(rob) => RowCoherent(EndTeleoperation(rob))
           /\ \A w \in ManualStatus :
                CanSetStatus(rob, w) => RowCoherent(SetStatus(rob, w))
<1>1. ASSUME NEW hb \in BOOLEAN, NEW e \in Episodes,
             CanStartTeleoperation(ResolvedStatus(rob, hb))
      PROVE  RowCoherent(StartTeleoperation(ResolvedStatus(rob, hb), e))
  BY <1>1, DomainTypes
     DEF RobotRow, StoredStatus, RowCoherent, CanStartTeleoperation, ResolvedStatus,
         StartTeleoperation
<1>2. CanEndTeleoperation(rob) => RowCoherent(EndTeleoperation(rob))
  BY DEF RobotRow, RowCoherent, CanEndTeleoperation, EndTeleoperation
<1>3. ASSUME NEW w \in ManualStatus, CanSetStatus(rob, w)
      PROVE  RowCoherent(SetStatus(rob, w))
  BY <1>3 DEF RobotRow, RowCoherent, CanSetStatus, SetStatus, ManualStatus
<1> QED BY <1>1, <1>2, <1>3

\* The statements of the tables that can touch the two invariants.
LEMMA CoherentTables ==
    ASSUME CoherentInv, NEW c \in Clients, ClientStep(c)
    PROVE  OneRecording' /\ RobotRowCoherent'
<1> USE RowTypes DEF CoherentInv
<1>0. /\ episode \in [Episodes -> EpisodeRow]
      /\ robot \in [Robots -> RobotRow]
  BY DEF TypeInv, TypeOK, TablesOK
<1>1. ASSUME episode' = episode PROVE OneRecording'
  BY <1>1 DEF OneRecording, Recording
<1>2. ASSUME robot' = robot PROVE RobotRowCoherent'
  BY <1>2 DEF RobotRowCoherent, RobotExists, Busy
<1>3. ASSUME NEW e, NEW ep, OneRecordingPerRobot(e, ep), episode' = [episode EXCEPT ![e] = ep]
      PROVE  OneRecording'
  BY <1>0, <1>3 DEF OneRecording, Recording, OneRecordingPerRobot
<1>4. ASSUME NEW r, NEW rob, RowCoherent(rob), robot' = [robot EXCEPT ![r] = rob]
      PROVE  RobotRowCoherent'
  BY <1>0, <1>4 DEF RobotRowCoherent, RobotExists, Busy, RowCoherent
<1>5. ASSUME NEW S, NEW r, NEW t, InsertEpisodes(S, r, t)
      PROVE  OneRecording' /\ RobotRowCoherent'
  <2>1. OneRecording'
    BY <1>0, <1>5 DEF InsertEpisodes, InitEpisode, OneRecording, Recording
  <2> QED BY <1>2, <1>5, <2>1 DEF InsertEpisodes
<1>6. CASE CreateWrite(c) \/ RepeatWrite(c)
  BY <1>5, <1>6 DEF CreateWrite, RepeatWrite
<1>7. CASE WriteEpisodeAndRobot(c) /\ pc[c] \in RowWriters
  <2>1. /\ OneRecordingPerRobot(req[c].episode, buf[c].episode)
        /\ episode' = [episode EXCEPT ![req[c].episode] = buf[c].episode]
        /\ robot' = [robot EXCEPT ![req[c].robot] = buf[c].robot]
        /\ RowCoherent(buf[c].robot)
    BY <1>7 DEF WriteEpisodeAndRobot, CoherentRequest
  <2> QED BY <1>3, <1>4, <2>1
<1>8. CASE StartWrite(c) \/ CancelWrite(c)
  BY <1>7, <1>8 DEF StartWrite, CancelWrite, RowWriters
<1>9. CASE FinishCommit(c)
  <2>1. /\ buf[c].episode.status = "completed"
        /\ episode' = [episode EXCEPT ![req[c].episode] = buf[c].episode]
        /\ robot' = [robot EXCEPT ![req[c].robot] = buf[c].robot]
        /\ RowCoherent(buf[c].robot)
    BY <1>9 DEF FinishCommit, CoherentRequest, FinishSteps, RowWriters
  <2>2. OneRecordingPerRobot(req[c].episode, buf[c].episode)
    BY <2>1 DEF OneRecordingPerRobot
  <2> QED BY <1>3, <1>4, <2>1, <2>2
<1>10. CASE UpdateEpisodeWrite(c)
  BY <1>2, <1>3, <1>10 DEF UpdateEpisodeWrite
<1>11. CASE DeleteEpisode(c)
  <2>1. PICK e \in Episodes :
          episode' = [episode EXCEPT ![e] = [NoEpisodeRow EXCEPT !.status = "deleted"]]
    BY <1>11 DEF DeleteEpisode
  <2>2. OneRecordingPerRobot(e, [NoEpisodeRow EXCEPT !.status = "deleted"])
    BY DEF OneRecordingPerRobot, NoEpisodeRow
  <2>3. OneRecording'
    BY <1>3, <2>1, <2>2
  <2> QED BY <1>2, <1>11, <2>3 DEF DeleteEpisode
<1>12. CASE UpdateRobotWrite(c)
  BY <1>1, <1>4, <1>12 DEF UpdateRobotWrite, CoherentRequest, RowWriters
<1>13. CASE DeleteRobotWrite(c)
  <2>1. RobotRowCoherent'
    BY <1>0, <1>13 DEF DeleteRobotWrite, RobotRowCoherent, RobotExists, Busy, RobotRow,
                       StoredStatus
  <2> QED BY <1>1, <1>13, <2>1 DEF DeleteRobotWrite
<1>14. CASE \/ Start(c) \/ Finish(c) \/ Cancel(c)
            \/ UpdateEpisode(c) \/ UpdateRobot(c) \/ DeleteRobot(c)
  BY <1>1, <1>2, <1>14
     DEF Start, Finish, Cancel, UpdateEpisode, UpdateRobot, DeleteRobot, tables
<1>15. CASE \/ StartRobot(c) \/ FinishRobot(c) \/ CancelRobot(c)
            \/ FinishWrite(c) \/ FinishTarget(c) \/ FinishTask(c)
  BY <1>1, <1>2, <1>15
     DEF StartRobot, FinishRobot, CancelRobot, EndRobot, FinishWrite, FinishTarget,
         FinishTask, Read, tables
<1>16. CASE QuietStep(c)
  BY <1>1, <1>2, <1>16, QuietSteps
<1> QED BY <1>6, <1>8, <1>9, <1>10, <1>11, <1>12, <1>13, <1>14, <1>15, <1>16
        DEF ClientStep, EpisodeStep, RobotStep, QuietStep

\* The rows the stepping request holds from here on.
LEMMA CoherentRequests ==
    ASSUME CoherentInv, NEW c \in Clients, ClientStep(c)
    PROVE  CoherentRequest(pc'[c], buf'[c])
<1> USE RowTypes DEF CoherentInv
<1>0. pc \in [Clients -> Steps] /\ buf \in [Clients -> Buffer]
  BY DEF TypeInv, TypeOK, ClientsOK
<1>1. \A b : \A p : p \notin HoldingSteps => CoherentRequest(p, b)
  BY DEF CoherentRequest, HoldingSteps, SessionSteps, RowWriters, FinishSteps
<1>2. CASE Respond(c)
  BY <1>0, <1>1, <1>2 DEF Respond, HoldingSteps, SessionSteps
<1>3. CASE Start(c) \/ Cancel(c) \/ UpdateEpisode(c) \/ DeleteRobot(c)
  <2>1. pc'[c] \in {"startRobot", "cancelRobot", "updateEpisodeWrite", "deleteRobotWrite"}
    BY <1>0, <1>3 DEF Start, Cancel, UpdateEpisode, DeleteRobot, Begin
  <2> QED BY <2>1 DEF CoherentRequest, RowWriters, FinishSteps
<1>4. CASE Finish(c)
  <2>1. PICK e \in Episodes : Begin(c, "finish", EpisodeRequest(c, e),
                                  HoldEpisode(EpisodeFinish(episode[e])), "finishRobot")
    BY <1>4 DEF Finish
  <2>2. pc'[c] = "finishRobot" /\ buf'[c] = HoldEpisode(EpisodeFinish(episode[e]))
    BY <1>0, <2>1 DEF Begin
  <2>3. HoldEpisode(EpisodeFinish(episode[e])).episode.status = "completed"
    BY DEF HoldEpisode, NoBuffer, EpisodeFinish, EpisodeRow
  <2> QED BY <2>2, <2>3 DEF CoherentRequest, RowWriters
<1>5. CASE StartRobot(c)
  <2> DEFINE rob == ResolvedStatus(robot[req[c].robot], heartbeat[req[c].robot])
  <2>1. /\ pc[c] = "startRobot"
        /\ RobotExists(req[c].robot)
        /\ CanStartTeleoperation(rob)
        /\ pc'[c] = "startWrite"
        /\ buf'[c] = [buf[c] EXCEPT !.robot = StartTeleoperation(rob, req[c].episode)]
    BY <1>0, <1>5 DEF StartRobot, Read
  <2>2. req[c].robot \in Robots /\ req[c].episode \in Episodes
    BY <2>1 DEF ClientNamed, RobotSteps, SessionSteps
  <2>3. RowCoherent(robot[req[c].robot])
    BY <2>1, <2>2 DEF RobotRowCoherent, Busy, RowCoherent
  <2>4. RowCoherent(StartTeleoperation(rob, req[c].episode))
    BY <2>1, <2>2, <2>3, CoherentRows
  <2>5. buf'[c].robot = StartTeleoperation(rob, req[c].episode)
    BY <2>1 DEF Buffer
  <2> QED BY <2>1, <2>4, <2>5 DEF CoherentRequest, FinishSteps
<1>6. CASE FinishRobot(c) \/ CancelRobot(c)
  <2> DEFINE rob == robot[req[c].robot]
  <2>1. /\ pc[c] \in {"finishRobot", "cancelRobot"}
        /\ pc'[c] = IF pc[c] = "finishRobot" THEN "finishWrite" ELSE "cancelWrite"
        /\ RobotExists(req[c].robot)
        /\ CanEndTeleoperation(rob)
        /\ buf'[c] = [buf[c] EXCEPT !.robot = EndTeleoperation(rob)]
    BY <1>0, <1>6 DEF FinishRobot, CancelRobot, EndRobot, Read
  <2>2. req[c].robot \in Robots
    BY <2>1 DEF ClientNamed, RobotSteps, SessionSteps
  <2>3. RowCoherent(rob)
    BY <2>1, <2>2 DEF RobotRowCoherent, Busy, RowCoherent
  <2>4. RowCoherent(EndTeleoperation(rob))
    BY <2>1, <2>2, <2>3, CoherentRows
  <2>5. /\ buf'[c].robot = EndTeleoperation(rob)
        /\ buf'[c].episode = buf[c].episode
    BY <2>1 DEF Buffer
  <2> QED BY <2>1, <2>4, <2>5 DEF CoherentRequest, FinishSteps
<1>7. CASE FinishWrite(c) \/ FinishTarget(c) \/ FinishTask(c)
  <2>1. /\ pc[c] \in {"finishWrite", "finishTarget", "finishTask"}
        /\ buf'[c].robot = buf[c].robot
        /\ buf'[c].episode = buf[c].episode
    BY <1>0, <1>7 DEF FinishWrite, FinishTarget, FinishTask, Read, Buffer
  <2> QED BY <2>1 DEF CoherentRequest, FinishSteps, RowWriters
<1>8. CASE UpdateRobot(c)
  <2>1. PICK r \in Robots : /\ RobotExists(r)
                          /\ \E row \in {robot[r]} \cup {SetStatus(robot[r], wanted) :
                                 wanted \in {w \in ManualStatus : CanSetStatus(robot[r], w)}} :
                               Begin(c, "updateRobot", RobotRequest(r), HoldRobot(row),
                                     "updateRobotWrite")
    BY <1>8 DEF UpdateRobot
  <2>2. RowCoherent(robot[r])
    BY <2>1 DEF RobotRowCoherent, Busy, RowCoherent
  <2>3. PICK row : /\ RowCoherent(row)
                   /\ Begin(c, "updateRobot", RobotRequest(r), HoldRobot(row),
                            "updateRobotWrite")
    BY <2>1, <2>2, CoherentRows
  <2>4. pc'[c] = "updateRobotWrite" /\ buf'[c] = HoldRobot(row)
    BY <1>0, <2>3 DEF Begin
  <2>5. HoldRobot(row).robot = row
    BY DEF HoldRobot, NoBuffer
  <2> QED BY <2>3, <2>4, <2>5 DEF CoherentRequest, FinishSteps
<1>9. CASE QuietStep(c)
  BY <1>1, <1>9, QuietSteps
<1>10. CASE DeleteEpisode(c)
  BY <1>10 DEF DeleteEpisode, clients
<1>11. CASE \/ CreateWrite(c) \/ RepeatWrite(c) \/ StartWrite(c) \/ FinishCommit(c)
            \/ CancelWrite(c) \/ UpdateEpisodeWrite(c) \/ UpdateRobotWrite(c)
            \/ DeleteRobotWrite(c)
  BY <1>2, <1>11
     DEF CreateWrite, RepeatWrite, StartWrite, FinishCommit, CancelWrite,
         UpdateEpisodeWrite, UpdateRobotWrite, DeleteRobotWrite
<1> QED BY <1>3, <1>4, <1>5, <1>6, <1>7, <1>8, <1>9, <1>10, <1>11
        DEF ClientStep, EpisodeStep, RobotStep, QuietStep

\* The invariant, of every behaviour of Teleop.
LEMMA CoherentInvariant == Spec => []CoherentInv
<1>1. Init => CoherentInv
  <2> SUFFICES ASSUME Init PROVE CoherentInv
    OBVIOUS
  <2>1. OneRecording
    BY DEF Init, RequestsInit, OneRecording, Recording, NoEpisodeRow
  <2>2. RobotRowCoherent
    BY DEF Init, RequestsInit, RobotRowCoherent, InitRobot, Busy
  <2>3. \A c \in Clients : CoherentRequest(pc[c], buf[c])
    BY DEF Init, RequestsInit, CoherentRequest, FinishSteps, RowWriters
  <2> QED BY <2>1, <2>2, <2>3, TypeInvInit DEF CoherentInv
<1>2. CoherentInv /\ [Next]_vars => CoherentInv'
  <2> SUFFICES ASSUME CoherentInv, [Next]_vars PROVE CoherentInv'
    OBVIOUS
  <2>1. TypeInv'
    BY TypeInvNext DEF CoherentInv
  <2>2. ASSUME NEW c \in Clients, ClientStep(c) PROVE CoherentInv'
    <3>1. OneRecording' /\ RobotRowCoherent'
      BY <2>2, CoherentTables
    <3>2. ASSUME NEW d \in Clients PROVE CoherentRequest(pc'[d], buf'[d])
      <4>1. CASE d = c
        BY <2>2, <4>1, CoherentRequests
      <4>2. CASE d # c
        BY <2>2, <4>2, OtherClients DEF CoherentInv
      <4> QED BY <4>1, <4>2
    <3> QED BY <2>1, <3>1, <3>2 DEF CoherentInv
  <2>3. ASSUME UNCHANGED <<episode, robot, pc, buf>> PROVE CoherentInv'
    BY <2>1, <2>3 DEF CoherentInv, OneRecording, Recording, RobotRowCoherent, RobotExists, Busy
  <2>4. ASSUME NEW r \in Robots, Heartbeat(r) \/ HeartbeatExpires(r) PROVE CoherentInv'
    BY <2>3, <2>4 DEF Heartbeat, HeartbeatExpires, tables, clients
  <2> QED BY <2>2, <2>3, <2>4 DEF Next, ClientStep, vars
<1> QED BY <1>1, <1>2, PTL DEF Spec

\* A robot records one episode at most, whatever overlaps.
THEOREM OneRecordingAlways == Spec => []OneRecording
<1>1. CoherentInv => OneRecording
  BY DEF CoherentInv
<1> QED BY <1>1, CoherentInvariant, PTL

\* A robot's row is coherent, whatever overlaps.
THEOREM RobotRowAlwaysCoherent == Spec => []RobotRowCoherent
<1>1. CoherentInv => RobotRowCoherent
  BY DEF CoherentInv
<1> QED BY <1>1, CoherentInvariant, PTL

-----------------------------------------------------------------------------
(***************************************************************************)
(* Nobody edits a robot or an episode by hand: however the requests of the *)
(* robot API overlap, a Busy robot is recording the episode it names.      *)
(***************************************************************************)

NoConsoleEdits ==
    \A c \in Clients : Issues[c] \cap {"updateEpisode", "deleteEpisode", "updateRobot"} = {}

\* The inductive invariant.  Start, Finish and Cancel write back what they hold
\* long after they read it, so the invariant says what that is; and they find
\* the episode still there, and still the same robot's.

RowFits(ep) == /\ ep.started <=> ep.status \in {"recording", "cancel", "completed"}
               /\ ep.finished <=> ep.status = "completed"

StartSteps == {"startRobot", "startWrite"}
EndSteps   == SessionSteps \ (StartSteps \cup {"updateEpisodeWrite"})

EpisodeOf(e, r) == EpisodeExists(e) /\ episode[e].robot = r

HeldRows(p, q, b) ==
    /\ p \notin {"updateEpisodeWrite", "updateRobotWrite"}
    /\ p \in SessionSteps => b.episode.robot = q.robot /\ RowFits(b.episode)
    /\ p \in StartSteps => b.episode.status = "recording"
    /\ p = "startWrite" => b.robot.active = q.episode
    /\ p \in EndSteps => b.episode.status \in {"completed", "cancel"}
    /\ p \in EndSteps \ {"finishRobot", "cancelRobot"} => b.robot.status = "ready"

SessionInv ==
    /\ TypeInv
    /\ BusyImpliesRecording
    /\ EpisodeRowCoherent
    /\ \A c \in Clients : HeldRows(pc[c], req[c], buf[c])
    /\ \A c \in Clients : pc[c] \in SessionSteps => EpisodeOf(req[c].episode, req[c].robot)

-----------------------------------------------------------------------------

\* Start, Finish and Cancel keep the times of an episode in step with its status.
LEMMA EpisodeFits ==
    ASSUME NEW ep \in EpisodeRow, RowFits(ep)
    PROVE  /\ EpisodeCanStart(ep) => RowFits(EpisodeStart(ep))
           /\ EpisodeCanFinish(ep) => RowFits(EpisodeFinish(ep))
           /\ EpisodeCanCancel(ep) => RowFits(EpisodeCancel(ep))
BY DEF EpisodeRow, RowFits, EpisodeCanStart, EpisodeStart, EpisodeCanFinish, EpisodeFinish,
       EpisodeCanCancel, EpisodeCancel

\* A row of an episode is written over by a row of the same robot: the episode
\* stays, and stays the robot's.
LEMMA EpisodesStay ==
    ASSUME SessionInv, NoConsoleEdits, NEW c \in Clients, ClientStep(c),
           NEW e \in Episodes, NEW r, EpisodeOf(e, r)
    PROVE  EpisodeOf(e, r)'
<1> USE RowTypes DEF SessionInv
<1>0. episode \in [Episodes -> EpisodeRow] /\ pc \in [Clients -> Steps]
  BY DEF TypeInv, TypeOK, TablesOK, ClientsOK
<1>1. CASE episode' = episode
  BY <1>1 DEF EpisodeOf, EpisodeExists
<1>2. ASSUME NEW S, NEW s, NEW t, S \subseteq Absent, InsertEpisodes(S, s, t)
      PROVE  EpisodeOf(e, r)'
  <2>1. e \notin S
    BY <1>2 DEF Absent, EpisodeOf, EpisodeExists, EpisodeStatus
  <2>2. episode'[e] = episode[e]
    BY <1>2, <2>1 DEF InsertEpisodes
  <2> QED BY <2>2 DEF EpisodeOf, EpisodeExists
<1>3. CASE CreateWrite(c) \/ RepeatWrite(c)
  BY <1>2, <1>3 DEF CreateWrite, RepeatWrite, NextEpisodes
<1>4. CASE /\ pc[c] \in {"startWrite", "finishCommit", "cancelWrite"}
           /\ episode' = [episode EXCEPT ![req[c].episode] = buf[c].episode]
  <2>1. /\ EpisodeOf(req[c].episode, req[c].robot)
        /\ buf[c].episode.robot = req[c].robot
        /\ buf[c].episode.status \in EpisodeStatus
    BY <1>4 DEF HeldRows, SessionSteps, StartSteps, EndSteps, EpisodeStatus
  <2> QED BY <1>0, <1>4, <2>1 DEF EpisodeOf, EpisodeExists
<1>5. CASE StartWrite(c) \/ FinishCommit(c) \/ CancelWrite(c)
  BY <1>4, <1>5 DEF StartWrite, FinishCommit, CancelWrite, WriteEpisodeAndRobot
<1>6. CASE \/ Start(c) \/ Finish(c) \/ Cancel(c)
           \/ UpdateEpisode(c) \/ UpdateRobot(c) \/ DeleteRobot(c)
  BY <1>1, <1>6 DEF Start, Finish, Cancel, UpdateEpisode, UpdateRobot, DeleteRobot, tables
<1>7. CASE \/ StartRobot(c) \/ FinishRobot(c) \/ CancelRobot(c)
           \/ FinishWrite(c) \/ FinishTarget(c) \/ FinishTask(c)
  BY <1>1, <1>7
     DEF StartRobot, FinishRobot, CancelRobot, EndRobot, FinishWrite, FinishTarget,
         FinishTask, Read, tables
<1>8. CASE UpdateEpisodeWrite(c)
  BY <1>8 DEF UpdateEpisodeWrite, HeldRows
<1>9. CASE DeleteEpisode(c)
  BY <1>9 DEF DeleteEpisode, NoConsoleEdits
<1>10. CASE UpdateRobotWrite(c) \/ DeleteRobotWrite(c)
  BY <1>1, <1>10 DEF UpdateRobotWrite, DeleteRobotWrite
<1>11. CASE QuietStep(c)
  BY <1>1, <1>11, QuietSteps
<1> QED BY <1>3, <1>5, <1>6, <1>7, <1>8, <1>9, <1>10, <1>11
        DEF ClientStep, EpisodeStep, RobotStep, QuietStep

\* What the statements that write tables keep true of them.
LEMMA SessionTables ==
    ASSUME SessionInv, NoConsoleEdits, NEW c \in Clients, ClientStep(c)
    PROVE  BusyImpliesRecording' /\ EpisodeRowCoherent'
<1> USE RowTypes DEF SessionInv
<1>0. /\ episode \in [Episodes -> EpisodeRow]
      /\ robot \in [Robots -> RobotRow]
      /\ pc \in [Clients -> Steps]
  BY DEF TypeInv, TypeOK, TablesOK, ClientsOK
<1>1. CASE episode' = episode /\ robot' = robot
  BY <1>1 DEF BusyImpliesRecording, Busy, Recording, EpisodeRowCoherent
<1>2. ASSUME NEW S, NEW s, NEW t, S \subseteq Absent, InsertEpisodes(S, s, t)
      PROVE  BusyImpliesRecording' /\ EpisodeRowCoherent'
  <2>1. \A e \in Episodes : episode'[e] = IF e \in S THEN InitEpisode(s, t) ELSE episode[e]
    BY <1>2 DEF InsertEpisodes
  <2>2. \A e \in S : episode[e].status = "absent"
    BY <1>2 DEF Absent
  <2>3. robot' = robot
    BY <1>2 DEF InsertEpisodes
  <2>4. BusyImpliesRecording'
    BY <2>1, <2>2, <2>3 DEF BusyImpliesRecording, Busy, Recording
  <2>5. EpisodeRowCoherent'
    BY <2>1 DEF EpisodeRowCoherent, InitEpisode
  <2> QED BY <2>4, <2>5
<1>3. CASE CreateWrite(c) \/ RepeatWrite(c)
  BY <1>2, <1>3 DEF CreateWrite, RepeatWrite, NextEpisodes
<1>4. ASSUME NEW e \in Episodes, NEW r \in Robots, NEW ep \in EpisodeRow, NEW rob \in RobotRow,
             RowFits(ep), ep.robot = r, EpisodeOf(e, r),
             \/ rob.status = "ready"
             \/ rob.active = e /\ ep.status = "recording",
             episode' = [episode EXCEPT ![e] = ep], robot' = [robot EXCEPT ![r] = rob]
      PROVE  BusyImpliesRecording' /\ EpisodeRowCoherent'
  <2>1. /\ \A f \in Episodes : episode'[f] = IF f = e THEN ep ELSE episode[f]
        /\ \A s \in Robots : robot'[s] = IF s = r THEN rob ELSE robot[s]
    BY <1>0, <1>4
  <2>2. EpisodeRowCoherent'
    BY <2>1, <1>4 DEF EpisodeRowCoherent, RowFits
  <2>3. ASSUME NEW s \in Robots, Busy(s)'
        PROVE  (robot[s].active \in Episodes /\ Recording(robot[s].active, s))'
    <3>1. CASE s = r
      BY <1>4, <2>1, <2>3, <3>1 DEF Busy, Recording
    <3>2. CASE s # r
      <4>1. /\ robot'[s] = robot[s]
            /\ robot[s].active \in Episodes
            /\ Recording(robot[s].active, s)
        BY <2>1, <2>3, <3>2 DEF Busy, BusyImpliesRecording
      <4>2. robot[s].active # e
        BY <1>4, <3>2, <4>1 DEF Recording, EpisodeOf
      <4> QED BY <2>1, <4>1, <4>2 DEF Recording
    <3> QED BY <3>1, <3>2
  <2> QED BY <2>2, <2>3 DEF BusyImpliesRecording
<1>5. CASE /\ pc[c] \in {"startWrite", "finishCommit", "cancelWrite"}
           /\ episode' = [episode EXCEPT ![req[c].episode] = buf[c].episode]
           /\ robot' = [robot EXCEPT ![req[c].robot] = buf[c].robot]
  <2>1. HeldRows(pc[c], req[c], buf[c]) /\ EpisodeOf(req[c].episode, req[c].robot)
    BY <1>5 DEF SessionSteps
  <2>2. /\ req[c].episode \in Episodes /\ req[c].robot \in Robots
        /\ buf[c].episode \in EpisodeRow /\ buf[c].robot \in RobotRow
    BY <1>5 DEF ClientNamed, RobotSteps, SessionSteps, Buffer
  <2>3. buf[c].episode.robot = req[c].robot /\ RowFits(buf[c].episode)
    BY <1>5, <2>1 DEF HeldRows, SessionSteps
  <2>4. \/ buf[c].robot.status = "ready"
        \/ buf[c].robot.active = req[c].episode /\ buf[c].episode.status = "recording"
    BY <1>5, <2>1 DEF HeldRows, StartSteps, EndSteps, SessionSteps
  <2> QED BY <1>4, <1>5, <2>1, <2>2, <2>3, <2>4
<1>6. CASE StartWrite(c) \/ FinishCommit(c) \/ CancelWrite(c)
  BY <1>5, <1>6 DEF StartWrite, FinishCommit, CancelWrite, WriteEpisodeAndRobot
<1>7. CASE \/ Start(c) \/ Finish(c) \/ Cancel(c)
           \/ UpdateEpisode(c) \/ UpdateRobot(c) \/ DeleteRobot(c)
  BY <1>1, <1>7 DEF Start, Finish, Cancel, UpdateEpisode, UpdateRobot, DeleteRobot, tables
<1>8. CASE \/ StartRobot(c) \/ FinishRobot(c) \/ CancelRobot(c)
           \/ FinishWrite(c) \/ FinishTarget(c) \/ FinishTask(c)
  BY <1>1, <1>8
     DEF StartRobot, FinishRobot, CancelRobot, EndRobot, FinishWrite, FinishTarget,
         FinishTask, Read, tables
<1>9. CASE UpdateEpisodeWrite(c) \/ UpdateRobotWrite(c)
  BY <1>9 DEF UpdateEpisodeWrite, UpdateRobotWrite, HeldRows
<1>10. CASE DeleteEpisode(c)
  BY <1>10 DEF DeleteEpisode, NoConsoleEdits
<1>11. CASE DeleteRobotWrite(c)
  <2>1. \A r \in Robots : robot'[r].status = "busy" => robot'[r] = robot[r]
    <3>1. \A rob \in RobotRow : [rob EXCEPT !.status = "deleted"].status # "busy"
      BY DEF RobotRow
    <3> QED BY <1>0, <1>11, <3>1 DEF DeleteRobotWrite
  <2>2. episode' = episode
    BY <1>11 DEF DeleteRobotWrite
  <2> QED BY <2>1, <2>2 DEF BusyImpliesRecording, Busy, Recording, EpisodeRowCoherent
<1>12. CASE QuietStep(c)
  BY <1>1, <1>12, QuietSteps
<1> QED BY <1>3, <1>6, <1>7, <1>8, <1>9, <1>10, <1>11, <1>12
        DEF ClientStep, EpisodeStep, RobotStep, QuietStep

\* A request of the robot API begins with an episode of its robot and holds the
\* row it is going to write.
LEMMA BeginHolds ==
    ASSUME SessionInv, NEW c \in Clients, NEW k, NEW e \in Episodes, NEW row \in EpisodeRow,
           NEW s \in {"startRobot", "finishRobot", "cancelRobot"},
           EpisodeExists(e), RowFits(row), row.robot = episode[e].robot,
           row.status \in (IF s = "startRobot" THEN {"recording"} ELSE {"completed", "cancel"}),
           Begin(c, k, EpisodeRequest(c, e), HoldEpisode(row), s)
    PROVE  /\ HeldRows(pc'[c], req'[c], buf'[c])
           /\ EpisodeOf(req'[c].episode, req'[c].robot)
<1>1. /\ pc'[c] = s
      /\ req'[c] = EpisodeRequest(c, e)
      /\ buf'[c] = HoldEpisode(row)
  BY DEF SessionInv, TypeInv, TypeOK, ClientsOK, Begin
<1>2. /\ EpisodeRequest(c, e).episode = e
      /\ EpisodeRequest(c, e).robot = episode[e].robot
      /\ HoldEpisode(row).episode = row
  BY DEF EpisodeRequest, NoRequest, HoldEpisode, NoBuffer
<1>3. HeldRows(s, EpisodeRequest(c, e), HoldEpisode(row))
  BY <1>2 DEF HeldRows, SessionSteps, StartSteps, EndSteps
<1> QED BY <1>1, <1>2, <1>3 DEF EpisodeOf

\* What the stepping request holds from here on, and the episode it names.
LEMMA SessionRequests ==
    ASSUME SessionInv, NoConsoleEdits, NEW c \in Clients, ClientStep(c)
    PROVE  /\ HeldRows(pc'[c], req'[c], buf'[c])
           /\ pc'[c] \in SessionSteps => EpisodeOf(req[c].episode, req[c].robot)'
<1> USE RowTypes DEF SessionInv
<1>0. pc \in [Clients -> Steps] /\ req \in [Clients -> Request] /\ buf \in [Clients -> Buffer]
  BY DEF TypeInv, TypeOK, ClientsOK
<1>1. \A p \in Steps \ HoldingSteps : \A q, b : HeldRows(p, q, b)
  BY DEF HeldRows, HoldingSteps, SessionSteps, StartSteps, EndSteps
<1>2. pc'[c] \in Steps
  <2>1. TypeInv'
    BY TypeInvNext DEF Next, ClientStep
  <2> QED BY <2>1 DEF TypeInv, TypeOK, ClientsOK
<1>3. CASE pc'[c] \notin HoldingSteps
  BY <1>1, <1>2, <1>3 DEF HoldingSteps
<1>4. CASE Start(c) \/ Finish(c) \/ Cancel(c)
  <2>1. \A e \in Episodes : RowFits(episode[e])
    BY DEF EpisodeRowCoherent, RowFits
  <2>2. UNCHANGED episode
    BY <1>4 DEF Start, Finish, Cancel, tables
  <2>3. /\ HeldRows(pc'[c], req'[c], buf'[c])
        /\ EpisodeOf(req'[c].episode, req'[c].robot)
    <3>1. CASE Start(c)
      <4>1. PICK e \in Episodes : /\ OwnEpisode(c, e)
                                  /\ EpisodeCanStart(episode[e])
                                  /\ Begin(c, "start", EpisodeRequest(c, e),
                                           HoldEpisode(EpisodeStart(episode[e])), "startRobot")
        BY <3>1 DEF Start
      <4>2. EpisodeStart(episode[e]).status = "recording"
        BY DEF EpisodeStart, EpisodeRow
      <4> QED BY <2>1, <4>1, <4>2, BeginHolds, DomainTypes, EpisodeKept, EpisodeFits DEF OwnEpisode
    <3>2. CASE Finish(c)
      <4>1. PICK e \in Episodes : /\ OwnEpisode(c, e)
                                  /\ EpisodeCanFinish(episode[e])
                                  /\ Begin(c, "finish", EpisodeRequest(c, e),
                                           HoldEpisode(EpisodeFinish(episode[e])), "finishRobot")
        BY <3>2 DEF Finish
      <4>2. EpisodeFinish(episode[e]).status = "completed"
        BY DEF EpisodeFinish, EpisodeRow
      <4> QED BY <2>1, <4>1, <4>2, BeginHolds, DomainTypes, EpisodeKept, EpisodeFits DEF OwnEpisode
    <3>3. CASE Cancel(c)
      <4>1. PICK e \in Episodes : /\ OwnEpisode(c, e)
                                  /\ EpisodeCanCancel(episode[e])
                                  /\ Begin(c, "cancel", EpisodeRequest(c, e),
                                           HoldEpisode(EpisodeCancel(episode[e])), "cancelRobot")
        BY <3>3 DEF Cancel
      <4>2. EpisodeCancel(episode[e]).status = "cancel"
        BY DEF EpisodeCancel, EpisodeRow
      <4> QED BY <2>1, <4>1, <4>2, BeginHolds, DomainTypes, EpisodeKept, EpisodeFits DEF OwnEpisode
    <3> QED BY <1>4, <3>1, <3>2, <3>3
  <2> QED BY <2>2, <2>3 DEF EpisodeOf, EpisodeExists
<1>5. ASSUME NEW b, NEW s, Read(c, b, s), pc[c] \in SessionSteps, HeldRows(s, req[c], b)
      PROVE  /\ HeldRows(pc'[c], req'[c], buf'[c])
             /\ EpisodeOf(req[c].episode, req[c].robot)'
  <2>1. /\ pc'[c] = s /\ req' = req /\ buf'[c] = b
        /\ episode' = episode
    BY <1>0, <1>5 DEF Read, tables
  <2> QED BY <1>5, <2>1 DEF EpisodeOf, EpisodeExists
<1>6. CASE StartRobot(c)
  <2> DEFINE rob == ResolvedStatus(robot[req[c].robot], heartbeat[req[c].robot])
  <2> DEFINE b == [buf[c] EXCEPT !.robot = StartTeleoperation(rob, req[c].episode)]
  <2>1. pc[c] = "startRobot" /\ RobotExists(req[c].robot) /\ Read(c, b, "startWrite")
    BY <1>6 DEF StartRobot
  <2>2. req[c].robot \in Robots /\ req[c].episode \in Episodes
    BY <2>1 DEF ClientNamed, RobotSteps, SessionSteps
  <2>3. StartTeleoperation(rob, req[c].episode).active = req[c].episode
    BY <2>2 DEF StartTeleoperation, ResolvedStatus, RobotRow
  <2>4. b.robot.active = req[c].episode /\ b.episode = buf[c].episode
    BY <2>3 DEF Buffer
  <2>5. HeldRows("startWrite", req[c], b)
    BY <2>1, <2>4 DEF HeldRows, SessionSteps, StartSteps, EndSteps
  <2> QED BY <1>5, <2>1, <2>5 DEF SessionSteps
<1>7. CASE FinishRobot(c) \/ CancelRobot(c)
  <2> DEFINE rob == robot[req[c].robot]
  <2> DEFINE b == [buf[c] EXCEPT !.robot = EndTeleoperation(rob)]
  <2> DEFINE s == IF pc[c] = "finishRobot" THEN "finishWrite" ELSE "cancelWrite"
  <2>1. pc[c] \in {"finishRobot", "cancelRobot"} /\ Read(c, b, s)
    BY <1>7 DEF FinishRobot, CancelRobot, EndRobot
  <2>2. req[c].robot \in Robots
    BY <2>1 DEF ClientNamed, RobotSteps, SessionSteps
  <2>3. EndTeleoperation(rob).status = "ready"
    BY <2>2 DEF EndTeleoperation, RobotRow
  <2>4. b.robot.status = "ready" /\ b.episode = buf[c].episode
    BY <2>3 DEF Buffer
  <2>5. HeldRows(s, req[c], b)
    BY <2>1, <2>4 DEF HeldRows, SessionSteps, StartSteps, EndSteps
  <2> QED BY <1>5, <2>1, <2>5 DEF SessionSteps
<1>8. CASE FinishWrite(c) \/ FinishTarget(c) \/ FinishTask(c)
  <2>1. PICK b, s : /\ pc[c] \in {"finishWrite", "finishTarget", "finishTask"}
                    /\ s \in {"finishTarget", "finishTask", "finishCommit"}
                    /\ Read(c, b, s)
                    /\ b.episode = buf[c].episode /\ b.robot = buf[c].robot
    <3>1. \A n : [buf[c] EXCEPT !.actual = n].episode = buf[c].episode
                  /\ [buf[c] EXCEPT !.actual = n].robot = buf[c].robot
                  /\ [buf[c] EXCEPT !.target = n].episode = buf[c].episode
                  /\ [buf[c] EXCEPT !.target = n].robot = buf[c].robot
                  /\ [buf[c] EXCEPT !.task = n].episode = buf[c].episode
                  /\ [buf[c] EXCEPT !.task = n].robot = buf[c].robot
      BY DEF Buffer
    <3>2. CASE FinishWrite(c)
      BY <3>1, <3>2 DEF FinishWrite
    <3>3. CASE FinishTarget(c)
      BY <3>1, <3>3 DEF FinishTarget
    <3>4. CASE FinishTask(c)
      <4> DEFINE held == [buf[c] EXCEPT !.task = task[req[c].task]]
      <4>1. pc[c] = "finishTask" /\ Read(c, held, "finishCommit")
        BY <3>4 DEF FinishTask
      <4>2. held.episode = buf[c].episode /\ held.robot = buf[c].robot
        BY <3>1
      <4> HIDE DEF held
      <4> QED BY <4>1, <4>2
    <3> QED BY <1>8, <3>2, <3>3, <3>4
  <2>2. HeldRows(s, req[c], b)
    BY <2>1 DEF HeldRows, SessionSteps, StartSteps, EndSteps
  <2> QED BY <1>5, <2>1, <2>2 DEF SessionSteps
<1>9. CASE UpdateEpisode(c) \/ UpdateRobot(c) \/ DeleteEpisode(c)
  BY <1>9 DEF UpdateEpisode, UpdateRobot, DeleteEpisode, Begin, NoConsoleEdits
<1>10. CASE \/ CreateWrite(c) \/ RepeatWrite(c) \/ StartWrite(c) \/ FinishCommit(c)
            \/ CancelWrite(c) \/ UpdateEpisodeWrite(c) \/ UpdateRobotWrite(c)
            \/ DeleteRobotWrite(c)
  <2>1. Respond(c)
    BY <1>10 DEF CreateWrite, RepeatWrite, StartWrite, FinishCommit, CancelWrite,
                 UpdateEpisodeWrite, UpdateRobotWrite, DeleteRobotWrite
  <2>2. pc'[c] = "idle"
    BY <1>0, <2>1 DEF Respond
  <2> QED BY <1>3, <2>2 DEF HoldingSteps, SessionSteps
<1>11. CASE DeleteRobot(c)
  <2>1. pc'[c] = "deleteRobotWrite"
    BY <1>0, <1>11 DEF DeleteRobot, Begin
  <2> QED BY <2>1 DEF HeldRows, SessionSteps, StartSteps, EndSteps
<1>12. CASE QuietStep(c)
  BY <1>3, <1>12, QuietSteps
<1> QED BY <1>4, <1>6, <1>7, <1>8, <1>9, <1>10, <1>11, <1>12
        DEF ClientStep, EpisodeStep, RobotStep, QuietStep

-----------------------------------------------------------------------------

\* No robot is Busy at first.
LEMMA SessionInvInit == Init => SessionInv
<1> SUFFICES ASSUME Init PROVE SessionInv
  OBVIOUS
<1>1. BusyImpliesRecording
  BY DEF Init, RequestsInit, BusyImpliesRecording, Busy, InitRobot
<1>2. EpisodeRowCoherent
  BY DEF Init, RequestsInit, EpisodeRowCoherent, NoEpisodeRow
<1>3. \A c \in Clients : HeldRows(pc[c], req[c], buf[c]) /\ pc[c] \notin SessionSteps
  BY DEF Init, RequestsInit, HeldRows, SessionSteps, StartSteps, EndSteps
<1> QED BY <1>1, <1>2, <1>3, TypeInvInit DEF SessionInv

\* Every step keeps the invariant.
LEMMA SessionInvNext == NoConsoleEdits /\ SessionInv /\ [Next]_vars => SessionInv'
<1> SUFFICES ASSUME NoConsoleEdits, SessionInv, [Next]_vars PROVE SessionInv'
  OBVIOUS
<1>1. TypeInv'
  BY TypeInvNext DEF SessionInv
<1>2. ASSUME NEW c \in Clients, ClientStep(c) PROVE SessionInv'
  <2>1. BusyImpliesRecording' /\ EpisodeRowCoherent'
    BY <1>2, SessionTables
  <2>2. ASSUME NEW d \in Clients
        PROVE  /\ HeldRows(pc'[d], req'[d], buf'[d])
               /\ pc'[d] \in SessionSteps => EpisodeOf(req[d].episode, req[d].robot)'
    <3>1. CASE d = c
      BY <1>2, <3>1, SessionRequests
    <3>2. CASE d # c
      <4>1. /\ pc'[d] = pc[d] /\ req'[d] = req[d] /\ buf'[d] = buf[d]
            /\ HeldRows(pc[d], req[d], buf[d])
            /\ pc[d] \in SessionSteps => EpisodeOf(req[d].episode, req[d].robot)
        BY <1>2, <3>2, OtherClients DEF SessionInv
      <4>2. pc[d] \in SessionSteps => req[d].episode \in Episodes
        BY RowTypes DEF SessionInv, ClientNamed
      <4>3. \A r : \A e \in Episodes : EpisodeOf(e, r) => EpisodeOf(e, r)'
        BY <1>2, EpisodesStay
      <4> QED BY <4>1, <4>2, <4>3 DEF EpisodeOf, EpisodeExists
    <3> QED BY <3>1, <3>2
  <2> QED BY <1>1, <2>1, <2>2 DEF SessionInv
<1>3. ASSUME UNCHANGED <<episode, robot, pc, req, buf>> PROVE SessionInv'
  BY <1>1, <1>3
     DEF SessionInv, BusyImpliesRecording, EpisodeRowCoherent, Busy, Recording, EpisodeOf,
         EpisodeExists
<1>4. ASSUME NEW r \in Robots, Heartbeat(r) \/ HeartbeatExpires(r) PROVE SessionInv'
  BY <1>3, <1>4 DEF Heartbeat, HeartbeatExpires, tables, clients
<1> QED BY <1>2, <1>3, <1>4 DEF Next, ClientStep, vars

\* Without edits by hand a Busy robot is recording the episode it names, for
\* any number of robots, clients and episodes and however requests overlap.
THEOREM BusyRobotRecords == NoConsoleEdits => (Spec => []BusyImpliesRecording)
<1> SUFFICES ASSUME NoConsoleEdits PROVE Spec => []BusyImpliesRecording
  OBVIOUS
<1>1. SessionInv /\ [Next]_vars => SessionInv'
  BY SessionInvNext
<1>2. SessionInv => BusyImpliesRecording
  BY DEF SessionInv
<1> QED BY <1>1, <1>2, SessionInvInit, PTL DEF Spec

\* Without edits by hand the times of an episode fit its status, however Start,
\* Finish and Cancel overwrite each other.
THEOREM EpisodeRowAlwaysCoherent == NoConsoleEdits => (Spec => []EpisodeRowCoherent)
<1> SUFFICES ASSUME NoConsoleEdits PROVE Spec => []EpisodeRowCoherent
  OBVIOUS
<1>1. SessionInv /\ [Next]_vars => SessionInv'
  BY SessionInvNext
<1>2. SessionInv => EpisodeRowCoherent
  BY DEF SessionInv
<1> QED BY <1>1, <1>2, SessionInvInit, PTL DEF Spec

=============================================================================
