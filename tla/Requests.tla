------------------------------ MODULE Requests ------------------------------
(***************************************************************************)
(* The tables of the database, the heartbeat keys of Redis, and the        *)
(* requests that are being served.                                         *)
(*                                                                         *)
(* A request is a sequence of statements.  Transactions are opened with    *)
(* nil options, so they run READ COMMITTED: every statement sees what was  *)
(* committed when it began, nothing that was read is locked, and an UPDATE *)
(* overwrites every column of the row with what the request holds in       *)
(* memory.  pc[c] names the next statement of client c's request, req[c]   *)
(* its arguments and buf[c] the rows it holds.  Rows written by a          *)
(* transaction that has further statements to run stay in buf and hold     *)
(* their row locks until the commit, which is one step.                    *)
(***************************************************************************)
EXTENDS Domain

CONSTANTS Clients,    \* robot agents, operators' pages, administrators
          RobotOf,    \* the robot a client's credentials name
          Issues,     \* the kinds of request a client sends
          Overlap     \* may two requests about one robot be served at once?

RobotRequests == {"start", "finish", "cancel", "repeat"}
ExecutionRequests == {"createExecution", "startExecution", "finishExecution",
                      "cancelExecution", "completeSubTask", "skipSubTask"}
ConsoleRequests == {"create", "updateEpisode", "deleteEpisode",
                    "updateRobot", "deleteRobot", "updateTask", "approve"}
Kinds == RobotRequests \cup ExecutionRequests \cup ConsoleRequests

ASSUME RequestsAssumption ==
    /\ RobotOf \in [Clients -> Robots]
    /\ Issues \in [Clients -> SUBSET Kinds]
    /\ Overlap \in BOOLEAN

VARIABLES episode,     \* table episode
          subTask,     \* table episode_sub_task
          execution,   \* table episode_sub_task_execution
          robot,       \* table robot
          task,        \* table task: its status
          approved,    \* table task_version: the approved versions of a task
          heartbeat,   \* Redis: does the robot's status key exist?
          pc, req, buf

tables  == <<episode, subTask, execution, robot, task, approved>>
clients == <<pc, req, buf>>
vars    == <<episode, subTask, execution, robot, task, approved, heartbeat,
             pc, req, buf>>

Steps == {"idle", "createRobot", "createWrite",
          "repeatList", "repeatRobot", "repeatWrite",
          "startRobot", "startWrite",
          "finishRobot", "finishWrite", "finishTarget", "finishTask", "finishCommit",
          "cancelRobot", "cancelWrite", "updateEpisodeWrite",
          "updateRobotWrite", "deleteRobotWrite",
          "createExecutionWrite", "startExecutionCount", "executionWrite",
          "subTaskWrite", "updateTaskRead", "updateTaskSum", "updateTaskTarget",
          "updateTaskWrite", "approveWrite", "approveTarget", "approveTask",
          "approveCommit"}

Request == [robot     : Robots \cup {None},
            episode   : Episodes \cup {NoEpisode},
            subTask   : SubTasks \cup {None},
            execution : Executions \cup {NoExecution},
            task      : Tasks \cup {None},
            version   : Versions \cup {None}]

NoRequest == [robot |-> None, episode |-> NoEpisode, subTask |-> None,
              execution |-> NoExecution, task |-> None, version |-> None]

Buffer == [episode   : EpisodeRow,
           robot     : RobotRow,
           subTask   : SubTaskStatus,
           execution : ExecutionRow,
           task      : TaskStatus,
           actual    : Nat,
           target    : Nat]

NoBuffer == [episode |-> NoEpisodeRow, robot |-> InitRobot, subTask |-> "ready",
             execution |-> NoExecutionRow, task |-> "planning",
             actual |-> 0, target |-> 0]

RequestsInit ==
    /\ episode = [e \in Episodes |-> NoEpisodeRow]
    /\ subTask = [e \in Episodes |-> [s \in SubTasks |-> "absent"]]
    /\ execution = [e \in Episodes |->
                      [s \in SubTasks |-> [x \in Executions |-> NoExecutionRow]]]
    /\ robot = [r \in Robots |-> InitRobot]
    /\ task = [t \in Tasks |-> "planning"]
    /\ approved = [t \in Tasks |-> {}]
    /\ heartbeat = [r \in Robots |-> FALSE]
    /\ pc = [c \in Clients |-> "idle"]
    /\ req = [c \in Clients |-> NoRequest]
    /\ buf = [c \in Clients |-> NoBuffer]

-----------------------------------------------------------------------------
(* Serving a request *)

\* The first statement of a request of kind k, with arguments a; it leaves
\* the rows b in memory and s as the next statement.
Begin(c, k, a, b, s) ==
    /\ pc[c] = "idle"
    /\ k \in Issues[c]
    /\ ~Overlap => \A d \in Clients : req[d].robot = a.robot => a.robot = None
    /\ pc' = [pc EXCEPT ![c] = s]
    /\ req' = [req EXCEPT ![c] = a]
    /\ buf' = [buf EXCEPT ![c] = b]

\* A further statement, which writes nothing that others can see.
Read(c, b, s) ==
    /\ pc' = [pc EXCEPT ![c] = s]
    /\ buf' = [buf EXCEPT ![c] = b]
    /\ UNCHANGED <<req, heartbeat, tables>>

\* The last statement: the response is sent.
Respond(c) ==
    /\ pc' = [pc EXCEPT ![c] = "idle"]
    /\ req' = [req EXCEPT ![c] = NoRequest]
    /\ buf' = [buf EXCEPT ![c] = NoBuffer]
    /\ UNCHANGED heartbeat

\* A guard that fails, a database error, a lost connection or a crash of the
\* server: the transaction is rolled back and nothing was written.
RollBack(c) ==
    /\ pc[c] # "idle"
    /\ Respond(c)
    /\ UNCHANGED tables

-----------------------------------------------------------------------------
(* Rows *)

EpisodeExists(e) == episode[e].status \in EpisodeStatus
RobotExists(r)   == robot[r].status \in StoredStatus

\* Finish has written its episode and its robot in these steps, and waits for
\* the rest of its transaction with both rows locked.
HoldsRows == {"finishTarget", "finishTask", "finishCommit"}

EpisodeFree(c, e) ==
    \A d \in Clients \ {c} : pc[d] \in HoldsRows => req[d].episode # e
RobotFree(c, r) ==
    \A d \in Clients \ {c} : pc[d] \in HoldsRows => req[d].robot # r

\* Mistake: no unique index.
AnyRecording(e, row) == TRUE

\* The unique index episode_one_recording_per_robot accepts row as row e.
OneRecordingPerRobot(e, row) ==
    row.status = "recording" =>
        \A f \in Episodes \ {e} :
            ~(episode[f].status = "recording" /\ episode[f].robot = row.robot)

\* What SumDurationByTaskID and SumTargetByTaskID return when the tables
\* hold these rows.
SumDuration(eps, t) ==
    Cardinality({e \in Episodes : /\ eps[e].task = t
                                  /\ eps[e].status = "completed"
                                  /\ eps[e].started
                                  /\ eps[e].finished})
SumTarget(versions) == VersionTarget * Cardinality(versions)
=============================================================================
