------------------------------- MODULE Teleop -------------------------------
(***************************************************************************)
(* The whole of it: robots, episodes, subtasks, executions and tasks under *)
(* the requests of any number of clients, and what must stay true.         *)
(***************************************************************************)
EXTENDS TaskUsecase

Init == RequestsInit

EpisodeStep(c) ==
    \/ Create(c) \/ CreateRobot(c) \/ CreateWrite(c)
    \/ RepeatLast(c) \/ RepeatList(c) \/ RepeatRobot(c) \/ RepeatWrite(c)
    \/ Start(c) \/ StartRobot(c) \/ StartWrite(c)
    \/ Finish(c) \/ FinishRobot(c) \/ FinishWrite(c)
    \/ FinishTarget(c) \/ FinishTask(c) \/ FinishCommit(c)
    \/ Cancel(c) \/ CancelRobot(c) \/ CancelWrite(c)
    \/ UpdateEpisode(c) \/ UpdateEpisodeWrite(c) \/ DeleteEpisode(c)

RobotStep(c) ==
    \/ UpdateRobot(c) \/ UpdateRobotWrite(c)
    \/ DeleteRobot(c) \/ DeleteRobotWrite(c)

ExecutionStep(c) ==
    \/ CreateExecution(c) \/ CreateExecutionWrite(c)
    \/ StartExecution(c) \/ StartExecutionCount(c)
    \/ FinishExecution(c) \/ CancelExecution(c) \/ ExecutionWrite(c)
    \/ CompleteSubTask(c) \/ SkipSubTask(c) \/ SubTaskWrite(c)

TaskStep(c) ==
    \/ UpdateTask(c) \/ UpdateTaskRead(c) \/ UpdateTaskSum(c)
    \/ UpdateTaskTarget(c) \/ UpdateTaskWrite(c)
    \/ Approve(c) \/ ApproveWrite(c) \/ ApproveTarget(c)
    \/ ApproveTask(c) \/ ApproveCommit(c)

Next ==
    \/ \E c \in Clients : \/ EpisodeStep(c) \/ RobotStep(c)
                          \/ ExecutionStep(c) \/ TaskStep(c)
                          \/ RollBack(c)
    \/ \E r \in Robots : Heartbeat(r) \/ HeartbeatExpires(r)

Spec == Init /\ [][Next]_vars

\* A request whose server died is given up; and the robot's agent sends Finish
\* for an episode that is still recording, again if it must: a Finish that gets
\* as far over and over does not fail there forever.
Fairness ==
    /\ \A c \in Clients : WF_vars(RollBack(c))
    /\ \A c \in {d \in Clients : "finish" \in Issues[d]} :
        /\ SF_vars(Finish(c)) /\ SF_vars(FinishRobot(c)) /\ SF_vars(FinishWrite(c))
        /\ SF_vars(FinishTarget(c)) /\ SF_vars(FinishTask(c)) /\ SF_vars(FinishCommit(c))

FairSpec == Spec /\ Fairness

-----------------------------------------------------------------------------

TablesOK ==
    /\ episode \in [Episodes -> EpisodeRow]
    /\ subTask \in [Episodes -> [SubTasks -> SubTaskStatus \cup {"absent"}]]
    /\ execution \in [Episodes -> [SubTasks -> [Executions -> ExecutionRow]]]
    /\ robot \in [Robots -> RobotRow]
    /\ task \in [Tasks -> TaskStatus]
    /\ approved \in [Tasks -> SUBSET Versions]
    /\ heartbeat \in [Robots -> BOOLEAN]

ClientsOK ==
    /\ pc \in [Clients -> Steps]
    /\ req \in [Clients -> Request]
    /\ buf \in [Clients -> Buffer]

\* Every variable has its type; in particular a robot is never stored as
\* Online or Offline, which ResolvedStatus computes on reading
\* (domain/model/robot.go) and Start writes back only as Busy.
TypeOK == TablesOK /\ ClientsOK

Recording(e, r) == episode[e].status = "recording" /\ episode[e].robot = r
Busy(r)         == robot[r].status = "busy"

\* A robot records at most one episode, whatever requests overlap: Start, the
\* console's edit of an episode and stale rows written back (usecase/episode.go
\* Start, Update; the index of entity/episode.go).
OneRecording ==
    \A r \in Robots, e, f \in Episodes : Recording(e, r) /\ Recording(f, r) => e = f

\* A robot's row is coherent although whole rows are written back by requests
\* that read them long before: it names an active episode exactly when it is
\* Busy, and has a fault time exactly when it is Faulted (domain/model/robot.go,
\* usecase/robot.go update).
RobotRowCoherent ==
    \A r \in Robots : RobotExists(r) =>
        /\ Busy(r) <=> robot[r].active # NoEpisode
        /\ robot[r].faultSince <=> robot[r].status = "faulted"

\* A Busy robot is recording the episode it names, so that finishing or
\* cancelling that episode frees it (usecase/episode.go Start, Finish, Cancel).
BusyImpliesRecording ==
    \A r \in Robots : Busy(r) => /\ robot[r].active \in Episodes
                                 /\ Recording(robot[r].active, r)

\* The times of an episode fit its status although Start, Finish and Cancel
\* overwrite each other's rows (domain/model/episode.go).
EpisodeRowCoherent ==
    \A e \in Episodes :
        /\ episode[e].started <=> episode[e].status \in {"recording", "cancel", "completed"}
        /\ episode[e].finished <=> episode[e].status = "completed"

\* The episode and the robot agree on every session: what one row records, the
\* other names (usecase/episode.go Start, Finish, Cancel; usecase/robot.go
\* Update, Delete).
SessionAgreement ==
    \A r \in Robots, e \in Episodes :
        Recording(e, r) <=> RobotExists(r) /\ Busy(r) /\ robot[r].active = e

\* What the tables show of the abstract sessions.
Abstract == INSTANCE Session WITH
    phase   <- [e \in Episodes |-> episode[e].status],
    owner   <- [e \in Episodes |-> episode[e].robot],
    session <- [r \in Robots |-> robot[r].active]

\* With requests about a robot served one at a time the API implements the
\* abstract sessions of module Session: every step of every request, reads,
\* partial transactions and failures included, is a step or a stutter there
\* (usecase/episode.go BulkCreate, Start, Finish, Cancel, RepeatLast).
ImplementsSession == Abstract!SessionSpec

\* An execution exists only of a subtask that was begun (usecase/
\* episode_execution.go Create: both rows in one transaction).
ExecutionOfBegunSubTask ==
    \A e \in Episodes, s \in SubTasks, x \in Executions :
        execution[e][s][x].status # "absent" => subTask[e][s] \notin {"absent", "ready"}

\* No work goes on in a cancelled episode, whatever was under way when it was
\* cancelled (usecase/episode.go Cancel).  What became of completed work is another
\* matter (Documented).
CancelledIsOver ==
    \A e \in Episodes : episode[e].status = "cancel" =>
        \A s \in SubTasks :
            /\ subTask[e][s] \notin {"ready", "inProgress"}
            /\ \A x \in Executions : execution[e][s][x].status \notin {"ready", "started"}

\* At most one execution of a subtask is running (usecase/episode_execution.go
\* Start: "another execution is already running for this subtask").
OneStartedExecution ==
    \A e \in Episodes, s \in SubTasks :
        \A x, y \in StartedExecutions(e, s) : x = y

\* The status of t says how far its collection is.
Progress(t) == DetermineTaskStatus(SumDuration(episode, t), SumTarget(approved[t]))

\* Whoever finishes an episode or approves a version leaves the task with the
\* status that its collection has by then, unless it is cancelled ("Auto-update
\* task status based on collection progress", usecase/episode.go Finish and
\* usecase/task_version.go Approve).
TaskStatusIsProgress ==
    [][\A c \in Clients, t \in Tasks :
         req[c].task = t /\ (FinishCommit(c) \/ ApproveCommit(c)) =>
            task'[t] \in {"canceled", Progress(t)'}]_vars

\* A cancelled task is taken back only by an edit of the task, and then to the
\* status its collection has by now, not to the one requested (usecase/task.go
\* Update; Finish and Approve leave a cancelled task alone).
CanceledTaskReturnsToProgress ==
    [][\A t \in Tasks : task[t] = "canceled" /\ task'[t] # "canceled" =>
         /\ \E c \in Clients : pc[c] = "updateTaskWrite" /\ req[c].task = t
         /\ task'[t] = Progress(t)]_vars

\* A recording robot is freed in the end: no interleaving of its requests
\* leaves it Busy where Finish is refused.
SessionsEnd == \A r \in Robots : Busy(r) ~> ~Busy(r)
=============================================================================
