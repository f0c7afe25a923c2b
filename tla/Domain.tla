------------------------------- MODULE Domain -------------------------------
(***************************************************************************)
(* The rows of the backend's tables and the domain methods that change     *)
(* them in memory (internal/domain/model).  A method that the code guards  *)
(* with an error is two operators here: CanX, the guard, and X, the row it *)
(* leaves.  A row that is not in its table has status "absent" (never      *)
(* inserted) or "deleted"; timestamps are kept as "is it set".             *)
(***************************************************************************)
EXTENDS Naturals, FiniteSets

CONSTANTS Robots,          \* the robots of one organization
          Tasks,           \* its tasks
          Versions,        \* versions a task can have
          SubTasks,        \* the subtasks of every task version
          MaxEpisodes,     \* bound: episodes ever created
          MaxExecutions,   \* bound: executions per subtask of an episode
          VersionTarget,   \* target duration of a version, in episodes
          None             \* "no robot", "no task", "no subtask", "no version"

ASSUME DomainAssumption ==
    /\ MaxEpisodes \in Nat
    /\ MaxExecutions \in Nat
    /\ VersionTarget \in Nat
    /\ None \notin Robots \cup Tasks \cup SubTasks \cup Versions
    /\ IsFiniteSet(Versions)

Episodes   == 1 .. MaxEpisodes     \* ids in order of creation
NoEpisode  == 0
Executions == 1 .. MaxExecutions   \* per subtask, in order of creation
NoExecution == 0

-----------------------------------------------------------------------------
(* Episodes *)

EpisodeStatus == {"ready", "recording", "cancel", "completed"}

EpisodeRow == [status   : EpisodeStatus \cup {"absent", "deleted"},
               robot    : Robots \cup {None},
               task     : Tasks \cup {None},
               started  : BOOLEAN,
               finished : BOOLEAN]

NoEpisodeRow == [status |-> "absent", robot |-> None, task |-> None,
                 started |-> FALSE, finished |-> FALSE]

InitEpisode(r, t) == [status |-> "ready", robot |-> r, task |-> t,
                      started |-> FALSE, finished |-> FALSE]

EpisodeCanStart(ep) == ep.status = "ready"
EpisodeStart(ep)    == [ep EXCEPT !.status = "recording", !.started = TRUE]

\* Mistake: the finish time is forgotten.
EpisodeFinishWithoutTime(ep) == [ep EXCEPT !.status = "completed"]

EpisodeCanFinish(ep) == ep.status = "recording"
EpisodeFinish(ep)    == [ep EXCEPT !.status = "completed", !.finished = TRUE]

\* Mistake: a queued episode can be cancelled, too.
EpisodeCanCancelQueued(ep) == ep.status \in {"ready", "recording"}

EpisodeCanCancel(ep) == ep.status = "recording"
EpisodeCancel(ep)    == [ep EXCEPT !.status = "cancel"]

-----------------------------------------------------------------------------
(* Robots.  Ready, Busy, Faulted and Maintenance are stored; Online and    *)
(* Offline are what ResolvedStatus makes of Ready with the heartbeat.      *)

StoredStatus == {"ready", "busy", "faulted", "maintenance"}

RobotRow == [status : StoredStatus \cup {"deleted"},
             active : Episodes \cup {NoEpisode},
             faultSince : BOOLEAN]

InitRobot == [status |-> "ready", active |-> NoEpisode, faultSince |-> FALSE]

ResolvedStatus(rob, heartbeatAlive) ==
    IF rob.status \in {"ready", "online"}
      THEN [rob EXCEPT !.status = IF heartbeatAlive THEN "online" ELSE "offline"]
      ELSE rob

CanStartTeleoperation(rob) == rob.status = "online"
StartTeleoperation(rob, e) == [rob EXCEPT !.status = "busy", !.active = e]

\* Mistakes: the status is not reset, or to one that is not stored.
EndTeleoperationStaysBusy(rob) == [rob EXCEPT !.active = NoEpisode]
EndTeleoperationOnline(rob)    == [rob EXCEPT !.status = "online", !.active = NoEpisode]

CanEndTeleoperation(rob) == rob.status = "busy"
EndTeleoperation(rob)    == [rob EXCEPT !.status = "ready", !.active = NoEpisode]

-----------------------------------------------------------------------------
(* Subtasks of an episode *)

SubTaskStatus == {"ready", "inProgress", "completed", "cancelled", "skipped"}

\* Mistake: the subtask's status is left alone.
SubTaskStartNothing(st) == st

SubTaskCanStartProgress(st) == st \in {"ready", "inProgress"}
SubTaskStartProgress(st)    == "inProgress"

SubTaskCanComplete(st) == st \in {"ready", "inProgress", "completed"}
SubTaskComplete(st)    == "completed"

SubTaskCanSkip(st) == st \in {"ready", "inProgress", "skipped"}
SubTaskSkip(st)    == "skipped"

-----------------------------------------------------------------------------
(* Executions of a subtask *)

ExecutionStatus == {"ready", "started", "cancelled", "finished"}

ExecutionRow == [status   : ExecutionStatus \cup {"absent"},
                 started  : BOOLEAN,
                 finished : BOOLEAN]

NoExecutionRow == [status |-> "absent", started |-> FALSE, finished |-> FALSE]
InitExecution  == [status |-> "ready", started |-> FALSE, finished |-> FALSE]

ExecutionCanStart(exe) == exe.status = "ready"
ExecutionStart(exe)    == [exe EXCEPT !.status = "started", !.started = TRUE]

ExecutionCanFinish(exe) == exe.status = "started"
ExecutionFinish(exe)    == [exe EXCEPT !.status = "finished", !.finished = TRUE]

ExecutionCanCancel(exe) == exe.status \in {"ready", "started", "cancelled"}
ExecutionCancel(exe)    == [exe EXCEPT !.status = "cancelled"]

-----------------------------------------------------------------------------
(* Tasks.  A duration is counted in episodes: every completed episode      *)
(* lasts one unit.                                                         *)

TaskStatus == {"planning", "doing", "completed", "canceled"}

DetermineTaskStatus(actual, target) ==
    IF actual = 0 THEN "planning"
    ELSE IF actual < target THEN "doing"
    ELSE "completed"
=============================================================================
