--------------------------- MODULE EpisodeUsecase ---------------------------
(***************************************************************************)
(* internal/usecase/episode.go: creating, starting, finishing, cancelling, *)
(* repeating, editing and deleting episodes, statement by statement.       *)
(***************************************************************************)
EXTENDS Requests

\* A robot client acts on the episodes of the robot its credentials name; the
\* credentials of a deleted robot are gone with it.
OwnEpisode(c, e) ==
    /\ RobotExists(RobotOf[c])
    /\ EpisodeExists(e)
    /\ episode[e].robot = RobotOf[c]

EpisodeRequest(c, e) ==
    [NoRequest EXCEPT !.robot = episode[e].robot, !.episode = e,
                      !.task = episode[e].task]

HoldEpisode(row) == [NoBuffer EXCEPT !.episode = row]

-----------------------------------------------------------------------------
(* BulkCreate *)

Absent == {e \in Episodes : episode[e].status = "absent"}

\* Sets of new ids: the next ones.
NextEpisodes == {S \in SUBSET Absent :
                   S # {} /\ \A e \in S, f \in Absent : f < e => f \in S}

InsertEpisodes(S, r, t) ==
    /\ episode' = [e \in Episodes |-> IF e \in S THEN InitEpisode(r, t)
                                                 ELSE episode[e]]
    /\ subTask' = [e \in Episodes |-> IF e \in S THEN [s \in SubTasks |-> "ready"]
                                                 ELSE subTask[e]]
    /\ UNCHANGED <<execution, robot, task, approved>>

\* The version: an approved one of the task, named or the latest.
Create(c) ==
    \E r \in Robots, t \in Tasks :
        /\ approved[t] # {}
        /\ Begin(c, "create", [NoRequest EXCEPT !.robot = r, !.task = t],
                 NoBuffer, "createRobot")
        /\ UNCHANGED <<heartbeat, tables>>

BulkCreateRobot(c, at, then) ==
    /\ pc[c] = at
    /\ RobotExists(req[c].robot)
    /\ Read(c, buf[c], then)

CreateRobot(c) == BulkCreateRobot(c, "createRobot", "createWrite")

CreateWrite(c) ==
    /\ pc[c] = "createWrite"
    /\ \E S \in NextEpisodes : InsertEpisodes(S, req[c].robot, req[c].task)
    /\ Respond(c)

-----------------------------------------------------------------------------
(* RepeatLast: outside any transaction, then Create with a count of one *)

RepeatLast(c) ==
    /\ RobotExists(RobotOf[c])
    /\ robot[RobotOf[c]].active = NoEpisode
    /\ Begin(c, "repeat", [NoRequest EXCEPT !.robot = RobotOf[c]],
             NoBuffer, "repeatList")
    /\ UNCHANGED <<heartbeat, tables>>

Repeatable(r) == {e \in Episodes : /\ episode[e].robot = r
                                   /\ episode[e].status \in {"completed", "cancel"}}

RepeatList(c) ==
    /\ pc[c] = "repeatList"
    /\ \E last \in Repeatable(req[c].robot) :
         /\ \A e \in Repeatable(req[c].robot) : e <= last
         /\ pc' = [pc EXCEPT ![c] = "repeatRobot"]
         /\ req' = [req EXCEPT ![c].task = episode[last].task]
    /\ UNCHANGED <<buf, heartbeat, tables>>

RepeatRobot(c) == BulkCreateRobot(c, "repeatRobot", "repeatWrite")

RepeatWrite(c) ==
    /\ pc[c] = "repeatWrite"
    /\ \E e \in Absent : /\ {e} \in NextEpisodes
                         /\ InsertEpisodes({e}, req[c].robot, req[c].task)
    /\ Respond(c)

-----------------------------------------------------------------------------
(* Start *)

Start(c) ==
    \E e \in Episodes :
        /\ OwnEpisode(c, e)
        /\ EpisodeCanStart(episode[e])
        /\ Begin(c, "start", EpisodeRequest(c, e),
                 HoldEpisode(EpisodeStart(episode[e])), "startRobot")
        /\ UNCHANGED <<heartbeat, tables>>

StartRobot(c) ==
    /\ pc[c] = "startRobot"
    /\ RobotExists(req[c].robot)
    /\ LET rob == ResolvedStatus(robot[req[c].robot], heartbeat[req[c].robot])
       IN  /\ CanStartTeleoperation(rob)
           /\ Read(c, [buf[c] EXCEPT !.robot = StartTeleoperation(rob, req[c].episode)],
                   "startWrite")

\* The two rows a transaction on an episode rewrites, whole.  The statements
\* wait for row locks, fail when a row is gone, and respect the unique index.
WriteEpisodeAndRobot(c) ==
    /\ EpisodeExists(req[c].episode)
    /\ RobotExists(req[c].robot)
    /\ EpisodeFree(c, req[c].episode)
    /\ RobotFree(c, req[c].robot)
    /\ OneRecordingPerRobot(req[c].episode, buf[c].episode)
    /\ episode' = [episode EXCEPT ![req[c].episode] = buf[c].episode]
    /\ robot' = [robot EXCEPT ![req[c].robot] = buf[c].robot]

StartWrite(c) ==
    /\ pc[c] = "startWrite"
    /\ WriteEpisodeAndRobot(c)
    /\ Respond(c)
    /\ UNCHANGED <<subTask, execution, task, approved>>

-----------------------------------------------------------------------------
(* Finish, and the update of the task's status in the same transaction *)

Finish(c) ==
    \E e \in Episodes :
        /\ OwnEpisode(c, e)
        /\ EpisodeCanFinish(episode[e])
        /\ Begin(c, "finish", EpisodeRequest(c, e),
                 HoldEpisode(EpisodeFinish(episode[e])), "finishRobot")
        /\ UNCHANGED <<heartbeat, tables>>

EndRobot(c, at, then) ==
    /\ pc[c] = at
    /\ RobotExists(req[c].robot)
    /\ CanEndTeleoperation(robot[req[c].robot])
    /\ Read(c, [buf[c] EXCEPT !.robot = EndTeleoperation(robot[req[c].robot])], then)

FinishRobot(c) == EndRobot(c, "finishRobot", "finishWrite")

\* Mistake: the sum is taken before the episode is written.
FinishWriteSumFirst(c) ==
    /\ pc[c] = "finishWrite"
    /\ EpisodeExists(req[c].episode)
    /\ RobotExists(req[c].robot)
    /\ EpisodeFree(c, req[c].episode)
    /\ RobotFree(c, req[c].robot)
    /\ Read(c, [buf[c] EXCEPT !.actual = SumDuration(episode, req[c].task)], "finishTarget")

\* Both rows are written, and locked from here on; the sum of durations sees
\* what is committed and the transaction's own row.
FinishWrite(c) ==
    /\ pc[c] = "finishWrite"
    /\ EpisodeExists(req[c].episode)
    /\ RobotExists(req[c].robot)
    /\ EpisodeFree(c, req[c].episode)
    /\ RobotFree(c, req[c].robot)
    /\ LET own == [episode EXCEPT ![req[c].episode] = buf[c].episode]
       IN  Read(c, [buf[c] EXCEPT !.actual = SumDuration(own, req[c].task)],
                "finishTarget")

FinishTarget(c) ==
    /\ pc[c] = "finishTarget"
    /\ Read(c, [buf[c] EXCEPT !.target = SumTarget(approved[req[c].task])],
            "finishTask")

FinishTask(c) ==
    /\ pc[c] = "finishTask"
    /\ Read(c, [buf[c] EXCEPT !.task = task[req[c].task]], "finishCommit")

\* Mistake: a cancelled task is no exception.
WriteTaskStatusAlways(c) ==
    task' = [task EXCEPT ![req[c].task] = DetermineTaskStatus(buf[c].actual, buf[c].target)]

\* The task row is written when its status, as read, is neither Canceled nor
\* already the one computed.
WriteTaskStatus(c) ==
    LET t == req[c].task
        newStatus == DetermineTaskStatus(buf[c].actual, buf[c].target)
    IN  task' = IF buf[c].task \in {"canceled", newStatus}
                  THEN task
                  ELSE [task EXCEPT ![t] = newStatus]

FinishCommit(c) ==
    /\ pc[c] = "finishCommit"
    /\ episode' = [episode EXCEPT ![req[c].episode] = buf[c].episode]
    /\ robot' = [robot EXCEPT ![req[c].robot] = buf[c].robot]
    /\ WriteTaskStatus(c)
    /\ Respond(c)
    /\ UNCHANGED <<subTask, execution, approved>>

-----------------------------------------------------------------------------
(* Cancel, with the subtasks and the executions of the episode *)

Cancel(c) ==
    \E e \in Episodes :
        /\ OwnEpisode(c, e)
        /\ EpisodeCanCancel(episode[e])
        /\ Begin(c, "cancel", EpisodeRequest(c, e),
                 HoldEpisode(EpisodeCancel(episode[e])), "cancelRobot")
        /\ UNCHANGED <<heartbeat, tables>>

CancelRobot(c) == EndRobot(c, "cancelRobot", "cancelWrite")

BulkCancelSubTasks(e) ==
    subTask' = [subTask EXCEPT ![e] = [s \in SubTasks |-> "cancelled"]]

\* Mistake: only the executions that are running.
BulkCancelStarted(e) ==
    execution' = [execution EXCEPT ![e] =
        [s \in SubTasks |-> [x \in Executions |->
            IF execution[e][s][x].status # "started" THEN execution[e][s][x]
            ELSE [execution[e][s][x] EXCEPT !.status = "cancelled"]]]]

BulkCancelExecutions(e) ==
    execution' = [execution EXCEPT ![e] =
        [s \in SubTasks |-> [x \in Executions |->
            IF execution[e][s][x].status = "absent" THEN execution[e][s][x]
            ELSE [execution[e][s][x] EXCEPT !.status = "cancelled"]]]]

\* Mistake: the robot is not released.
CancelWriteEpisodeOnly(c) ==
    /\ pc[c] = "cancelWrite"
    /\ EpisodeExists(req[c].episode)
    /\ EpisodeFree(c, req[c].episode)
    /\ episode' = [episode EXCEPT ![req[c].episode] = buf[c].episode]
    /\ BulkCancelSubTasks(req[c].episode)
    /\ BulkCancelExecutions(req[c].episode)
    /\ Respond(c)
    /\ UNCHANGED <<robot, task, approved>>

CancelWrite(c) ==
    /\ pc[c] = "cancelWrite"
    /\ WriteEpisodeAndRobot(c)
    /\ BulkCancelSubTasks(req[c].episode)
    /\ BulkCancelExecutions(req[c].episode)
    /\ Respond(c)
    /\ UNCHANGED <<task, approved>>

-----------------------------------------------------------------------------
(* Update (the console's PATCH) and Delete: no transaction, no domain guard *)

UpdateEpisode(c) ==
    \E e \in Episodes, s \in EpisodeStatus, started, finished \in BOOLEAN :
        /\ EpisodeExists(e)
        /\ Begin(c, "updateEpisode", EpisodeRequest(c, e),
                 HoldEpisode([episode[e] EXCEPT !.status = s,
                                                !.started = @ \/ started,
                                                !.finished = @ \/ finished]),
                 "updateEpisodeWrite")
        /\ UNCHANGED <<heartbeat, tables>>

UpdateEpisodeWrite(c) ==
    LET e == req[c].episode
    IN  /\ pc[c] = "updateEpisodeWrite"
        /\ EpisodeExists(e)
        /\ EpisodeFree(c, e)
        /\ OneRecordingPerRobot(e, buf[c].episode)
        /\ episode' = [episode EXCEPT ![e] = buf[c].episode]
        /\ Respond(c)
        /\ UNCHANGED <<subTask, execution, robot, task, approved>>

\* One statement.  The foreign key of episode_sub_task has no cascade, so an
\* episode with subtasks cannot be deleted.
DeleteEpisode(c) ==
    \E e \in Episodes :
        /\ pc[c] = "idle"
        /\ "deleteEpisode" \in Issues[c]
        /\ ~Overlap => \A d \in Clients : req[d].robot # episode[e].robot
        /\ EpisodeExists(e)
        /\ \A s \in SubTasks : subTask[e][s] = "absent"
        /\ EpisodeFree(c, e)
        /\ episode' = [episode EXCEPT ![e] = [NoEpisodeRow EXCEPT !.status = "deleted"]]
        /\ UNCHANGED <<subTask, execution, robot, task, approved, heartbeat, clients>>
=============================================================================
