-------------------------- MODULE ExecutionUsecase --------------------------
(***************************************************************************)
(* internal/usecase/episode_execution.go and episode_sub_task.go: a robot  *)
(* works through the subtasks of its episode.  Every request checks that   *)
(* the episode is the robot's; none looks at the status of the episode or, *)
(* for executions after their creation, at the status of the subtask.      *)
(***************************************************************************)
EXTENDS RobotUsecase

\* A request about an execution holds, from its reads, the row it will write.
ExecutionRequest(c, e, s, x) ==
    [NoRequest EXCEPT !.robot = RobotOf[c], !.episode = e,
                      !.subTask = s, !.execution = x]

HoldSubTask(st)    == [NoBuffer EXCEPT !.subTask = st]
HoldExecution(row) == [NoBuffer EXCEPT !.execution = row]

\* The foreign key keeps the rows of an episode with subtasks in place, so the
\* statements below find the rows that the request has read.
StartedExecutions(e, s) ==
    {x \in Executions : execution[e][s][x].status = "started"}
IsNextExecution(e, s, x) ==
    \A y \in Executions : (execution[e][s][y].status = "absent") <=> y >= x

-----------------------------------------------------------------------------
(* Create *)

CreateExecution(c) ==
    \E e \in Episodes, s \in SubTasks :
        /\ OwnEpisode(c, e)
        /\ SubTaskCanStartProgress(subTask[e][s])
        /\ Begin(c, "createExecution", ExecutionRequest(c, e, s, NoExecution),
                 HoldSubTask(SubTaskStartProgress(subTask[e][s])), "createExecutionWrite")
        /\ UNCHANGED <<heartbeat, tables>>

CreateExecutionWrite(c) ==
    LET e == req[c].episode
        s == req[c].subTask
    IN  /\ pc[c] = "createExecutionWrite"
        /\ \E x \in Executions :
             /\ IsNextExecution(e, s, x)
             /\ execution' = [execution EXCEPT ![e][s][x] = InitExecution]
        /\ subTask' = [subTask EXCEPT ![e][s] = buf[c].subTask]
        /\ Respond(c)
        /\ UNCHANGED <<episode, robot, task, approved>>

-----------------------------------------------------------------------------
(* Start, Finish, Cancel *)

HoldExecutionOf(c, k, Can(_), Do(_), then) ==
    \E e \in Episodes, s \in SubTasks, x \in Executions :
        /\ OwnEpisode(c, e)
        /\ Can(execution[e][s][x])
        /\ Begin(c, k, ExecutionRequest(c, e, s, x),
                 HoldExecution(Do(execution[e][s][x])), then)
        /\ UNCHANGED <<heartbeat, tables>>

StartExecution(c) ==
    HoldExecutionOf(c, "startExecution", ExecutionCanStart, ExecutionStart,
                    "startExecutionCount")

\* Mistake: the count is not looked at.
StartExecutionUncounted(c) ==
    /\ pc[c] = "startExecutionCount"
    /\ Read(c, buf[c], "executionWrite")

\* CountStartedBySubTaskID: no other execution of the subtask may be running.
StartExecutionCount(c) ==
    /\ pc[c] = "startExecutionCount"
    /\ StartedExecutions(req[c].episode, req[c].subTask) = {}
    /\ Read(c, buf[c], "executionWrite")

FinishExecution(c) ==
    HoldExecutionOf(c, "finishExecution", ExecutionCanFinish, ExecutionFinish,
                    "executionWrite")

CancelExecution(c) ==
    HoldExecutionOf(c, "cancelExecution", ExecutionCanCancel, ExecutionCancel,
                    "executionWrite")

ExecutionWrite(c) ==
    /\ pc[c] = "executionWrite"
    /\ execution' = [execution EXCEPT
           ![req[c].episode][req[c].subTask][req[c].execution] = buf[c].execution]
    /\ Respond(c)
    /\ UNCHANGED <<episode, subTask, robot, task, approved>>

-----------------------------------------------------------------------------
(* Complete and Skip of a subtask *)

HoldSubTaskOf(c, k, Can(_), Do(_)) ==
    \E e \in Episodes, s \in SubTasks :
        /\ OwnEpisode(c, e)
        /\ Can(subTask[e][s])
        /\ Begin(c, k, ExecutionRequest(c, e, s, NoExecution),
                 HoldSubTask(Do(subTask[e][s])), "subTaskWrite")
        /\ UNCHANGED <<heartbeat, tables>>

CompleteSubTask(c) ==
    HoldSubTaskOf(c, "completeSubTask", SubTaskCanComplete, SubTaskComplete)
SkipSubTask(c) ==
    HoldSubTaskOf(c, "skipSubTask", SubTaskCanSkip, SubTaskSkip)

SubTaskWrite(c) ==
    /\ pc[c] = "subTaskWrite"
    /\ subTask' = [subTask EXCEPT ![req[c].episode][req[c].subTask] = buf[c].subTask]
    /\ Respond(c)
    /\ UNCHANGED <<episode, execution, robot, task, approved>>
=============================================================================
