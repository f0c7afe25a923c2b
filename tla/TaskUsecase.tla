---------------------------- MODULE TaskUsecase ----------------------------
(***************************************************************************)
(* internal/usecase/task.go Update and task_version.go Approve: the status *)
(* of a task, which is derived from its episodes and its approved versions *)
(* but written by whoever finishes an episode, approves a version or edits *)
(* the task.                                                               *)
(***************************************************************************)
EXTENDS ExecutionUsecase

TaskRequest(t, v) == [NoRequest EXCEPT !.task = t, !.version = v]

HoldTask(status) == [NoBuffer EXCEPT !.task = status]

-----------------------------------------------------------------------------
(* Update: buf.task is the requested status, until it is replaced by the    *)
(* one computed for a task that is taken back from Canceled                 *)

UpdateTask(c) ==
    \E t \in Tasks, wanted \in TaskStatus :
        /\ Begin(c, "updateTask", TaskRequest(t, None), HoldTask(wanted),
                 IF wanted = "canceled" THEN "updateTaskWrite" ELSE "updateTaskRead")
        /\ UNCHANGED <<heartbeat, tables>>

UpdateTaskRead(c) ==
    /\ pc[c] = "updateTaskRead"
    /\ Read(c, buf[c],
            IF task[req[c].task] = "canceled" THEN "updateTaskSum" ELSE "updateTaskWrite")

UpdateTaskSum(c) ==
    /\ pc[c] = "updateTaskSum"
    /\ Read(c, [buf[c] EXCEPT !.actual = SumDuration(episode, req[c].task)],
            "updateTaskTarget")

UpdateTaskTarget(c) ==
    LET target == SumTarget(approved[req[c].task])
    IN  /\ pc[c] = "updateTaskTarget"
        /\ Read(c, [buf[c] EXCEPT !.target = target,
                                  !.task = DetermineTaskStatus(buf[c].actual, target)],
                "updateTaskWrite")

UpdateTaskWrite(c) ==
    /\ pc[c] = "updateTaskWrite"
    /\ task' = [task EXCEPT ![req[c].task] = buf[c].task]
    /\ Respond(c)
    /\ UNCHANGED <<episode, subTask, execution, robot, approved>>

-----------------------------------------------------------------------------
(* Approve: the check comes before the transaction; the transaction sees    *)
(* its own version among the approved ones                                  *)

Approve(c) ==
    \E t \in Tasks, v \in Versions :
        /\ v \notin approved[t]
        /\ Begin(c, "approve", TaskRequest(t, v), NoBuffer, "approveWrite")
        /\ UNCHANGED <<heartbeat, tables>>

\* The version's row is locked from here to the commit.
ApproveWrite(c) ==
    /\ pc[c] = "approveWrite"
    /\ \A d \in Clients \ {c} :
         pc[d] \in {"approveTarget", "approveTask", "approveCommit"} =>
             ~(req[d].task = req[c].task /\ req[d].version = req[c].version)
    /\ Read(c, [buf[c] EXCEPT !.actual = SumDuration(episode, req[c].task)],
            "approveTarget")

ApproveTarget(c) ==
    /\ pc[c] = "approveTarget"
    /\ Read(c, [buf[c] EXCEPT !.target =
                    SumTarget(approved[req[c].task] \cup {req[c].version})],
            "approveTask")

ApproveTask(c) ==
    /\ pc[c] = "approveTask"
    /\ Read(c, [buf[c] EXCEPT !.task = task[req[c].task]], "approveCommit")

ApproveCommit(c) ==
    /\ pc[c] = "approveCommit"
    /\ approved' = [approved EXCEPT ![req[c].task] = @ \cup {req[c].version}]
    /\ WriteTaskStatus(c)
    /\ Respond(c)
    /\ UNCHANGED <<episode, subTask, execution, robot>>
=============================================================================
