---------------------------- MODULE RobotUsecase ----------------------------
(***************************************************************************)
(* internal/usecase/robot.go: editing and deleting a robot in the console, *)
(* read, check and write without a transaction; and the life of the        *)
(* robot's status key in Redis, which the robot's reports keep alive.      *)
(***************************************************************************)
EXTENDS EpisodeUsecase

RobotRequest(r) == [NoRequest EXCEPT !.robot = r]
HoldRobot(row)  == [NoBuffer EXCEPT !.robot = row]

\* The manual changes of status: to Ready, Faulted or Maintenance, from
\* Faulted and Maintenance only to another of the three, and never from Busy.
ManualStatus == {"ready", "faulted", "maintenance"}

CanSetStatus(rob, wanted) ==
    /\ wanted \in ManualStatus
    /\ rob.status # "busy"
    /\ rob.status \in {"faulted", "maintenance"} => wanted # rob.status

\* Mistake: the time of a fault outlives it.
SetStatusKeepsFault(rob, wanted) ==
    [rob EXCEPT !.status = wanted, !.faultSince = @ \/ wanted = "faulted"]

SetStatus(rob, wanted) ==
    [rob EXCEPT !.status = wanted,
                !.faultSince = wanted = "faulted" \/ (@ /\ rob.status # "faulted")]

\* An edit of the name, the type or the configuration keeps the status, and is
\* allowed in every status; it writes the whole row all the same.
UpdateRobot(c) ==
    \E r \in Robots :
        /\ RobotExists(r)
        /\ \E row \in {robot[r]} \cup {SetStatus(robot[r], wanted) :
                         wanted \in {w \in ManualStatus : CanSetStatus(robot[r], w)}} :
             Begin(c, "updateRobot", RobotRequest(r), HoldRobot(row), "updateRobotWrite")
        /\ UNCHANGED <<heartbeat, tables>>

UpdateRobotWrite(c) ==
    LET r == req[c].robot
    IN  /\ pc[c] = "updateRobotWrite"
        /\ RobotExists(r)
        /\ RobotFree(c, r)
        /\ robot' = [robot EXCEPT ![r] = buf[c].robot]
        /\ Respond(c)
        /\ UNCHANGED <<episode, subTask, execution, task, approved>>

\* Mistake: a Busy robot can be deleted.
DeleteAnyRobot(c) ==
    \E r \in Robots :
        /\ RobotExists(r)
        /\ Begin(c, "deleteRobot", RobotRequest(r), NoBuffer, "deleteRobotWrite")
        /\ UNCHANGED <<heartbeat, tables>>

DeleteRobot(c) ==
    \E r \in Robots :
        /\ RobotExists(r)
        /\ robot[r].status # "busy"
        /\ Begin(c, "deleteRobot", RobotRequest(r), NoBuffer, "deleteRobotWrite")
        /\ UNCHANGED <<heartbeat, tables>>

DeleteRobotWrite(c) ==
    LET r == req[c].robot
    IN  /\ pc[c] = "deleteRobotWrite"
        /\ RobotExists(r)
        /\ RobotFree(c, r)
        /\ robot' = [robot EXCEPT ![r].status = "deleted"]
        /\ Respond(c)
        /\ UNCHANGED <<episode, subTask, execution, task, approved>>

-----------------------------------------------------------------------------
(* gateway/robot_status.go: a key with a time to live *)

\* A status report of the robot sets the key again.
Heartbeat(r) ==
    /\ RobotExists(r)
    /\ ~heartbeat[r]
    /\ heartbeat' = [heartbeat EXCEPT ![r] = TRUE]
    /\ UNCHANGED <<tables, clients>>

\* No report for as long as the key lives.
HeartbeatExpires(r) ==
    /\ heartbeat[r]
    /\ heartbeat' = [heartbeat EXCEPT ![r] = FALSE]
    /\ UNCHANGED <<tables, clients>>
=============================================================================
