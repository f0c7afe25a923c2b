------------------------------ MODULE MCTeleop ------------------------------
(***************************************************************************)
(* Small instances of Teleop.  The agents a1 and a2 send the requests of   *)
(* robots, the console o those of people; each run chooses which kinds.    *)
(***************************************************************************)
EXTENDS Documented, TLC

CONSTANTS r1, r2, a1, a2, o

\* The agents work for one robot (a retry overlaps the request it repeats), or
\* for a robot each.
OneRobot == [c \in Clients |-> r1]
TwoRobots == [c \in Clients |-> IF c = a2 THEN r2 ELSE r1]

Agents(robotKinds, consoleKinds) ==
    [c \in Clients |-> IF c = o THEN consoleKinds ELSE robotKinds]

\* The robot API, and a console that queues episodes.
ApiIssues == Agents(RobotRequests, {"create", "approve"})
\* The same with the work on subtasks, which needs no repetition of episodes.
WorkIssues == Agents({"start", "finish", "cancel"} \cup ExecutionRequests, {"create", "approve"})
\* A console that edits and deletes robots, too.
RobotEditIssues == Agents(RobotRequests, {"create", "approve", "updateRobot", "deleteRobot"})
\* Everything about episodes and the tasks they are for.
TaskEditIssues == [c \in Clients |-> {"create", "start", "finish", "cancel", "approve",
                                     "updateTask", "updateEpisode", "deleteEpisode"}]

\* One client starts and cancels, the other finishes and cancels.
HandOver == [c \in Clients |-> IF c = a1 THEN {"create", "approve", "start", "cancel", "repeat"}
                                        ELSE {"start", "finish", "cancel"}]
=============================================================================
