----------------------------- MODULE Documented -----------------------------
(***************************************************************************)
(* What the repository's documents, comments and error messages say of the *)
(* program and its behaviours do not always do.  Each run on one of these  *)
(* properties ends in a counterexample; the README tells what it shows.    *)
(***************************************************************************)
EXTENDS Teleop

\* "The episode transitions from Ready to Recording, and the robot status
\* changes from Online to Busy" (docs/robot-api-guide.md:239), and the episode's
\* end returns it (344, 362): a recording robot is Busy.
RecordingImpliesBusy ==
    \A r \in Robots, e \in Episodes : Recording(e, r) => Busy(r)

\* "cannot cancel completed subtask" (domain/model/episode_sub_task.go:132, its
\* test episode_sub_task_test.go:392, and the diagram of docs/robot-api-guide.md:
\* 472-478, in which Completed leads nowhere): a completed subtask is never
\* cancelled.
CompletedWorkStays ==
    [][\A e \in Episodes, s \in SubTasks :
         subTask[e][s] = "completed" => subTask'[e][s] # "cancelled"]_subTask
=============================================================================
