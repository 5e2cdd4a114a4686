----------------------------- MODULE MCExecutor -----------------------------
(* Small configurations of an executor for TLC.                            *)
EXTENDS ExecutorProperties

Plain == [mean |-> "Local", valid |-> TRUE, abortable |-> TRUE, maxTries |-> 1,
          pause |-> FALSE, deadline |-> FALSE, successes |-> {"zero"}]

\* A command with pauses and a deadline, an abortable one without, a request, a
\* task with no command to run, and a background task.
Means ==
  <<[Plain EXCEPT !.maxTries = 2, !.pause = TRUE, !.deadline = TRUE],
    [Plain EXCEPT !.maxTries = 3],
    [Plain EXCEPT !.mean = "Http", !.maxTries = 2, !.pause = TRUE],
    [Plain EXCEPT !.mean = "Nothing"],
    [Plain EXCEPT !.mean = "Background", !.valid = FALSE, !.maxTries = 2],
    [Plain EXCEPT !.mean = "Background", !.deadline = TRUE]>>
=============================================================================
