---------------------------- MODULE MCTaskClient ----------------------------
(* Model-checking instance of TaskClient. *)
EXTENDS TaskClient, TLC

MCCallers == {"loop", "service"} \cup Clients

MCTasks == {Inventory} \cup UNION {{Notification(c), PatchRun(c)} : c \in Clients}

\* Clients are interchangeable; for the runs without liveness.
MCSymmetry == Permutations(Clients)
=============================================================================
