-------------------------- MODULE AsyncTaskService --------------------------
(***************************************************************************)
(* What the asynchronous half of the database pool promises its clients,   *)
(* with no queue, threads or locks in sight: tasks are started one by one  *)
(* in the order of their submission, each at most once; a started task     *)
(* ends done or broken; shutting down breaks every task that has not been  *)
(* started, and nothing is started afterwards.                             *)
(***************************************************************************)
EXTENDS Naturals

CONSTANT MaxTasks   \* bound: how many tasks the clients submit

VARIABLES status, closed

Tasks == 1 .. MaxTasks

Init == /\ status = [t \in Tasks |-> "unborn"]
        /\ closed = FALSE

\* A task is accepted at any time, also after the shutdown.
Submit(t) == /\ status[t] = "unborn"
             /\ \A u \in Tasks : u < t => status[u] # "unborn"
             /\ status' = [status EXCEPT ![t] = "queued"]
             /\ UNCHANGED closed

Start(t) == /\ ~closed
            /\ status[t] = "queued"
            /\ \A u \in Tasks : u < t => status[u] # "queued"
            /\ status' = [status EXCEPT ![t] = "running"]
            /\ UNCHANGED closed

Finish(t) == /\ status[t] = "running"
             /\ \E outcome \in {"done", "broken"} :
                    status' = [status EXCEPT ![t] = outcome]
             /\ UNCHANGED closed

Shutdown == /\ closed' = TRUE
            /\ status' = [t \in Tasks |-> IF status[t] = "queued" THEN "broken"
                                                                  ELSE status[t]]

Next == \/ Shutdown
        \/ \E t \in Tasks : Submit(t) \/ Start(t) \/ Finish(t)

Spec == Init /\ [][Next]_<<status, closed>>
=============================================================================
