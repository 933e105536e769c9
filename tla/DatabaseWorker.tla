--------------------------- MODULE DatabaseWorker ---------------------------
(***************************************************************************)
(* DatabaseWorker: the thread behind one asynchronous connection.  Worker  *)
(* w belongs to connection w; all of them pop from the same queue.         *)
(*                                                                         *)
(* A task is a number, given out in the order of submission.  answer[t]    *)
(* stands for what becomes of it: for the tasks with a result it is the    *)
(* state of their std::promise ("broken" is a std::future_error            *)
(* broken_promise in the caller), for the others whether they were run.    *)
(***************************************************************************)
EXTENDS ProducerConsumerQueue

CONSTANTS
    AsyncThreads,  \* _asyncThreadCount, the asyncThreadCount of Open
    MaxTasks       \* bound: how many tasks the clients submit

ASSUME AsyncThreadsAssumption == AsyncThreads \in Nat \ {0}
ASSUME MaxTasksAssumption     == MaxTasks \in Nat
ASSUME NoTaskAssumption       == NoTask = 0

Workers == 1 .. AsyncThreads
Tasks   == 1 .. MaxTasks

VARIABLES
    stage,      \* where WorkThread of worker w is
    operation,  \* the task its unique_ptr "operation" owns, or NoTask
    canceling,  \* _canceling
    answer      \* what became of task t

workerVars == <<stage, operation, canceling, answer>>

\* "none": no thread; "pop": in _queue->WaitAndPop(); "check": about to test
\* _canceling and operation; "start": past the test; "run": in
\* operation->Execute(); "returned": the thread function has ended and the
\* thread can be joined.
Stages  == {"none", "pop", "check", "start", "run", "returned"}
Answers == {"unborn", "pending", "done", "broken"}

InitWorkers == /\ stage     = [w \in Workers |-> "none"]
               /\ operation = [w \in Workers |-> NoTask]
               /\ canceling = [w \in Workers |-> FALSE]
               /\ answer    = [t \in Tasks |-> "unborn"]

\* The unique_ptr goes out of scope with the task unanswered: the task is
\* deleted and its promise broken.
Dropped(t) == IF t = NoTask THEN answer ELSE [answer EXCEPT ![t] = "broken"]

\* The constructor: the thread starts before the connection is opened.
StartThread(w) == /\ stage'     = [stage EXCEPT ![w] = "pop"]
                  /\ canceling' = [canceling EXCEPT ![w] = FALSE]
                  /\ UNCHANGED <<operation, answer>>

\* WorkThread, line by line.
Wait(w) == /\ stage[w] = "pop"
           /\ Sleep(w)
           /\ UNCHANGED workerVars

Take(w) == /\ stage[w] = "pop"
           /\ w \notin asleep
           /\ WaitPredicate
           /\ operation' = [operation EXCEPT ![w] = Front]
           /\ stage'     = [stage EXCEPT ![w] = "check"]
           /\ PopFront
           /\ UNCHANGED <<canceling, answer>>

\* if (_canceling || nullptr == operation) return;
MustReturn(w) == canceling[w] \/ operation[w] = NoTask

Check(w) == /\ stage[w] = "check"
            /\ IF MustReturn(w)
               THEN /\ stage'     = [stage EXCEPT ![w] = "returned"]
                    /\ answer'    = Dropped(operation[w])
                    /\ operation' = [operation EXCEPT ![w] = NoTask]
               ELSE /\ stage'     = [stage EXCEPT ![w] = "start"]
                    /\ UNCHANGED <<answer, operation>>
            /\ UNCHANGED <<queueVars, canceling>>

\* operation->SetConnection(_sqlConn) and the call of Execute().  _canceling may
\* have been set since the test: the task is started all the same.
Start(w) == /\ stage[w] = "start"
            /\ stage'   = [stage EXCEPT ![w] = "run"]
            /\ UNCHANGED <<queueVars, operation, canceling, answer>>

\* operation->Execute() returns, having set the promise if there is one, and
\* the loop deletes the task.
Execute(w) == /\ stage[w] = "run"
              /\ stage'     = [stage EXCEPT ![w] = "pop"]
              /\ answer'    = [answer EXCEPT ![operation[w]] = "done"]
              /\ operation' = [operation EXCEPT ![w] = NoTask]
              /\ UNCHANGED <<queueVars, canceling>>

\* operation->Execute() throws.  The try block encloses the loop, so the
\* handler ends the thread.
Throw(w) == /\ stage[w] = "run"
            /\ stage'     = [stage EXCEPT ![w] = "returned"]
            /\ answer'    = Dropped(operation[w])
            /\ operation' = [operation EXCEPT ![w] = NoTask]
            /\ UNCHANGED <<queueVars, canceling>>

\* The steps that touch the shared queue, and those that do not.
WaitAndPop(w) == Wait(w) \/ Take(w)
HandleTask(w) == Check(w) \/ Start(w) \/ Execute(w) \/ Throw(w)

SpuriousWakeup(w) == WakeUp(w) /\ UNCHANGED workerVars
=============================================================================
