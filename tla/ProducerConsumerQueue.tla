----------------------- MODULE ProducerConsumerQueue -----------------------
(***************************************************************************)
(* ProducerConsumerQueue<T>: the FIFO between the threads that submit SQL  *)
(* tasks and the threads that run them.  Every member function holds       *)
(* _queueLock from its first line to its last, and _condition.wait gives   *)
(* the lock back only while the caller sleeps, so each stretch of code     *)
(* between taking and giving back the lock is one atomic step.             *)
(*                                                                         *)
(* A condition variable is its wait set: the threads asleep in             *)
(* _condition.wait.  notify_one takes an arbitrary one of them out,        *)
(* notify_all empties it, and a thread taken out evaluates the predicate   *)
(* again before wait returns.                                              *)
(***************************************************************************)
EXTENDS Naturals, Sequences

CONSTANTS NoTask   \* the value-initialised T of "T value{}" (a null pointer)

VARIABLES
    queue,      \* _queue: the tasks pushed and not yet popped
    shutdown,   \* _shutdown
    asleep      \* the wait set of _condition

queueVars == <<queue, shutdown, asleep>>

InitQueue == queue = <<>> /\ shutdown = FALSE /\ asleep = {}

\* _condition.notify_one()
NotifyNobody == UNCHANGED asleep
NotifyOne == IF asleep = {} THEN UNCHANGED asleep
                            ELSE \E w \in asleep : asleep' = asleep \ {w}

\* Push.  The queue accepts tasks after Clear as well: _shutdown is not read.
PushInFront(value) == /\ queue' = <<value>> \o queue
                      /\ NotifyOne
                      /\ UNCHANGED shutdown
PushNotifyingIfEmpty(value) == /\ queue' = Append(queue, value)
                               /\ IF queue = <<>> THEN NotifyOne ELSE NotifyNobody
                               /\ UNCHANGED shutdown
Push(value) == /\ queue' = Append(queue, value)
               /\ NotifyOne
               /\ UNCHANGED shutdown

\* The predicate of T WaitAndPop(): the wait ends only on a task, and never
\* once _shutdown is set.
WaitPredicate == queue # <<>> /\ ~shutdown

\* T WaitAndPop() finds the predicate false and sleeps.
Sleep(w) == /\ w \notin asleep
            /\ ~WaitPredicate
            /\ asleep' = asleep \cup {w}
            /\ UNCHANGED <<queue, shutdown>>

\* A wakeup nobody asked for, which std::condition_variable may deliver.
WakeUp(w) == /\ w \in asleep
             /\ asleep' = asleep \ {w}
             /\ UNCHANGED <<queue, shutdown>>

\* What T WaitAndPop() returns, and what it leaves behind, when the wait ends.
\* The early return on an empty or closed queue cannot be taken behind
\* WaitPredicate; it is kept because the code has it.
NothingToPop == queue = <<>> \/ shutdown
Back == IF NothingToPop THEN NoTask ELSE queue[Len(queue)]
Front == IF NothingToPop THEN NoTask ELSE Head(queue)

KeepFront == UNCHANGED queueVars
PopFront == /\ queue' = IF NothingToPop THEN queue ELSE Tail(queue)
            /\ UNCHANGED <<shutdown, asleep>>

\* Clear: every queued task is deleted, the queue is shut down for good and
\* every sleeper is woken.
Clear == /\ queue' = <<>>
         /\ shutdown' = TRUE
         /\ asleep' = {}
============================================================================
