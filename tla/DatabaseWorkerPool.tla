------------------------- MODULE DatabaseWorkerPool -------------------------
(***************************************************************************)
(* DatabaseWorkerPool, its asynchronous half: the thread that owns the     *)
(* pool opens the connections, closes them and destroys the pool; other    *)
(* threads submit tasks; one DatabaseWorker per connection runs them.      *)
(*                                                                         *)
(* The owner is one thread, so owner says which statement of Open, Close   *)
(* or the destructor it executes next.  Destroying connection "cursor" is  *)
(* ~IMySqlConnection: Close() resets _worker first, whose destructor sets  *)
(* _canceling, clears the shared queue and joins the thread, and only then *)
(* closes the MySQL handle.                                                *)
(***************************************************************************)
EXTENDS DatabaseWorker, FiniteSets

VARIABLES
    owner,      \* the next statement of the owning thread
    cursor,     \* the connection it constructs, opens or destroys
    built,      \* how many asynchronous connections exist
    conn,       \* the MySQL handle of each asynchronous connection
    opened,     \* Open has returned, so clients may use the pool
    submitted   \* how many tasks the clients have submitted

poolVars == <<owner, cursor, built, conn, opened, submitted>>
vars     == <<queueVars, workerVars, poolVars>>

OwnerSteps == {"construct", "connect", "idle", "cancel", "clear", "join",
               "free", "gone"}
ConnStates == {"none", "constructed", "open", "closed"}

Init == /\ InitQueue
        /\ InitWorkers
        /\ owner     = "construct"
        /\ cursor    = 1
        /\ built     = 0
        /\ conn      = [w \in Workers |-> "none"]
        /\ opened    = FALSE
        /\ submitted = 0

-----------------------------------------------------------------------------
(* Open, and the loop of OpenConnections.                                  *)

\* make_unique<ConnectionType>(_queue.get(), ...): the worker thread is
\* running when the constructor returns.
Construct == /\ owner  = "construct"
             /\ owner' = "connect"
             /\ built' = cursor
             /\ conn'  = [conn EXCEPT ![cursor] = "constructed"]
             /\ StartThread(cursor)
             /\ UNCHANGED <<queueVars, cursor, opened, submitted>>

\* pConnection->Open() returns 0; the last connection ends Open.
OneTooMany    == cursor <= AsyncThreads
MoreToConnect == cursor < AsyncThreads

ConnectSucceeds ==
    /\ owner = "connect"
    /\ conn' = [conn EXCEPT ![cursor] = "open"]
    /\ IF MoreToConnect
       THEN owner' = "construct" /\ cursor' = cursor + 1 /\ UNCHANGED opened
       ELSE owner' = "idle" /\ opened' = TRUE /\ UNCHANGED cursor
    /\ UNCHANGED <<queueVars, workerVars, built, submitted>>

\* pConnection->Open() returns an error: the connections opened before it are
\* destroyed, then the one that failed.
ConnectFails == /\ owner   = "connect"
                /\ owner'  = "cancel"
                /\ cursor' = 1
                /\ UNCHANGED <<queueVars, workerVars, built, conn, opened, submitted>>

-----------------------------------------------------------------------------
(* Close: _connections[EConnectionTypeIndex_Async].clear().                *)

Close == /\ owner   = "idle"
         /\ built   > 0
         /\ owner'  = "cancel"
         /\ cursor' = 1
         /\ UNCHANGED <<queueVars, workerVars, built, conn, opened, submitted>>

\* ~DatabaseWorker: _canceling = true;
Cancel == /\ owner     = "cancel"
          /\ owner'    = "clear"
          /\ canceling' = [canceling EXCEPT ![cursor] = TRUE]
          /\ UNCHANGED <<queueVars, stage, operation, answer,
                         cursor, built, conn, opened, submitted>>

\* _queue->Clear() deletes the queued tasks and so breaks their promises.
Queued(t) == \E i \in 1 .. Len(queue) : queue[i] = t

ClearQueue == /\ Clear
              /\ answer' = [t \in Tasks |-> IF Queued(t) THEN "broken" ELSE answer[t]]
              /\ UNCHANGED <<stage, operation, canceling>>

\* ~DatabaseWorker: _queue->Clear();
ClearForWorker == /\ owner  = "clear"
                  /\ owner' = "join"
                  /\ ClearQueue
                  /\ UNCHANGED <<cursor, built, conn, opened, submitted>>

\* ~DatabaseWorker: _workerThread.join() returns once the thread function has
\* ended; IMySqlConnection::Close then closes the handle and the owner goes on
\* with the next connection.
ThreadDetached == TRUE
ThreadEnded    == stage[cursor] = "returned"

Join == /\ owner = "join"
        /\ ThreadEnded
        /\ conn' = [conn EXCEPT ![cursor] = "closed"]
        /\ IF cursor < built
           THEN /\ owner'  = "cancel"
                /\ cursor' = cursor + 1
                /\ UNCHANGED <<built, opened>>
           ELSE /\ owner'  = "idle"
                /\ built'  = 0
                /\ opened' = TRUE
                /\ UNCHANGED cursor
        /\ UNCHANGED <<queueVars, workerVars, submitted>>

-----------------------------------------------------------------------------
(* ~DatabaseWorkerPool.                                                    *)

\* The body of the destructor: _queue->Clear().
DestroyUncleared == /\ owner  = "idle"
                    /\ owner' = "free"
                    /\ UNCHANGED <<queueVars, workerVars, cursor, built, conn, opened, submitted>>

Destroy == /\ owner  = "idle"
           /\ owner' = "free"
           /\ ClearQueue
           /\ UNCHANGED <<cursor, built, conn, opened, submitted>>

\* The members are destroyed in the reverse order of their declaration: the
\* queue is freed before _connections.  From here on a worker that touches
\* the queue touches freed memory, and the model stops following it.
FreeQueue == /\ owner  = "free"
             /\ owner' = "gone"
             /\ UNCHANGED <<queueVars, workerVars, cursor, built, conn, opened, submitted>>

QueueAlive == owner # "gone"

-----------------------------------------------------------------------------
(* The clients: AsyncExecute, AsyncQuery, CommitTransaction and            *)
(* CommitTransactionWithCallback make a task and push it.                  *)

Submit == /\ opened
          /\ owner \in {"idle", "cancel", "clear", "join"}
          /\ submitted < MaxTasks
          /\ submitted' = submitted + 1
          /\ Push(submitted + 1)
          /\ answer' = [answer EXCEPT ![submitted + 1] = "pending"]
          /\ UNCHANGED <<stage, operation, canceling, owner, cursor, built, conn, opened>>

-----------------------------------------------------------------------------
Owner == \/ Construct \/ ConnectSucceeds \/ ConnectFails
         \/ Close \/ Cancel \/ ClearForWorker \/ Join
         \/ Destroy \/ FreeQueue

Worker(w) == \/ QueueAlive /\ WaitAndPop(w) /\ UNCHANGED poolVars
             \/ HandleTask(w) /\ UNCHANGED poolVars

Next == \/ Owner
        \/ Submit
        \/ \E w \in Workers : Worker(w)
        \/ \E w \in Workers : QueueAlive /\ SpuriousWakeup(w) /\ UNCHANGED poolVars

Spec == Init /\ [][Next]_vars

\* The scheduler runs every worker that can run, every query comes back, and
\* the owner finishes what it began.  Nobody has to submit, to close or to
\* destroy the pool, and no spurious wakeup is counted on.
OwnerGoesOn == \/ Construct \/ ConnectSucceeds \/ ConnectFails
               \/ Cancel \/ ClearForWorker \/ Join \/ FreeQueue

Fairness == /\ WF_vars(OwnerGoesOn)
            /\ \A w \in Workers : WF_vars(Worker(w))

FairSpec == Spec /\ Fairness

-----------------------------------------------------------------------------
(* Properties.                                                             *)

\* Types of every variable of the three modules.
TypeOK == /\ queue \in Seq(Tasks)
          /\ shutdown \in BOOLEAN
          /\ asleep \subseteq Workers
          /\ stage \in [Workers -> Stages]
          /\ operation \in [Workers -> Tasks \cup {NoTask}]
          /\ canceling \in [Workers -> BOOLEAN]
          /\ answer \in [Tasks -> Answers]
          /\ owner \in OwnerSteps
          /\ cursor \in Workers
          /\ built \in 0 .. AsyncThreads
          /\ conn \in [Workers -> ConnStates]
          /\ opened \in BOOLEAN
          /\ submitted \in 0 .. MaxTasks

Owned(t)  == \E w \in Workers : operation[w] = t

QueuedOnce    == \A i, j \in 1 .. Len(queue) : queue[i] = queue[j] => i = j
OwnedOnce     == \A v, w \in Workers :
                     operation[v] = operation[w] /\ operation[v] # NoTask => v = w
NeverBoth     == \A t \in Tasks : ~ (Queued(t) /\ Owned(t))
PendingIsHeld == \A t \in Tasks : answer[t] = "pending" <=> Queued(t) \/ Owned(t)

\* A raw ISqlTask pointer goes from the client through the queue to the
\* unique_ptr of one worker.  A task whose promise is still pending is held in
\* exactly one of those places, once, and a task that was answered is held
\* nowhere: nothing is lost, run twice or deleted twice, whatever the workers,
\* the clients and the owner's Close do at the same time.
OneOwner == QueuedOnce /\ OwnedOnce /\ NeverBoth /\ PendingIsHeld

QueueInOrder == \A i, j \in 1 .. Len(queue) : i < j => queue[i] < queue[j]
Taken(t)     == Owned(t) \/ answer[t] \in {"done", "broken"}

\* Tasks leave the queue in the order they were submitted: the queue is in that
\* order, and every task a worker holds or has answered was submitted before
\* every task still queued.
TakenInOrder == /\ QueueInOrder
                /\ \A t \in Tasks : Taken(t) =>
                       \A i \in 1 .. Len(queue) : t < queue[i]

\* Push wakes at most one sleeper and only while it holds the lock, a woken
\* worker may find its task taken by one that never slept, and a worker may
\* die in Execute.  Still, while a worker sleeps on the open queue, there are
\* at least as many awake workers on their way to the queue as queued tasks:
\* no task waits for a wakeup that has been lost.
OnTheWay == {w \in Workers : stage[w] = "pop"} \ asleep

NoLostWakeup == ~shutdown /\ asleep # {} => Len(queue) <= Cardinality(OnTheWay)

\* A worker runs a task only on a handle that Open has opened and that Close
\* has not yet closed, although the worker starts before Open and is told to
\* stop while it may be anywhere in its loop: one that is past its test of
\* _canceling gives its task the connection and starts it all the same.
RunsOnOpenHandle ==
    \A w \in Workers : stage[w] \in {"start", "run"} => conn[w] = "open"

\* Every task submitted to an open queue is answered in the end, unless every
\* worker's thread has ended, Close and the destructor included.
AnsweredOrAbandoned ==
    \A t \in Tasks :
        answer[t] = "pending" /\ ~shutdown ~>
            \/ answer[t] \in {"done", "broken"}
            \/ \A w \in Workers : stage[w] = "returned"

\* The pool implements the service its clients see.
Status(t) == CASE answer[t] # "pending" -> answer[t]
               [] answer[t] = "pending" /\ Owned(t) -> "running"
               [] OTHER -> "queued"

Service == INSTANCE AsyncTaskService
               WITH status <- [t \in Tasks |-> Status(t)], closed <- shutdown

\* Every step of the pool is a step of AsyncTaskService or invisible there:
\* tasks start in order and at most once, and none starts after a shutdown.
ImplementsService == Service!Spec

\* Close and the destructors of the connections come to an end: shutting the
\* queue down makes every worker's WaitAndPop return, as the loop in the
\* comment of WaitAndPop would.
CloseReturns == owner = "cancel" ~> owner = "idle"

\* When the members of a pool that was closed are destroyed, the queue before the
\* connections, no worker's thread is left that could use it.  A pool that was
\* not closed gives no such guarantee.
ClosedPoolDiesSafely ==
    owner = "gone" /\ built = 0 => \A w \in Workers : stage[w] \in {"none", "returned"}

\* Push does not look at _shutdown, so a task submitted to a closed pool stays in
\* the queue and its client waits.  Destroying the pool ends that: once a pool that was
\* closed is destroyed, no task ever submitted is without an answer, whether it came before,
\* during or after Close.
ClosedPoolAnswersAll ==
    owner = "gone" /\ built = 0 => \A t \in Tasks : answer[t] # "pending"
=============================================================================
