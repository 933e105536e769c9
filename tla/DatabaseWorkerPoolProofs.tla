---------------------- MODULE DatabaseWorkerPoolProofs ----------------------
(***************************************************************************)
(* Proofs about DatabaseWorkerPool, for every number of workers and tasks. *)
(***************************************************************************)
EXTENDS DatabaseWorkerPool, TLAPS, SequenceTheorems, FiniteSetTheorems

(***************************************************************************)
(* The queue's operations on sequences of tasks.                           *)
(***************************************************************************)

\* What popping leaves behind is a queue of tasks, and what it returns is a
\* task or the null pointer.
LEMMA PopType ==
  ASSUME queue \in Seq(Tasks), PopFront
  PROVE  queue' \in Seq(Tasks) /\ Front \in Tasks \cup {NoTask}
<1>1. CASE NothingToPop
  BY <1>1 DEF PopFront, Front
<1>2. CASE ~NothingToPop
  BY <1>2, HeadTailProperties DEF PopFront, Front, NothingToPop
<1> QED BY <1>1, <1>2

\* Pushing a task keeps a queue of tasks, and wakes only workers.
LEMMA PushType ==
  ASSUME queue \in Seq(Tasks), asleep \subseteq Workers, NEW t \in Tasks, Push(t)
  PROVE  queue' \in Seq(Tasks) /\ asleep' \subseteq Workers
BY DEF Push, NotifyOne

(***************************************************************************)
(* Type correctness.                                                       *)
(***************************************************************************)
LEMMA TypeInit == Init => TypeOK
<1> SUFFICES ASSUME Init PROVE TypeOK
  OBVIOUS
<1>1. cursor \in Workers /\ built \in 0 .. AsyncThreads /\ submitted \in 0 .. MaxTasks
  BY AsyncThreadsAssumption, MaxTasksAssumption DEF Init, Workers
<1>2. queue \in Seq(Tasks)
  BY EmptySeq DEF Init, InitQueue
<1>3. shutdown \in BOOLEAN /\ asleep \subseteq Workers
  BY DEF Init, InitQueue
<1>4. stage \in [Workers -> Stages]
  BY DEF Init, InitWorkers, Stages
<1>5. answer \in [Tasks -> Answers]
  BY DEF Init, InitWorkers, Answers
<1>6. /\ operation \in [Workers -> Tasks \cup {NoTask}]
      /\ canceling \in [Workers -> BOOLEAN]
      /\ conn \in [Workers -> ConnStates]
  BY DEF Init, InitWorkers, ConnStates
<1> QED BY <1>1, <1>2, <1>3, <1>4, <1>5, <1>6 DEF Init, TypeOK, OwnerSteps

LEMMA ClearType ==
  ASSUME TypeOK, ClearQueue
  PROVE  /\ queue' \in Seq(Tasks)
         /\ shutdown' \in BOOLEAN
         /\ asleep' \subseteq Workers
         /\ answer' \in [Tasks -> Answers]
         /\ UNCHANGED <<stage, operation, canceling>>
BY DEF TypeOK, ClearQueue, Clear, Answers

LEMMA TypeOwner == TypeOK /\ Owner => TypeOK'
<1> SUFFICES ASSUME TypeOK, Owner PROVE TypeOK'
  OBVIOUS
<1>0. 1 \in Workers /\ \A w \in Workers : w \in 0 .. AsyncThreads
  BY AsyncThreadsAssumption DEF Workers
<1> USE DEF TypeOK, queueVars, workerVars
<1>1. CASE Construct
  BY <1>0, <1>1 DEF Construct, StartThread, Stages, OwnerSteps, ConnStates
<1>2. CASE ConnectSucceeds
  <2>1. cursor' \in Workers
    BY <1>2, AsyncThreadsAssumption DEF ConnectSucceeds, MoreToConnect, Workers
  <2> QED BY <1>2, <2>1 DEF ConnectSucceeds, OwnerSteps, ConnStates
<1>3. CASE ConnectFails
  BY <1>0, <1>3 DEF ConnectFails, OwnerSteps
<1>4. CASE Close
  BY <1>0, <1>4 DEF Close, OwnerSteps
<1>5. CASE Cancel
  BY <1>5 DEF Cancel, OwnerSteps
<1>6. CASE ClearForWorker
  BY <1>6, ClearType DEF ClearForWorker, OwnerSteps
<1>7. CASE Join
  <2>1. cursor' \in Workers /\ built' \in 0 .. AsyncThreads
    BY <1>7, AsyncThreadsAssumption DEF Join, Workers
  <2> QED BY <1>7, <2>1 DEF Join, OwnerSteps, ConnStates
<1>8. CASE Destroy
  BY <1>8, ClearType DEF Destroy, OwnerSteps
<1>9. CASE FreeQueue
  BY <1>9 DEF FreeQueue, OwnerSteps
<1> QED BY <1>1, <1>2, <1>3, <1>4, <1>5, <1>6, <1>7, <1>8, <1>9 DEF Owner

LEMMA TypeSubmit == TypeOK /\ Submit => TypeOK'
<1> SUFFICES ASSUME TypeOK, Submit PROVE TypeOK'
  OBVIOUS
<1>1. submitted + 1 \in Tasks
  BY MaxTasksAssumption DEF Submit, TypeOK, Tasks
<1>2. queue' \in Seq(Tasks) /\ asleep' \subseteq Workers
  BY <1>1, PushType DEF Submit, TypeOK
<1> QED BY <1>1, <1>2, MaxTasksAssumption DEF Submit, Push, TypeOK, Answers, Tasks

LEMMA TypeWorker ==
  ASSUME TypeOK, NEW w \in Workers, Worker(w) \/ (SpuriousWakeup(w) /\ UNCHANGED poolVars)
  PROVE  TypeOK'
<1> USE DEF TypeOK, queueVars, workerVars, poolVars
<1>1. CASE Wait(w) /\ UNCHANGED poolVars
  BY <1>1 DEF Wait, Sleep
<1>2. CASE Take(w) /\ UNCHANGED poolVars
  <2>1. queue' \in Seq(Tasks) /\ Front \in Tasks \cup {NoTask}
    BY <1>2, PopType DEF Take
  <2> QED BY <1>2, <2>1 DEF Take, PopFront, Stages
<1>3. CASE Check(w) /\ UNCHANGED poolVars
  BY <1>3 DEF Check, Dropped, Stages, Answers
<1>7. CASE Start(w) /\ UNCHANGED poolVars
  BY <1>7 DEF Start, Stages
<1>4. CASE Execute(w) /\ UNCHANGED poolVars
  BY <1>4 DEF Execute, Stages, Answers
<1>5. CASE Throw(w) /\ UNCHANGED poolVars
  BY <1>5 DEF Throw, Dropped, Stages, Answers
<1>6. CASE SpuriousWakeup(w) /\ UNCHANGED poolVars
  BY <1>6 DEF SpuriousWakeup, WakeUp
<1> QED BY <1>1, <1>2, <1>3, <1>4, <1>5, <1>6, <1>7
        DEF Worker, WaitAndPop, HandleTask

LEMMA TypeStep == TypeOK /\ [Next]_vars => TypeOK'
<1> SUFFICES ASSUME TypeOK, [Next]_vars PROVE TypeOK'
  OBVIOUS
<1>1. CASE UNCHANGED vars
  BY <1>1 DEF TypeOK, vars, queueVars, workerVars, poolVars
<1>2. CASE Next
  BY <1>2, TypeOwner, TypeSubmit, TypeWorker DEF Next
<1> QED BY <1>1, <1>2

\* Every reachable state of the pool is well typed: the queue holds tasks only,
\* and only workers sleep on it.
THEOREM TypeCorrect == Spec => []TypeOK
<1> QED BY TypeInit, TypeStep, PTL DEF Spec

(***************************************************************************)
(* One owner per task.  The invariants OneOwner and TakenInOrder are not   *)
(* inductive: they need to know which tasks have been submitted, at which  *)
(* stages a worker holds a task, and that the thread under construction    *)
(* has not started.                                                        *)
(***************************************************************************)
Born == \A t \in Tasks : answer[t] = "unborn" <=> t > submitted

HoldsTask == \A w \in Workers : operation[w] # NoTask <=> stage[w] \in {"check", "start", "run"}

NotStarted(w) == w > cursor \/ (w = cursor /\ owner = "construct")
Unbuilt == owner \in {"construct", "connect"} =>
               \A w \in Workers : NotStarted(w) => stage[w] = "none"

OwnerInv == /\ TypeOK
            /\ Born
            /\ HoldsTask
            /\ Unbuilt
            /\ OneOwner
            /\ TakenInOrder

\* What Push does to the queue, element by element.
LEMMA PushElements ==
  ASSUME queue \in Seq(Tasks), NEW t \in Tasks, Push(t)
  PROVE  /\ Len(queue') = Len(queue) + 1
         /\ queue'[Len(queue) + 1] = t
         /\ \A i \in 1 .. Len(queue) : queue'[i] = queue[i]
BY DEF Push

\* What popping does to the queue of a worker whose wait has ended.
LEMMA PopElements ==
  ASSUME queue \in Seq(Tasks), WaitPredicate, PopFront
  PROVE  /\ Len(queue) \in Nat \ {0}
         /\ Front = queue[1]
         /\ Front \in Tasks
         /\ Len(queue') = Len(queue) - 1
         /\ \A i \in 1 .. Len(queue') : queue'[i] = queue[i + 1]
BY LenProperties, HeadTailProperties DEF WaitPredicate, PopFront, NothingToPop, Front

LEMMA OwnerInvInit == Init => OwnerInv
<1> SUFFICES ASSUME Init PROVE OwnerInv
  OBVIOUS
<1>1. TypeOK
  BY TypeInit
<1>2. Len(queue) = 0 /\ \A w \in Workers : operation[w] = NoTask /\ stage[w] = "none"
  BY DEF Init, InitQueue, InitWorkers
<1>3. \A t \in Tasks : answer[t] = "unborn" /\ t > submitted /\ t # NoTask
  BY NoTaskAssumption DEF Init, InitWorkers, Tasks
<1> QED BY <1>1, <1>2, <1>3
        DEF OwnerInv, Born, HoldsTask, Unbuilt, OneOwner, QueuedOnce, OwnedOnce,
            NeverBoth, PendingIsHeld, TakenInOrder, QueueInOrder, Taken, Queued, Owned

\* The part of OwnerInv that speaks of tasks only.
TasksInv == Born /\ OneOwner /\ TakenInOrder

\* A step that touches neither the queue nor a task.
LEMMA QuietStep ==
  ASSUME TasksInv, UNCHANGED <<queue, operation, answer, submitted>>
  PROVE  TasksInv'
BY DEF TasksInv, Born, OneOwner, QueuedOnce, OwnedOnce, NeverBoth, PendingIsHeld,
       TakenInOrder, QueueInOrder, Taken, Queued, Owned

\* Clear breaks every queued task.
LEMMA ClearStep ==
  ASSUME TypeOK, TasksInv, ClearQueue, UNCHANGED submitted
  PROVE  TasksInv'
<1>1. Len(queue') = 0 /\ operation' = operation
  BY DEF ClearQueue, Clear
<1>2. \A t \in Tasks : answer'[t] = IF Queued(t) THEN "broken" ELSE answer[t]
  BY DEF ClearQueue
<1>3. Born'
  BY <1>2 DEF TasksInv, Born, OneOwner, PendingIsHeld
<1>4. OneOwner'
  BY <1>1, <1>2 DEF TasksInv, OneOwner, QueuedOnce, OwnedOnce, NeverBoth,
                    PendingIsHeld, Queued, Owned
<1>5. TakenInOrder'
  BY <1>1 DEF TakenInOrder, QueueInOrder
<1> QED BY <1>3, <1>4, <1>5 DEF TasksInv

\* Submit puts a task behind all the others.
LEMMA SubmitStep ==
  ASSUME TypeOK, TasksInv, Submit
  PROVE  TasksInv'
<1> DEFINE new == submitted + 1
<1>1. new \in Tasks /\ submitted \in Nat /\ submitted' = new
  BY MaxTasksAssumption DEF Submit, TypeOK, Tasks
<1>2. /\ Len(queue) \in Nat
      /\ Len(queue') = Len(queue) + 1
      /\ queue'[Len(queue) + 1] = new
      /\ \A i \in 1 .. Len(queue) : queue'[i] = queue[i]
  BY <1>1, PushElements, LenProperties DEF Submit, TypeOK
<1>3. /\ operation' = operation
      /\ \A t \in Tasks : answer'[t] = IF t = new THEN "pending" ELSE answer[t]
  BY <1>1 DEF Submit, TypeOK
<1>4. \A t \in Tasks : t \in Nat /\ (t # new => (t > new <=> t > submitted))
  BY <1>1 DEF Tasks
<1>5. /\ answer[new] = "unborn"
      /\ \A i \in 1 .. Len(queue) : queue[i] \in Tasks /\ queue[i] < new
      /\ \A t \in Tasks : Taken(t) => t < new
  <2>1. \A i \in 1 .. Len(queue) : queue[i] \in Tasks /\ answer[queue[i]] = "pending"
    BY ElementOfSeq DEF TypeOK, TasksInv, OneOwner, PendingIsHeld, Queued
  <2>2. \A t \in Tasks : answer[t] # "unborn" => t < new
    BY <1>1, <1>4 DEF TasksInv, Born
  <2> QED BY <1>1, <1>4, <2>1, <2>2
          DEF TasksInv, Born, Taken, OneOwner, PendingIsHeld
<1>6. \A t \in Tasks : /\ Queued(t)' <=> Queued(t) \/ t = new
                       /\ Owned(t)' <=> Owned(t)
  BY <1>2, <1>3 DEF Queued, Owned
<1>7. Born'
  BY <1>1, <1>3, <1>4 DEF TasksInv, Born
<1>8. OneOwner'
  <2>1. QueuedOnce'
    BY <1>1, <1>2, <1>5 DEF QueuedOnce, TasksInv, OneOwner
  <2>2. OwnedOnce'
    BY <1>3 DEF OwnedOnce, TasksInv, OneOwner
  <2>3. ~Owned(new)
    BY <1>1, <1>5 DEF TasksInv, OneOwner, PendingIsHeld
  <2>4. NeverBoth' /\ PendingIsHeld'
    BY <1>3, <1>6, <2>3 DEF NeverBoth, PendingIsHeld, TasksInv, OneOwner
  <2> QED BY <2>1, <2>2, <2>4 DEF OneOwner
<1>9. TakenInOrder'
  <2>1. QueueInOrder'
    BY <1>1, <1>2, <1>5 DEF QueueInOrder, TasksInv, TakenInOrder
  <2>2. \A t \in Tasks : Taken(t)' => Taken(t)
    BY <1>3, <1>6 DEF Taken
  <2>3. \A t \in Tasks : Taken(t) => \A i \in 1 .. Len(queue') : t < queue'[i]
    BY <1>2, <1>5 DEF TasksInv, TakenInOrder
  <2> QED BY <2>1, <2>2, <2>3 DEF TakenInOrder
<1> QED BY <1>7, <1>8, <1>9 DEF TasksInv

\* A worker whose wait has ended moves the front of the queue to its operation.
LEMMA TakeStep ==
  ASSUME TypeOK, TasksInv, HoldsTask, NEW w \in Workers, Take(w), UNCHANGED submitted
  PROVE  TasksInv' /\ operation'[w] # NoTask
<1>1. /\ Len(queue) \in Nat \ {0}
      /\ Front = queue[1]
      /\ Front \in Tasks
      /\ Len(queue') = Len(queue) - 1
      /\ \A i \in 1 .. Len(queue') : queue'[i] = queue[i + 1]
  BY PopElements DEF Take, TypeOK
<1>2. /\ operation[w] = NoTask
      /\ answer' = answer
      /\ \A v \in Workers : operation'[v] = IF v = w THEN Front ELSE operation[v]
  BY DEF Take, TypeOK, HoldsTask
<1>3. \A t \in Tasks : t # NoTask
  BY NoTaskAssumption DEF Tasks
<1>4. \A i \in 1 .. Len(queue') : i + 1 \in 1 .. Len(queue)
  BY <1>1
<1>5. \A i \in 1 .. Len(queue) : i = 1 \/ (i - 1 \in 1 .. Len(queue') /\ queue'[i - 1] = queue[i])
  BY <1>1
<1>6. \A t \in Tasks : Owned(t)' <=> Owned(t) \/ t = Front
  BY <1>2, <1>3 DEF Owned
<1>7. \A t \in Tasks : Queued(t)' <=> Queued(t) /\ t # Front
  <2>1. \A t \in Tasks : Queued(t)' => Queued(t) /\ t # Front
    BY <1>1, <1>4 DEF Queued, TasksInv, OneOwner, QueuedOnce
  <2>2. \A t \in Tasks : Queued(t) /\ t # Front => Queued(t)'
    BY <1>1, <1>5 DEF Queued
  <2> QED BY <2>1, <2>2
<1>8. Queued(Front) /\ answer[Front] = "pending"
  BY <1>1 DEF Queued, TasksInv, OneOwner, PendingIsHeld
<1>9. Born'
  BY <1>2 DEF TasksInv, Born
<1>10. OneOwner'
  <2>1. QueuedOnce'
    BY <1>1, <1>4 DEF QueuedOnce, TasksInv, OneOwner
  <2>2. OwnedOnce'
    BY <1>1, <1>2, <1>8 DEF OwnedOnce, TasksInv, OneOwner, NeverBoth, Owned
  <2>3. NeverBoth' /\ PendingIsHeld'
    BY <1>2, <1>6, <1>7, <1>8 DEF NeverBoth, PendingIsHeld, TasksInv, OneOwner
  <2> QED BY <2>1, <2>2, <2>3 DEF OneOwner
<1>11. TakenInOrder'
  <2>1. QueueInOrder'
    BY <1>1, <1>4 DEF QueueInOrder, TasksInv, TakenInOrder
  <2>2. \A i \in 1 .. Len(queue') : Front < queue'[i]
    BY <1>1, <1>4 DEF QueueInOrder, TasksInv, TakenInOrder
  <2>3. \A t \in Tasks : Taken(t)' => Taken(t) \/ t = Front
    BY <1>2, <1>6 DEF Taken
  <2>4. \A t \in Tasks : Taken(t) => \A i \in 1 .. Len(queue') : t < queue'[i]
    BY <1>1, <1>4 DEF TasksInv, TakenInOrder
  <2> QED BY <2>1, <2>2, <2>3, <2>4 DEF TakenInOrder
<1> QED BY <1>1, <1>2, <1>3, <1>9, <1>10, <1>11 DEF TasksInv

\* A worker lets go of the task it holds, which is answered.
LEMMA AnswerStep ==
  ASSUME TypeOK, TasksInv, NEW w \in Workers, operation[w] # NoTask,
         UNCHANGED <<queue, submitted>>,
         operation' = [operation EXCEPT ![w] = NoTask],
         NEW outcome \in {"done", "broken"},
         answer' = [answer EXCEPT ![operation[w]] = outcome]
  PROVE  TasksInv'
<1> DEFINE task == operation[w]
<1>1. task \in Tasks /\ \A t \in Tasks : t # NoTask
  BY NoTaskAssumption DEF TypeOK, Tasks
<1>2. /\ \A t \in Tasks : answer'[t] = IF t = task THEN outcome ELSE answer[t]
      /\ \A v \in Workers : operation'[v] = IF v = w THEN NoTask ELSE operation[v]
  BY <1>1 DEF TypeOK
<1>3. \A t \in Tasks : /\ Queued(t)' <=> Queued(t)
                       /\ Owned(t)' <=> Owned(t) /\ t # task
  BY <1>1, <1>2 DEF Queued, Owned, TasksInv, OneOwner, OwnedOnce
<1>4. Owned(task) /\ ~Queued(task) /\ answer[task] = "pending"
  BY <1>1 DEF Owned, TasksInv, OneOwner, NeverBoth, PendingIsHeld
<1>5. Born'
  BY <1>2, <1>4 DEF TasksInv, Born
<1>6. OneOwner'
  <2>1. QueuedOnce' /\ OwnedOnce'
    BY <1>2 DEF QueuedOnce, OwnedOnce, TasksInv, OneOwner
  <2>2. NeverBoth' /\ PendingIsHeld'
    BY <1>1, <1>2, <1>3, <1>4 DEF NeverBoth, PendingIsHeld, TasksInv, OneOwner
  <2> QED BY <2>1, <2>2 DEF OneOwner
<1>7. TakenInOrder'
  <2>1. \A t \in Tasks : Taken(t)' => Taken(t)
    BY <1>2, <1>3, <1>4 DEF Taken
  <2> QED BY <2>1 DEF TakenInOrder, QueueInOrder, TasksInv
<1> QED BY <1>5, <1>6, <1>7 DEF TasksInv

LEMMA OwnerInvOwner ==
  ASSUME OwnerInv, Owner
  PROVE  TasksInv' /\ HoldsTask' /\ Unbuilt'
<1> USE DEF OwnerInv, TypeOK
<1>0. TasksInv
  BY DEF TasksInv
<1>1. CASE Construct
  <2>1. TasksInv'
    BY <1>0, <1>1, QuietStep DEF Construct, StartThread, queueVars
  <2>2. stage[cursor] = "none"
    BY <1>1 DEF Construct, Unbuilt, NotStarted
  <2>3. HoldsTask'
    BY <1>1, <2>2 DEF Construct, StartThread, HoldsTask
  <2>4. Unbuilt'
    BY <1>1 DEF Construct, StartThread, Unbuilt, NotStarted, Workers
  <2> QED BY <2>1, <2>3, <2>4
<1>2. CASE ConnectSucceeds
  <2>1. TasksInv' /\ HoldsTask'
    BY <1>0, <1>2, QuietStep DEF ConnectSucceeds, queueVars, workerVars, HoldsTask
  <2>2. Unbuilt'
    BY <1>2 DEF ConnectSucceeds, workerVars, Unbuilt, NotStarted, Workers
  <2> QED BY <2>1, <2>2
<1>3. CASE ConnectFails \/ Close \/ Join \/ FreeQueue
  <2>1. TasksInv' /\ HoldsTask'
    BY <1>0, <1>3, QuietStep
       DEF ConnectFails, Close, Join, FreeQueue, queueVars, workerVars, HoldsTask
  <2>2. Unbuilt'
    BY <1>3 DEF ConnectFails, Close, Join, FreeQueue, Unbuilt
  <2> QED BY <2>1, <2>2
<1>4. CASE Cancel
  BY <1>0, <1>4, QuietStep DEF Cancel, queueVars, HoldsTask, Unbuilt
<1>5. CASE ClearForWorker \/ Destroy
  <2>1. TasksInv'
    BY <1>0, <1>5, ClearStep DEF ClearForWorker, Destroy
  <2>2. HoldsTask' /\ Unbuilt'
    BY <1>5 DEF ClearForWorker, Destroy, ClearQueue, HoldsTask, Unbuilt
  <2> QED BY <2>1, <2>2
<1> QED BY <1>1, <1>2, <1>3, <1>4, <1>5 DEF Owner

LEMMA OwnerInvWorker ==
  ASSUME OwnerInv, NEW w \in Workers,
         Worker(w) \/ (SpuriousWakeup(w) /\ UNCHANGED poolVars)
  PROVE  TasksInv' /\ HoldsTask' /\ Unbuilt'
<1> USE DEF OwnerInv, TypeOK
<1>0. TasksInv /\ UNCHANGED <<owner, cursor, submitted>>
  BY DEF TasksInv, Worker, poolVars
<1>1. CASE Wait(w) \/ SpuriousWakeup(w)
  <2>1. UNCHANGED <<queue, operation, answer, submitted, stage>>
    BY <1>0, <1>1 DEF Wait, Sleep, SpuriousWakeup, WakeUp, workerVars
  <2> QED BY <1>0, <2>1, QuietStep DEF HoldsTask, Unbuilt, NotStarted
<1>2. CASE Take(w)
  <2>1. TasksInv' /\ operation'[w] # NoTask
    BY <1>0, <1>2, TakeStep
  <2>2. HoldsTask'
    BY <1>2, <2>1 DEF Take, HoldsTask
  <2>3. Unbuilt'
    BY <1>0, <1>2 DEF Take, Unbuilt, NotStarted
  <2> QED BY <2>1, <2>2, <2>3
<1>3. CASE Check(w) \/ Start(w) \/ Execute(w) \/ Throw(w)
  <2>1. operation[w] # NoTask /\ stage[w] # "none"
    BY <1>3 DEF Check, Start, Execute, Throw, HoldsTask
  <2>2. CASE operation' = operation
    <3>1. TasksInv'
      BY <1>0, <1>3, <2>1, <2>2, QuietStep
         DEF Check, Start, Execute, Throw, queueVars
    <3>2. HoldsTask'
      BY <1>3, <2>1, <2>2 DEF Check, Start, Execute, Throw, HoldsTask
    <3> QED BY <1>0, <1>3, <2>1, <3>1, <3>2
            DEF Check, Start, Execute, Throw, Unbuilt, NotStarted
  <2>3. CASE operation' # operation
    <3>1. /\ operation' = [operation EXCEPT ![w] = NoTask]
          /\ \E outcome \in {"done", "broken"} :
                 answer' = [answer EXCEPT ![operation[w]] = outcome]
          /\ UNCHANGED queue
      BY <1>3, <2>1, <2>3 DEF Check, Start, Execute, Throw, Dropped, queueVars
    <3>2. TasksInv'
      BY <1>0, <2>1, <3>1, AnswerStep
    <3>3. HoldsTask'
      BY <1>3, <2>3, <3>1 DEF Check, Start, Execute, Throw, HoldsTask
    <3> QED BY <1>0, <1>3, <2>1, <3>2, <3>3
            DEF Check, Start, Execute, Throw, Unbuilt, NotStarted
  <2> QED BY <2>2, <2>3
<1> QED BY <1>1, <1>2, <1>3 DEF Worker, WaitAndPop, HandleTask

LEMMA OwnerInvStep == OwnerInv /\ [Next]_vars => OwnerInv'
<1> SUFFICES ASSUME OwnerInv, [Next]_vars PROVE OwnerInv'
  OBVIOUS
<1>1. TypeOK'
  BY TypeStep DEF OwnerInv
<1>2. TasksInv' /\ HoldsTask' /\ Unbuilt'
  <2>1. CASE UNCHANGED vars
    BY <2>1, QuietStep DEF OwnerInv, TasksInv, HoldsTask, Unbuilt, NotStarted,
                           vars, queueVars, workerVars, poolVars
  <2>2. CASE Submit
    BY <2>2, SubmitStep DEF OwnerInv, TasksInv, Submit, HoldsTask, Unbuilt, NotStarted
  <2> QED BY <2>1, <2>2, OwnerInvOwner, OwnerInvWorker DEF Next
<1> QED BY <1>1, <1>2 DEF OwnerInv, TasksInv

\* Every pending task has one owner, the queue or a worker, and an answered one
\* has none, for any number of workers and tasks.
THEOREM PendingTaskHasOneOwner == Spec => []OneOwner
<1>1. OwnerInv => OneOwner
  BY DEF OwnerInv
<1> QED BY <1>1, OwnerInvInit, OwnerInvStep, PTL DEF Spec

\* Tasks are taken in the order of their submission, for any number of workers
\* and tasks.
THEOREM TasksTakenInOrder == Spec => []TakenInOrder
<1>1. OwnerInv => TakenInOrder
  BY DEF OwnerInv
<1> QED BY <1>1, OwnerInvInit, OwnerInvStep, PTL DEF Spec


(***************************************************************************)
(* No lost wakeup.  Besides the ownership invariant, which says that a     *)
(* worker under construction is nowhere yet, the induction needs to know   *)
(* that only workers at WaitAndPop sleep.                                  *)
(***************************************************************************)
Sleepers == \A w \in asleep : stage[w] = "pop"

WakeupInv == OwnerInv /\ Sleepers /\ NoLostWakeup

\* Every set of workers is finite.
LEMMA WorkersFinite ==
  ASSUME NEW S \in SUBSET Workers
  PROVE  IsFiniteSet(S) /\ Cardinality(S) \in Nat
<1>1. IsFiniteSet(Workers)
  BY FS_Interval, AsyncThreadsAssumption DEF Workers
<1> QED BY <1>1, FS_Subset, FS_CardinalityType

\* A step that neither pushes nor puts a worker to sleep, and takes no worker
\* off its way, loses no wakeup.
LEMMA NoFewerOnTheWay ==
  ASSUME TypeOK, NoLostWakeup, UNCHANGED <<queue, shutdown>>,
         asleep' \subseteq asleep, OnTheWay \subseteq OnTheWay'
  PROVE  NoLostWakeup'
<1>1. OnTheWay \in SUBSET Workers /\ OnTheWay' \in SUBSET Workers
  BY DEF OnTheWay
<1>2. /\ IsFiniteSet(OnTheWay') /\ Cardinality(OnTheWay') \in Nat
      /\ Cardinality(OnTheWay) \in Nat
      /\ Len(queue) \in Nat
  BY <1>1, WorkersFinite, LenProperties DEF TypeOK
<1>3. Cardinality(OnTheWay) <= Cardinality(OnTheWay')
  BY <1>2, FS_Subset
<1> QED BY <1>2, <1>3 DEF NoLostWakeup

\* Push adds one task and, if anybody sleeps, one worker on its way to it.
LEMMA SubmitWakes ==
  ASSUME TypeOK, Sleepers, NoLostWakeup, Submit
  PROVE  NoLostWakeup'
<1>1. submitted + 1 \in Tasks
  BY MaxTasksAssumption DEF Submit, TypeOK, Tasks
<1>2. Len(queue') = Len(queue) + 1 /\ Len(queue) \in Nat /\ shutdown' = shutdown
  BY <1>1, PushElements, LenProperties DEF Submit, TypeOK, Push
<1>3. CASE asleep = {}
  BY <1>3 DEF Submit, Push, NotifyOne, NoLostWakeup
<1>4. CASE asleep # {}
  <2>1. PICK w \in asleep : asleep' = asleep \ {w}
    BY <1>4 DEF Submit, Push, NotifyOne
  <2>2. w \in Workers /\ stage[w] = "pop" /\ w \notin OnTheWay
    BY <2>1 DEF TypeOK, Sleepers, OnTheWay
  <2>3. OnTheWay' = OnTheWay \cup {w}
    BY <2>1, <2>2 DEF OnTheWay, Submit
  <2>4. OnTheWay \in SUBSET Workers
    BY DEF OnTheWay
  <2>5. Cardinality(OnTheWay') = Cardinality(OnTheWay) + 1 /\ Cardinality(OnTheWay) \in Nat
    BY <2>2, <2>3, <2>4, WorkersFinite, FS_AddElement
  <2> QED BY <1>2, <1>4, <2>5 DEF NoLostWakeup
<1> QED BY <1>3, <1>4

\* Popping takes one task and one worker off the way.
LEMMA TakeKeepsWakeups ==
  ASSUME TypeOK, NoLostWakeup, NEW w \in Workers, Take(w)
  PROVE  NoLostWakeup'
<1>1. Len(queue') = Len(queue) - 1 /\ Len(queue) \in Nat \ {0}
  BY PopElements DEF Take, TypeOK
<1>2. /\ w \in OnTheWay
      /\ OnTheWay' = OnTheWay \ {w}
      /\ UNCHANGED <<shutdown, asleep>>
  BY DEF Take, PopFront, OnTheWay, TypeOK
<1>3. OnTheWay \in SUBSET Workers
  BY DEF OnTheWay
<1>4. Cardinality(OnTheWay') = Cardinality(OnTheWay) - 1 /\ Cardinality(OnTheWay) \in Nat
  BY <1>2, <1>3, WorkersFinite, FS_RemoveElement
<1> QED BY <1>1, <1>2, <1>4 DEF NoLostWakeup

\* A worker sleeps only when the queue is empty or shut down.
LEMMA SleepLosesNothing ==
  ASSUME TypeOK, NEW w \in Workers, Wait(w)
  PROVE  NoLostWakeup'
<1>1. ~shutdown' => Len(queue') = 0
  BY DEF Wait, Sleep, WaitPredicate
<1>2. OnTheWay' \in SUBSET Workers
  BY DEF OnTheWay
<1>3. Cardinality(OnTheWay') \in Nat
  BY <1>2, WorkersFinite
<1> QED BY <1>1, <1>3 DEF NoLostWakeup

LEMMA WakeupInvStep == WakeupInv /\ [Next]_vars => WakeupInv'
<1> SUFFICES ASSUME WakeupInv, [Next]_vars PROVE Sleepers' /\ NoLostWakeup'
  BY OwnerInvStep DEF WakeupInv
<1> USE DEF WakeupInv, OwnerInv
<1>1. CASE UNCHANGED vars
  <2>1. UNCHANGED <<queue, shutdown, asleep, stage>>
    BY <1>1 DEF vars, queueVars, workerVars
  <2> QED BY <2>1 DEF Sleepers, NoLostWakeup, OnTheWay
<1>2. CASE Construct
  <2>1. cursor \notin asleep /\ stage[cursor] = "none"
    BY <1>2 DEF Construct, Unbuilt, NotStarted, Sleepers, TypeOK
  <2>2. /\ UNCHANGED <<queue, shutdown, asleep>>
        /\ stage' = [stage EXCEPT ![cursor] = "pop"]
    BY <1>2 DEF Construct, StartThread, queueVars
  <2>3. OnTheWay \subseteq OnTheWay' /\ Sleepers'
    BY <2>1, <2>2 DEF OnTheWay, Sleepers, TypeOK
  <2> QED BY <2>2, <2>3, NoFewerOnTheWay
<1>3. CASE ConnectSucceeds \/ ConnectFails \/ Close \/ Cancel \/ Join \/ FreeQueue
  <2>1. UNCHANGED <<queue, shutdown, asleep, stage>>
    BY <1>3 DEF ConnectSucceeds, ConnectFails, Close, Cancel, Join, FreeQueue,
                queueVars, workerVars
  <2> QED BY <2>1 DEF Sleepers, NoLostWakeup, OnTheWay
<1>4. CASE ClearForWorker \/ Destroy
  BY <1>4 DEF ClearForWorker, Destroy, ClearQueue, Clear, Sleepers, NoLostWakeup
<1>5. CASE Submit
  <2>1. Sleepers'
    BY <1>5 DEF Submit, Push, NotifyOne, Sleepers
  <2> QED BY <1>5, <2>1, SubmitWakes
<1>6. ASSUME NEW w \in Workers, Wait(w) PROVE Sleepers' /\ NoLostWakeup'
  <2>1. Sleepers'
    BY <1>6 DEF Wait, Sleep, Sleepers, workerVars
  <2> QED BY <1>6, <2>1, SleepLosesNothing
<1>7. ASSUME NEW w \in Workers, Take(w) PROVE Sleepers' /\ NoLostWakeup'
  <2>1. Sleepers'
    BY <1>7 DEF Take, PopFront, Sleepers, TypeOK
  <2> QED BY <1>7, <2>1, TakeKeepsWakeups
<1>8. ASSUME NEW w \in Workers, HandleTask(w) PROVE Sleepers' /\ NoLostWakeup'
  <2>1. /\ UNCHANGED <<queue, shutdown, asleep>>
        /\ stage[w] # "pop"
        /\ \A v \in Workers : v # w => stage'[v] = stage[v]
    BY <1>8 DEF HandleTask, Check, Start, Execute, Throw, queueVars, TypeOK
  <2>2. OnTheWay \subseteq OnTheWay' /\ Sleepers'
    BY <2>1 DEF OnTheWay, Sleepers, TypeOK
  <2> QED BY <2>1, <2>2, NoFewerOnTheWay
<1>9. ASSUME NEW w \in Workers, SpuriousWakeup(w) PROVE Sleepers' /\ NoLostWakeup'
  <2>1. UNCHANGED <<queue, shutdown, stage>> /\ asleep' = asleep \ {w}
    BY <1>9 DEF SpuriousWakeup, WakeUp, workerVars
  <2>2. OnTheWay \subseteq OnTheWay' /\ Sleepers'
    BY <2>1 DEF OnTheWay, Sleepers
  <2> QED BY <2>1, <2>2, NoFewerOnTheWay
<1> QED BY <1>1, <1>2, <1>3, <1>4, <1>5, <1>6, <1>7, <1>8, <1>9
        DEF Next, Owner, Worker, WaitAndPop

\* While a worker sleeps on the open queue, enough awake workers are on their
\* way to take every queued task, for any number of workers and tasks.
THEOREM NoWakeupIsLost == Spec => []NoLostWakeup
<1>1. Init => WakeupInv
  BY OwnerInvInit DEF Init, InitQueue, WakeupInv, Sleepers, NoLostWakeup
<1>2. WakeupInv => NoLostWakeup
  BY DEF WakeupInv
<1> QED BY <1>1, <1>2, WakeupInvStep, PTL DEF Spec


(***************************************************************************)
(* Which workers are alive, and on what.  The induction ties the owner's   *)
(* place in Open, Close and the destructor to the threads and the handles: *)
(* what lies before the cursor is finished, what lies behind is open, and  *)
(* no task exists before Open has returned.                                *)
(***************************************************************************)
Dormant(w) == stage[w] \in {"none", "returned"}

WhileOpening == owner \in {"construct", "connect"} =>
                    /\ ~opened
                    /\ built = IF owner = "connect" THEN cursor ELSE cursor - 1
                    /\ \A w \in Workers : w < cursor => conn[w] = "open"

WhileClosing == owner \in {"cancel", "clear", "join"} =>
                    /\ cursor <= built
                    /\ \A w \in Workers : w < cursor => Dormant(w)
                    /\ opened => \A w \in Workers :
                           w >= cursor /\ w <= built => conn[w] = "open"

OtherwiseOpen == owner \in {"idle", "free", "gone"} =>
                     /\ opened
                     /\ \A w \in Workers : w <= built => conn[w] = "open"

BeyondBuilt == \A w \in Workers : w > built => Dormant(w)

NoTaskYet == ~opened => submitted = 0

LifeInv == WhileOpening /\ WhileClosing /\ OtherwiseOpen /\ BeyondBuilt /\ NoTaskYet

LEMMA LifeInit == Init => LifeInv
BY DEF Init, InitWorkers, LifeInv, WhileOpening, WhileClosing, OtherwiseOpen,
       BeyondBuilt, NoTaskYet, Dormant, Workers

\* A worker whose thread has not begun, or has ended, does nothing.
LEMMA LifeWorker ==
  ASSUME TypeOK, LifeInv, NEW w \in Workers,
         Worker(w) \/ (SpuriousWakeup(w) /\ UNCHANGED poolVars)
  PROVE  LifeInv'
<1>1. UNCHANGED poolVars
  BY DEF Worker
<1>2. \A v \in Workers : Dormant(v) => stage'[v] = stage[v]
  BY DEF TypeOK, Dormant, Worker, WaitAndPop, HandleTask, Wait, Take, Check,
         Start, Execute, Throw, SpuriousWakeup, workerVars
<1>3. \A v \in Workers : Dormant(v) => Dormant(v)'
  BY <1>2 DEF Dormant
<1> QED BY <1>1, <1>3 DEF LifeInv, WhileOpening, WhileClosing, OtherwiseOpen,
                          BeyondBuilt, NoTaskYet, poolVars

LEMMA LifeOwner ==
  ASSUME TypeOK, LifeInv, Owner
  PROVE  LifeInv'
<1> USE DEF LifeInv, WhileOpening, WhileClosing, OtherwiseOpen, BeyondBuilt, NoTaskYet
<1>0. cursor \in Nat \ {0} /\ built \in Nat /\ Workers \subseteq Nat \ {0}
  BY AsyncThreadsAssumption DEF TypeOK, Workers
<1>1. CASE Construct
  <2>1. \A w \in Workers : w > cursor => Dormant(w)'
    BY <1>0, <1>1 DEF Construct, StartThread, Dormant, TypeOK
  <2>2. \A w \in Workers : w < cursor => conn'[w] = "open"
    BY <1>0, <1>1 DEF Construct, TypeOK
  <2> QED BY <1>0, <1>1, <2>1, <2>2 DEF Construct
<1>2. CASE ConnectSucceeds
  <2>1. \A w \in Workers : w <= cursor => conn'[w] = "open"
    BY <1>0, <1>2 DEF ConnectSucceeds, TypeOK
  <2>2. \A w \in Workers : Dormant(w)' <=> Dormant(w)
    BY <1>2 DEF ConnectSucceeds, Dormant, workerVars
  <2> QED BY <1>0, <1>2, <2>1, <2>2 DEF ConnectSucceeds, MoreToConnect
<1>3. CASE ConnectFails \/ Close
  <2>1. \A w \in Workers : Dormant(w)' <=> Dormant(w)
    BY <1>3 DEF ConnectFails, Close, Dormant, workerVars
  <2> QED BY <1>0, <1>3, <2>1 DEF ConnectFails, Close
<1>4. CASE Cancel \/ ClearForWorker \/ Destroy
  <2>1. \A w \in Workers : Dormant(w)' <=> Dormant(w)
    BY <1>4 DEF Cancel, ClearForWorker, Destroy, ClearQueue, Dormant
  <2> QED BY <1>0, <1>4, <2>1 DEF Cancel, ClearForWorker, Destroy
<1>5. CASE Join
  <2>1. \A w \in Workers : Dormant(w)' <=> Dormant(w)
    BY <1>5 DEF Join, Dormant, workerVars
  <2>2. \A w \in Workers : w <= cursor => Dormant(w)
    BY <1>0, <1>5 DEF Join, ThreadEnded, Dormant
  <2>3. \A w \in Workers : w > cursor => conn'[w] = conn[w]
    BY <1>0, <1>5 DEF Join, TypeOK
  <2> QED BY <1>0, <1>5, <2>1, <2>2, <2>3 DEF Join
<1>6. CASE FreeQueue
  <2>1. \A w \in Workers : Dormant(w)' <=> Dormant(w)
    BY <1>6 DEF FreeQueue, Dormant, workerVars
  <2> QED BY <1>6, <2>1 DEF FreeQueue
<1> QED BY <1>1, <1>2, <1>3, <1>4, <1>5, <1>6 DEF Owner

LEMMA LifeStep == TypeOK /\ LifeInv /\ [Next]_vars => LifeInv'
<1> SUFFICES ASSUME TypeOK, LifeInv, [Next]_vars PROVE LifeInv'
  OBVIOUS
<1> USE DEF LifeInv, WhileOpening, WhileClosing, OtherwiseOpen, BeyondBuilt, NoTaskYet,
            Dormant
<1>1. CASE UNCHANGED vars
  BY <1>1 DEF vars, workerVars, poolVars
<1>2. CASE Submit
  BY <1>2 DEF Submit
<1> QED BY <1>1, <1>2, LifeOwner, LifeWorker DEF Next

\* A worker runs a task only on a handle that Open has opened and Close has not
\* yet closed, for any number of workers and tasks.
THEOREM TasksRunOnOpenHandles == Spec => []RunsOnOpenHandle
<1>1. OwnerInv /\ LifeInv => RunsOnOpenHandle
  <2> SUFFICES ASSUME OwnerInv, LifeInv, NEW w \in Workers,
                      stage[w] \in {"start", "run"}
               PROVE  conn[w] = "open"
    BY DEF RunsOnOpenHandle
  <2>1. operation[w] \in Tasks /\ Owned(operation[w])
    BY DEF OwnerInv, HoldsTask, TypeOK, Owned
  <2>2. answer[operation[w]] # "unborn"
    BY <2>1 DEF OwnerInv, OneOwner, PendingIsHeld
  <2>3. opened
    BY <2>1, <2>2 DEF OwnerInv, Born, LifeInv, NoTaskYet, Tasks
  <2>4. w <= built /\ ~(owner \in {"construct", "connect"})
    BY <2>3 DEF LifeInv, BeyondBuilt, WhileOpening, Dormant, OwnerInv, TypeOK, Workers
  <2>5. CASE owner \in {"cancel", "clear", "join"}
    BY <2>3, <2>4, <2>5 DEF LifeInv, WhileClosing, Dormant, OwnerInv, TypeOK, Workers
  <2>6. CASE owner \in {"idle", "free", "gone"}
    BY <2>4, <2>6 DEF LifeInv, OtherwiseOpen
  <2> QED BY <2>4, <2>5, <2>6 DEF OwnerInv, TypeOK, OwnerSteps
<1>2. OwnerInv => TypeOK
  BY DEF OwnerInv
<1> QED BY <1>1, <1>2, OwnerInvInit, OwnerInvStep, LifeInit, LifeStep, PTL DEF Spec

\* When the queue of a pool that was closed is freed, no worker's thread is left
\* to use it, for any number of workers and tasks.
THEOREM ClosedPoolIsQuiet == Spec => []ClosedPoolDiesSafely
<1>1. TypeOK /\ LifeInv => ClosedPoolDiesSafely
  BY DEF LifeInv, BeyondBuilt, Dormant, ClosedPoolDiesSafely, Workers
<1> QED BY <1>1, TypeInit, TypeStep, LifeInit, LifeStep, PTL DEF Spec

\* Once the body of the pool's destructor has emptied the queue, nobody fills it
\* again.
Emptied == owner \in {"free", "gone"} => Len(queue) = 0

LEMMA EmptiedStep == TypeOK /\ Emptied /\ [Next]_vars => Emptied'
<1> SUFFICES ASSUME TypeOK, Emptied, [Next]_vars PROVE Emptied'
  OBVIOUS
<1> USE DEF Emptied
<1>1. CASE UNCHANGED vars
  BY <1>1 DEF vars, queueVars, poolVars
<1>2. CASE Owner
  BY <1>2 DEF Owner, Construct, ConnectSucceeds, ConnectFails, Close, Cancel, ClearForWorker,
              Join, Destroy, FreeQueue, ClearQueue, Clear, queueVars
<1>3. CASE Submit
  BY <1>3 DEF Submit
<1>4. ASSUME NEW w \in Workers, Worker(w) \/ (SpuriousWakeup(w) /\ UNCHANGED poolVars)
      PROVE  Emptied'
  <2>1. owner' = owner
    BY <1>4 DEF Worker, poolVars
  <2>2. CASE Take(w)
    BY <2>1, <2>2, PopElements DEF Take, WaitPredicate, TypeOK
  <2>3. CASE ~Take(w)
    BY <1>4, <2>1, <2>3 DEF Worker, WaitAndPop, HandleTask, Wait, Sleep, Check, Start, Execute,
                            Throw, SpuriousWakeup, WakeUp, queueVars
  <2> QED BY <2>2, <2>3
<1> QED BY <1>1, <1>2, <1>3, <1>4 DEF Next

\* When a pool that was closed has been destroyed, every task ever submitted to it
\* is answered, for any number of workers and tasks.
THEOREM ClosedPoolOwesNothing == Spec => []ClosedPoolAnswersAll
<1>1. OwnerInv /\ LifeInv /\ Emptied => ClosedPoolAnswersAll
  <2> SUFFICES ASSUME OwnerInv, LifeInv, Emptied, owner = "gone", built = 0,
                      NEW t \in Tasks, answer[t] = "pending"
               PROVE  FALSE
    BY DEF ClosedPoolAnswersAll
  <2>1. ~Queued(t)
    BY DEF Emptied, Queued
  <2>2. PICK w \in Workers : operation[w] = t
    BY <2>1 DEF OwnerInv, OneOwner, PendingIsHeld, Owned
  <2>3. stage[w] \in {"check", "start", "run"}
    BY <2>2, NoTaskAssumption DEF OwnerInv, HoldsTask, Tasks
  <2>4. w > built
    BY DEF Workers
  <2> QED BY <2>3, <2>4 DEF LifeInv, BeyondBuilt, Dormant
<1>2. Init => Emptied
  BY DEF Init, Emptied
<1>3. OwnerInv => TypeOK
  BY DEF OwnerInv
<1> QED BY <1>1, <1>2, <1>3, OwnerInvInit, OwnerInvStep, LifeInit, LifeStep, EmptiedStep, PTL
        DEF Spec


(***************************************************************************)
(* The pool implements AsyncTaskService.  Every step is shown to change    *)
(* the status of one task, of all queued ones, or of none.                 *)
(***************************************************************************)

\* What a client sees of a task, by who holds it.
LEMMA StatusOf ==
  ASSUME TypeOK, OneOwner, NEW t \in Tasks
  PROVE  /\ Status(t) = "queued" <=> Queued(t)
         /\ Status(t) = "running" <=> Owned(t)
         /\ ~Queued(t) /\ ~Owned(t) => Status(t) = answer[t]
<1>1. /\ answer[t] = "pending" <=> Queued(t) \/ Owned(t)
      /\ ~(Queued(t) /\ Owned(t))
      /\ answer[t] \in {"unborn", "pending", "done", "broken"}
  BY DEF OneOwner, PendingIsHeld, NeverBoth, TypeOK, Answers
<1>2. Status(t) = IF answer[t] # "pending" THEN answer[t]
                  ELSE IF Owned(t) THEN "running" ELSE "queued"
  BY DEF Status
<1> QED BY <1>1, <1>2

\* The same, primed: it holds of the state after a step as well.
LEMMA StatusOfNext ==
  ASSUME TypeOK', OneOwner', NEW t \in Tasks
  PROVE  /\ Status(t)' = "queued" <=> Queued(t)'
         /\ Status(t)' = "running" <=> Owned(t)'
         /\ ~Queued(t)' /\ ~Owned(t)' => Status(t)' = answer'[t]
<1>1. /\ answer'[t] = "pending" <=> Queued(t)' \/ Owned(t)'
      /\ ~(Queued(t)' /\ Owned(t)')
      /\ answer'[t] \in {"unborn", "pending", "done", "broken"}
  BY DEF OneOwner, PendingIsHeld, NeverBoth, TypeOK, Answers
<1>2. Status(t)' = IF answer'[t] # "pending" THEN answer'[t]
                   ELSE IF Owned(t)' THEN "running" ELSE "queued"
  BY DEF Status
<1> QED BY <1>1, <1>2

Statuses == [t \in Tasks |-> Status(t)]

ServiceStep == [Service!Next]_<<Statuses, shutdown>>

\* A step that changes neither an answer, nor an operation, nor _shutdown.
LEMMA ServiceQuiet ==
  ASSUME UNCHANGED <<operation, answer, shutdown>>
  PROVE  UNCHANGED <<Statuses, shutdown>>
<1>1. \A t \in Tasks : Status(t)' = Status(t)
  BY DEF Status, Owned
<1> QED BY <1>1 DEF Statuses

\* Push is Submit of the service.
LEMMA ServiceSubmit ==
  ASSUME OwnerInv, OwnerInv', Submit
  PROVE  Service!Next
<1> SUFFICES ASSUME NEW new \in Tasks, new = submitted + 1
             PROVE  Service!Next
  BY MaxTasksAssumption DEF Submit, OwnerInv, TypeOK, Tasks
<1>1. /\ submitted \in Nat
      /\ shutdown' = shutdown /\ operation' = operation
      /\ \A t \in Tasks : answer'[t] = IF t = new THEN "pending" ELSE answer[t]
  BY MaxTasksAssumption DEF Submit, Push, OwnerInv, TypeOK, Tasks
<1>2. Queued(new)'
  <2>1. Len(queue) \in Nat /\ Len(queue') = Len(queue) + 1 /\ queue'[Len(queue) + 1] = new
    BY PushElements, LenProperties DEF Submit, OwnerInv, TypeOK
  <2> QED BY <2>1 DEF Queued
<1>3. \A t \in Tasks : Status(t)' = IF t = new THEN "queued" ELSE Status(t)
  <2>1. \A t \in Tasks : t # new => Status(t)' = Status(t)
    BY <1>1 DEF Status, Owned
  <2> QED BY <1>1, <1>2, <2>1, StatusOfNext DEF OwnerInv
<1>4. Status(new) = "unborn"
  BY <1>1 DEF OwnerInv, Born, Status, Tasks
<1>5. \A u \in Tasks : u < new => Status(u) # "unborn"
  BY <1>1 DEF OwnerInv, Born, Status, Tasks
<1>6. Service!Submit(new)
  BY <1>1, <1>3, <1>4, <1>5, Zenon DEF Service!Submit, Service!Tasks, Tasks
<1> QED BY <1>1, <1>6 DEF Service!Next, Service!Tasks, Tasks

\* Clear is the service's shutdown.
LEMMA ServiceClear ==
  ASSUME OwnerInv, OwnerInv', ClearQueue
  PROVE  Service!Next
<1>1. /\ shutdown' = TRUE /\ operation' = operation
      /\ \A t \in Tasks : answer'[t] = IF Queued(t) THEN "broken" ELSE answer[t]
  BY DEF ClearQueue, Clear
<1>2. \A t \in Tasks : Status(t)' = IF Status(t) = "queued" THEN "broken" ELSE Status(t)
  <2>1. \A t \in Tasks : Status(t) = "queued" <=> Queued(t)
    BY StatusOf DEF OwnerInv
  <2> QED BY <1>1, <2>1 DEF Status, Owned
<1>3. Service!Shutdown
  BY <1>1, <1>2, Zenon DEF Service!Shutdown, Service!Tasks, Tasks
<1> QED BY <1>3 DEF Service!Next

\* Popping is a start of the oldest queued task.
LEMMA ServiceTake ==
  ASSUME OwnerInv, OwnerInv', NEW w \in Workers, Take(w)
  PROVE  Service!Next
<1> SUFFICES ASSUME NEW front \in Tasks, front = Front
             PROVE  Service!Next
  BY PopElements DEF Take, OwnerInv, TypeOK
<1>1. /\ front = queue[1] /\ Len(queue) \in Nat \ {0}
      /\ ~shutdown /\ shutdown' = shutdown /\ answer' = answer
      /\ operation[w] = NoTask
      /\ \A v \in Workers : operation'[v] = IF v = w THEN front ELSE operation[v]
  BY PopElements DEF Take, PopFront, WaitPredicate, OwnerInv, HoldsTask, TypeOK
<1>2. Queued(front) /\ Owned(front)'
  BY <1>1 DEF Queued, Owned
<1>3. \A t \in Tasks : t # front => (Owned(t)' <=> Owned(t))
  BY <1>1, NoTaskAssumption DEF Owned, Tasks
<1>4. \A t \in Tasks : Status(t)' = IF t = front THEN "running" ELSE Status(t)
  <2>1. \A t \in Tasks : t # front => Status(t)' = Status(t)
    BY <1>1, <1>3 DEF Status
  <2> QED BY <1>1, <1>2, <2>1, StatusOfNext DEF OwnerInv
<1>5. Status(front) = "queued"
  BY <1>1, <1>2, StatusOf DEF OwnerInv
<1>6. \A u \in Tasks : u < front => Status(u) # "queued"
  <2>1. \A i \in 1 .. Len(queue) : i = 1 \/ front < queue[i]
    BY <1>1 DEF OwnerInv, TakenInOrder, QueueInOrder
  <2>2. \A u \in Tasks : u < front => ~Queued(u)
    BY <1>1, <2>1 DEF Queued, Tasks
  <2> QED BY <2>2, StatusOf DEF OwnerInv
<1>7. Service!Start(front)
  BY <1>1, <1>4, <1>5, <1>6, Zenon DEF Service!Start, Service!Tasks, Tasks
<1> QED BY <1>1, <1>7 DEF Service!Next, Service!Tasks, Tasks

\* A worker that lets go of its task finishes it.
LEMMA ServiceFinish ==
  ASSUME OwnerInv, OwnerInv', NEW w \in Workers, operation[w] # NoTask,
         UNCHANGED <<queue, shutdown>>,
         operation' = [operation EXCEPT ![w] = NoTask],
         NEW outcome \in {"done", "broken"},
         answer' = [answer EXCEPT ![operation[w]] = outcome]
  PROVE  Service!Next
<1> SUFFICES ASSUME NEW task \in Tasks, task = operation[w]
             PROVE  Service!Next
  BY DEF OwnerInv, TypeOK
<1>1. /\ \A t \in Tasks : answer'[t] = IF t = task THEN outcome ELSE answer[t]
      /\ \A v \in Workers : operation'[v] = IF v = w THEN NoTask ELSE operation[v]
  BY DEF OwnerInv, TypeOK
<1>2. \A t \in Tasks : t # task => (Owned(t)' <=> Owned(t))
  BY <1>1, NoTaskAssumption DEF Owned, Tasks
<1>3. \A t \in Tasks : Status(t)' = IF t = task THEN outcome ELSE Status(t)
  <2>1. Status(task)' = outcome
    BY <1>1 DEF Status
  <2> QED BY <1>1, <1>2, <2>1 DEF Status
<1>4. Status(task) = "running"
  BY <1>1, StatusOf DEF Owned, OwnerInv
<1>5. Service!Finish(task)
  <2>1. Statuses' = [Statuses EXCEPT ![task] = outcome]
    BY <1>1, <1>3, Zenon DEF Statuses
  <2> QED BY <1>1, <1>4, <2>1, Zenon DEF Service!Finish, Service!Tasks, Statuses, Tasks
<1> QED BY <1>1, <1>5 DEF Service!Next, Service!Tasks, Tasks

LEMMA ServiceNext ==
  ASSUME OwnerInv, OwnerInv', [Next]_vars
  PROVE  ServiceStep
<1>1. CASE UNCHANGED vars
  BY <1>1, ServiceQuiet DEF ServiceStep, vars, queueVars, workerVars
<1>2. CASE Construct \/ ConnectSucceeds \/ ConnectFails \/ Close \/ Cancel \/ Join \/ FreeQueue
  BY <1>2, ServiceQuiet
     DEF ServiceStep, Construct, StartThread, ConnectSucceeds, ConnectFails, Close, Cancel,
         Join, FreeQueue, queueVars, workerVars
<1>3. CASE ClearForWorker \/ Destroy
  BY <1>3, ServiceClear DEF ServiceStep, ClearForWorker, Destroy
<1>4. CASE Submit
  BY <1>4, ServiceSubmit DEF ServiceStep
<1>5. ASSUME NEW w \in Workers, Wait(w) \/ SpuriousWakeup(w)
      PROVE  ServiceStep
  BY <1>5, ServiceQuiet DEF ServiceStep, Wait, Sleep, SpuriousWakeup, WakeUp, workerVars
<1>6. ASSUME NEW w \in Workers, Take(w)
      PROVE  ServiceStep
  BY <1>6, ServiceTake DEF ServiceStep
<1>7. ASSUME NEW w \in Workers, HandleTask(w)
      PROVE  ServiceStep
  <2>1. operation[w] # NoTask
    BY <1>7 DEF HandleTask, Check, Start, Execute, Throw, OwnerInv, HoldsTask
  <2>2. UNCHANGED <<queue, shutdown>>
    BY <1>7 DEF HandleTask, Check, Start, Execute, Throw, queueVars
  <2>3. CASE operation' = operation
    BY <1>7, <2>1, <2>3, ServiceQuiet
       DEF ServiceStep, HandleTask, Check, Start, Execute, Throw, queueVars, OwnerInv, TypeOK
  <2>4. CASE operation' # operation
    <3>1. /\ operation' = [operation EXCEPT ![w] = NoTask]
          /\ \E outcome \in {"done", "broken"} :
                 answer' = [answer EXCEPT ![operation[w]] = outcome]
      BY <1>7, <2>1, <2>4 DEF HandleTask, Check, Start, Execute, Throw, Dropped
    <3> QED BY <2>1, <2>2, <3>1, ServiceFinish DEF ServiceStep
  <2> QED BY <2>3, <2>4
<1> QED BY <1>1, <1>2, <1>3, <1>4, <1>5, <1>6, <1>7 DEF Next, Owner, Worker, WaitAndPop

\* The pool implements the service its clients see, for any number of workers and
\* tasks: every step is a step of AsyncTaskService or invisible there.
THEOREM PoolImplementsService == Spec => ImplementsService
<1>1. Init => Service!Init
  BY Zenon DEF Init, InitQueue, InitWorkers, Service!Init, Service!Tasks, Tasks, Status
<1> QED BY <1>1, OwnerInvInit, OwnerInvStep, ServiceNext, PTL
        DEF Spec, ImplementsService, Service!Spec, ServiceStep, Statuses

=============================================================================
