# GameProjectDemo: specifications, model checks and proofs

These modules specify the server in `src/`: both halves of its MySQL connection
pool, the transactions a pooled connection runs, the callbacks that bring results
back, the server with its timer, sessions and two threads, one session's reads and
writes, what a connection's HTTP objects carry from one request to the next, and
the rotation of the log. TLC checks them on small instances; TLAPS proves every
safety property that a run finds to hold, for every number of workers, tasks,
threads, connections, statements, clients, queries, requests, files and bytes.
Liveness is model-checked.

Paths below are relative to `src/Src/Common/` unless they start with `src/`.

Contents: 1 the system, 2 the modules, 3 the runs, 4 fairness, 5 proofs,
6 findings, 7 what is not modelled, 8 what could follow, 9 how to run.

## 1. The system

`HttpServer` (`src/Src/Servers/HttpServer/`) opens a `DatabaseWorkerPool`, starts
an `IServer` and runs an asio `io_context`, in `main` and in a second thread that
`IServer::Start` creates. A timer calls `IServer::Update` every millisecond.

    client --tcp--> ISession --routes--> HttpServer handlers
                      |  ^                  |  AsyncExecute, AsyncQuery, CommitTransaction
         MessageBuffer   |                  v
                      |  |           ProducerConsumerQueue<ISqlTask *>
                      |  |                  |  one DatabaseWorker per asynchronous connection
                      |  |                  v
                      |  |           IMySqlConnection --> MySQL server
                      |  |                  |  std::promise
                      |  +-- Update <- AsyncCallbackProcessor<QueryCallback> <- std::future

| Component | State | Operations | What makes it correct |
|---|---|---|---|
| `ProducerConsumerQueue` | FIFO, shutdown flag, condition variable | `Push`, `WaitAndPop`, `Clear` | no lost wakeup, FIFO order, a shutdown that reaches every waiter |
| `DatabaseWorker` | thread, `_canceling`, the task it owns | `WorkThread`, destructor | one owner per task, tasks run on an open handle only, an exception strands nobody |
| `DatabaseWorkerPool` | queue, asynchronous and synchronous connections | `Open`, `Close`, `AsyncExecute`, `AsyncQuery`, `CommitTransaction...`, `Sync...`, destructor | tasks run on open handles only, teardown ends and outlives its threads |
| `ISqlTask` and its subclasses | SQL, promise, connection | `Execute` | every promise is set or broken; deadlocks are retried |
| `IMySqlConnection` | `_mysql`, prepared statements, mutex | `Open`, `Close`, `Execute`, `Query`, `ExecuteTransaction`, `HandleMysqlErrcode` | a transaction is atomic, an error is reported, reconnecting duplicates nothing |
| `TransactionBase`, `TransactionCallback` | list of statements; future and function | `Append`, `CleanUp`; `InvokeIfReady` | statements are freed once |
| `QueryCallback` | future, queue of continuations | moves, `Then`, `InvokeIfReady` | the right continuation gets the right result |
| `AsyncCallbackProcessor` | vector of callbacks | `AddCallback`, `ProcessReadyCallbacks` | no query is forgotten |
| `MessageBuffer` | array, read and write index | `Write`, `Read`, `ReadDone`, `WriteDone`, `EnsureFreeSpace`, `Shrink` | indices in bounds, the byte stream intact |
| `ISession` | socket, read buffer, queue of write buffers, closing flags | `AsyncRead`, `SendMsg`, `AsyncWrite`, `CloseSession` | one write at a time, responses in order |
| `IServer`, `HttpServer` | acceptor, sessions, callback processor, timer | `Start`, `Update`, `DoAccept`, route handlers | no two threads in one vector, accepting goes on |
| `HttpSession`, `HttpRouter`, request, response, parser | one request and one response object per connection | `ReadHandler`, `Route`, `Parse`, `GetPayload` | every request answered, the head agrees with the content, the queries are found |
| `ResultSet`, `PreparedResultSet` | rows, cursor, bound buffers | constructor, `NextRow`, `Fetch` | buffers freed once |
| `MySqlPreparedStatement` | MySQL statement, bound parameters | `BindParameters`, `ClearParameters` | belongs to the current session |
| `HtmlFormatSink` (`Log.hpp`) | file, size | `sink_it_`, `rotate_` | only the open file and the last one can be dropped, files stay small |

Components interact by calls on one thread (session to router to handler), by a
locked queue (handler to worker), by futures (worker to callback processor) and
by shared state without a lock (the vectors of `IServer`, `_writeBufferQueue`).

Hard to get right, and the reason for the properties below:

- **Concurrency.** Several workers sleep on one condition variable; the thread
  that closes the pool shuts down, drains and joins while workers may be anywhere
  in their loop and clients keep submitting.
- **Failure.** A connection fails to open after others have threads; a task
  throws; the server goes away before or after it has executed a statement; a
  statement is refused or a deadlock victim.
- **Ordering.** Errors are read after another command; members are destroyed in
  the reverse order of their declaration.
- **Retries.** `Execute`, `HandleMysqlErrcode` and `TransactionTask::Execute`
  all retry.
- **Two threads in one `io_context`.** `main` and `_netThread` run the same
  handlers; nothing locks the server's vectors or a session's write queue.
- **State kept too long.** Prepared statements across a reconnection, bound arrays
  across results, a response object across replies, parsed views across requests.
- **Restarts and the clock.** The log's file names contain the present second.

`PROJECT.json` lists each hazard at its line with the properties that cover it.

## 2. The modules

### ProducerConsumerQueue (`Threading/ProducerConsumerQueue.hpp`)

Every member function holds `_queueLock` throughout, except while it sleeps in
`_condition.wait`; so each stretch under the lock is one action, and the
condition variable is its wait set `asleep`. `Sleep` and the guard of `Take`
evaluate `WaitPredicate`, the lambda the code passes to `wait`. `NotifyOne`
removes an arbitrary sleeper; a woken thread is merely no longer in `asleep` and
competes with the others for the next task. `WakeUp` is a spurious wakeup.

### DatabaseWorker (`Database/DatabaseWorker.cpp`)

`stage[w]` is where `WorkThread` is: in `WaitAndPop` (`pop`), before the test of
`_canceling` (`check`), after it (`start`), in `Execute` (`run`), ended
(`returned`). `Take`, `Check`, `Start`, `Execute` and `Throw` are separate actions,
since the destructor runs between them: `_canceling` may be set after the test, and
the task is started all the same. `answer[t]` is what a client learns: `done` when the promise is set,
`broken` when the task is deleted with the promise unset. A task is the number
of its submission. Calls on the MySQL handle are inside `run`.

### DatabaseWorkerPool (`Database/DatabaseWorkerPool.cpp`)

`owner` is the next statement of the one thread that calls `Open`, `Close` and
the destructor: `construct`, `connect` (a round of `OpenConnections`), `idle`,
`cancel`, `clear`, `join` (the destruction of connection `cursor`, through
`~IMySqlConnection`, `Close`, `~DatabaseWorker`), `free`, `gone`. A failing
`Open` of connection k destroys the connections before it and then its own.
`Submit` is every function that makes a task and pushes it.

Abstractions and assumptions:

- `conn[w] = "open"` means that `Open()` has returned 0. (It can return 0 with a
  null handle, because it calls `mysql_errno` on the null pointer; then every
  task on it fails at its first test. `MysqlConnection` models that.)
- Clients submit once `Open` has returned, as in `main.cpp`, which ignores its
  result; they may submit while and after the pool is closed. They do not submit
  while it is being destroyed.
- The pool is not opened a second time after `Close`: no code does, and its
  queue would stay shut down.
- After `gone` the queue is freed memory, and the model stops following workers
  that touch it. `ClosedPoolDiesSafely` says that a pool that was closed has no
  such worker; one that was not closed has (section 6).

### AsyncTaskService

The abstract specification: tasks start one by one in the order of submission,
at most once; a started task ends `done` or `broken`; a shutdown breaks every
task not started, and none starts afterwards. `ImplementsService` states that
`DatabaseWorkerPool` implements it, which is also proved, with `status` computed from `answer` and
`operation`, and `closed` from `shutdown`. A worker that has popped a task counts
as having started it; `Check` may still drop it, which breaks its promise. The service
does not say that every task is answered: `AnsweredOrAbandoned` does for an open
queue, `ClosedPoolAnswersAll` for a pool that was closed and destroyed.

### MysqlConnection (`Database/MysqlConnection.cpp`, `Database/SqlTask.cpp`)

One asynchronous connection and the `TransactionTask`s its worker runs in
sequence. `step` is the next statement of `ExecuteTransaction`. The server is
external: it has a session transaction (`staged`) and counts how often each
effect became durable. Any command may succeed; be refused, which changes nothing
(`Refuse`), so that a refused COMMIT or ROLLBACK leaves the transaction open; be
chosen as deadlock victim, which rolls back; meet a lost connection, either before
or after it took effect (`Reconnect` chooses from both); a statement may abort the
program. START TRANSACTION commits what is open. `unfinished` remembers whose
COMMIT or ROLLBACK was refused. `Reopened` is what
`Open` can leave behind and return, `ReportsHandled` the test in line 394, and
`"again"` the recursive call of `Execute`. The results of `BeginTransaction`,
`CommitTransaction` and `RollbackTransaction` are ignored, as in the code. `GetLastError` is `errno` after
the ROLLBACK.

Reconnecting an asynchronous connection prepares nothing, because the one
statement of `LoginDatabase.cpp` is for synchronous connections
(`PrepareStatement` returns early), so the abort on a failing preparation is not
reachable there. The static mutex of the deadlock loop only serialises
connections; with one connection it has no effect. Statements are SQL strings.

### QueryCallback (`Database/QueryCallback.cpp`, `Util/AsyncCallbackProcessor.h`)

A callback is its query, whether its future is still valid, and the continuations
`Then` added. The vector moves elements when it grows, when `remove_if` closes a
gap and when the survivors are inserted back; `MoveConstruct` and `MoveAssign`
say what each of these moves leaves where. `Kept` are the places of the elements
that are not complete, `Place` the place each of them comes to, `MovedTo` the
inverse, `Survivors` the vector that is inserted back. One action is one poll. An exception
from `future.get()` unwinds `ProcessReadyCallbacks` and destroys everything it had
moved out. Calling the front of an empty queue sets `crashed` and ends the
behaviour. Polls and additions are atomic here; `Server` says when two threads are
in the vector at once. A continuation adds no query.

### MessageBuffer (`Net/Buffer.hpp`)

`capacity`, `buffer`, `readIndex`, `writeIndex` as in the code. A byte is its
position in the stream of all bytes ever written, so that a lost, repeated or
displaced byte shows. `Read(n)` is every reading function, each of which asserts
that n bytes are there; `ReadDone(n)` and `WriteDone(n)` assume that the caller
reports no more than it was offered, which is the socket's contract for one
operation at a time (see the hazard at `Net/Session.cpp:106`).

### Session (`Net/Session.cpp`, `Http/HttpSession.cpp`)

One session, its client and its socket. Operations in flight (`reading`,
`writes`) become completions (`ready`), in the order in which the socket finishes
them; `IoThreads` threads take the handlers from there, so that with two threads
one of the first two runs next. A handler is one step: `OnRead` is the read
handler with `ReadHandler`, `SendMsg`, `AsyncWrite` and the next `AsyncRead`;
`OnWritten` the write handler; `OnFailed` either of them with an error. A write
takes any part of a packet. A byte on the wire is its packet and position, packet
p has p bytes; `Place` is where it belongs in the stream of all replies, so that
lost, repeated and displaced bytes show. `overlapped`
remembers that a write was started while another was under way: what happens after
that is in the model too (`fault` names the undefined behaviour it meets), and the
properties that the code does keep are those up to then. The client may pipeline
(`ClientWaits = FALSE`), finish or reset at any time. One read delivers one or
several requests, which the code answers with one reply.

### Server (`Net/Server.cpp`, `HttpServer.cpp`, `main.cpp`)

EXTENDS `QueryCallback` and composes the processor with the update timer, the
accept chain, the vector of sessions and the two threads. `pc[t]` is what thread
t's handler does next: `Arm`, `Process` and `Erase` are `Update`; `TakeAccept` and
`Emplace` are `DoAccept`'s handler, `AcceptFails` its two ways out (an error, or
the exception of `remote_endpoint()` in the constructor of `ISession` when the
peer has left); `TakeRequest`, `TestAsync`, `WakeUp` are the handler of `/testAsync`
with its three seconds of sleep. `expires_from_now` makes the handler of the
outstanding wait run as well, because it ignores its error code. An exception
leaves a handler: the net thread goes on, main terminates the process, since the
server's destructor meets a joinable thread. `raced` notes that two threads were in
the same vector at once; the model stops there, and TLC does reach it.

### HttpParser, HttpConnection (`Http/`)

`ParseQuery` is the loop over the characters, `Turns` being what it has after each
turn, beside `Expected`, what a query string means. Spaces, which are trimmed, are
left out.
`HttpConnection` is the `ReadHandler` of one connection with the request, response
and router objects it keeps: `Parse`, `Route` with the handlers of
`InitHttpRouter`, `BuildResponseHead`, `GetPayload`. Content is a sequence of
pieces and as long as it has pieces; the head is the sequence of its fields, since
`_head` is never cleared; `Section(n)` are the places of reply n in it. Views of a
freed request may show anything: `Routable` for the path of a request that did not
parse; for the keys left in `_queries`, `stale` says that there are some, and then
`NewQueries` lets any of the new keys be lost among them and any value be that of
another parameter (`AmongStale`). `QueriesFound` speaks of requests that meet no
such key. `ParseQuery` keeps the characters because `Expected`, and the theorem that
compares the two, is about them. The continuation of `/testAsync` may run between any two steps, in
another thread's `Update`.

### SyncConnections (`Database/DatabaseWorkerPool.cpp`, `MysqlConnection.cpp`, `QueryResult.cpp`)

The synchronous connections and the handler of `/userInfo` that uses them with a
prepared and a text query per request. `TryLock` is one turn of
`GetFreeConnectionAndLock`; `Send` is `mysql_query` or `mysql_stmt_execute` with
`HandleMysqlErrcode`; `Store` fetches the result, for a prepared statement with
the constructor of `PreparedResultSet` and the arrays it frees; `UnLock` and
`Inspect` are the rest. Both result sets live until the handler returns (`Reply`), and
the rows of the first query are read after the second: what a prepared result holds
is its own buffer, filled under the lock (`QueryResult.cpp:319-381`), and a text
result is stored whole. The server may drop the connection at the command or at
the result. `statement` is whether the one prepared statement belongs to the
present session. Open gives all connections it was asked for or none, and `main`
goes on in either case; with none the first request divides by zero (`Die`).
`mysql_stmt_bind_result` is assumed not to fail.

### LogRotation (`Util/Log.hpp`)

The files by name (second and index), the file the sink has open, `_currentSize`.
A rotation is modelled rename by rename, because the clock moves on meanwhile and
every step computes its names anew; `RenameFails` is both attempts failing, with
the truncation and the exception that follow; `Restart` is a crash and a new
process at any point, or an ordinary end. A message and the header are one unit.
What is written stays in the library's buffer, which only a rotation flushes
(`LogRotation` calls what is certainly on disk `onDisk`): a process that ends, by
`std::abort` in most of the ways the program has, loses any part of the rest, and in
a rotation perhaps the target of the next rename (`LeftBehind`). `others` are the
messages a rotation finds in the files that are neither open nor have the last index.
A rotation in a later second than the open file is named after finds nothing to
rename and truncates that file. With files of 10240 MB (`main.cpp:7`) every rotation
of the program is of that kind; the model has both kinds, and `OthersSurvive` is
stated for both.

## 3. The runs

| Run | Bounds | Checks | Result |
|---|---|---|---|
| `Pool` | 3 workers, 4 tasks, fair | `TypeOK`, `OneOwner`, `TakenInOrder`, `NoLostWakeup`, `RunsOnOpenHandle`, `ClosedPoolDiesSafely`, `ClosedPoolAnswersAll`, `ImplementsService`, `AnsweredOrAbandoned` | hold |
| `PoolClose` | 2 workers, 2 tasks, fair | `CloseReturns` | violated |
| `Transactions` | 3 transactions of 0 to 2 statements, 2 attempts, fair | `TypeOK`, `AtomicOnceBegun`, `NoDuplicateEffect`, `NoTransactionLeaks`, `EveryTaskAnswered` | hold |
| `TxFailureIsReported` | 1 transaction | `FailureIsReported` | violated |
| `Callbacks` | 4 queries, 1 or 2 continuations each | `NoForeignResult`, `NoQueryForgotten` | hold |
| `Buffer` | initial size up to 2, 8 bytes of array, 5 bytes of stream | `TypeOK`, `IndicesInBounds`, `StreamIntact` | hold |
| `Session` | 2 threads, 3 requests, pipelining client, fair | `TypeOK`, `StreamIntact`, `NoReplyDropped`, `RepliesGoOut`, `NothingKept` | hold |
| `SessionOverlap` | 2 threads, 2 requests, a client that waits | `UpdatesWhatItWrote` | violated |
| `Server` | 2 threads, 2 clients, 2 queries, fair | `ServerTypeOK`, `OneTimerChain`, `ClosedIsErased`, `ClientIsServed` | hold |
| `Http` | 2 requests, query strings up to 4 characters, fair | `TypeOK`, `SectionsAgree`, `QueriesFound`, `EveryRequestAnswered` | hold |
| `Sync` | 2 threads, up to 2 connections, 3 requests, fair | `TypeOK`, `OneUser`, `RowsAreMine`, `OnlyFailedStoreFreesTwice`, `SomeRequestIsAnswered` | hold |
| `Log` | files of 2 messages, 3 files besides the current one, 9 messages, 3 seconds, 2 restarts | `TypeOK`, `OthersSurvive`, `SizeBounded` | hold |

What the runs show beyond their names: the properties of `Session` say that the
write queue is right until two writes overlap, and `SessionOverlap` that even a
client that never pipelines can make them overlap. `Server` shows that the two
threads and the canceled waits leave one chain of updates, and that accepting ends
only by an error or an exception. `Sync` shows that no way out of `Query`
leaves a connection locked, and that the rows a thread reads are its own although
it reads them without the lock and after another query of its own. `Http` shows what the carried-over state does
*not* break: every section of the payload agrees with itself.

Why the bounds are enough. Three workers and three of the four tasks make a sleeping worker,
one that was woken and one that never slept compete for a task while another is
queued; a lost wakeup needs two of each. A pool is closed only when each of its
workers has a task in hand (section 6), so a fourth task is needed for one that
comes after. Two statements are the least with which a transaction can be half
executed, two transactions the least with which one can disturb the next, three
those with one left open, one that could not begin and one that meets both; two
attempts the least that contains a retry. Four queries let
`remove_if` close two gaps with unserved elements behind each. Eight bytes let a
buffer of two grow twice. Three packets of one to three bytes give partial
writes, a second packet queued behind a partly written one, and a third behind
both; two threads are what the program has. Two clients make one connect while the
other closes or its handler sleeps; two queries make one throw while another is
polled. The second request of a connection is the first that meets leftovers, and
four characters hold two keys, one of them with a value. With one connection
two threads contend for it, with two one searches past the other. Nine messages
rotate three files of two often enough to drop one, in one second or across two,
and three files have one between the first and the last, which a rotation must keep.
The
safety properties of all passing runs are also proved for every value of the
constants, so these bounds limit only the liveness properties.

Every configuration says `CHECK_DEADLOCK FALSE`, because each system may stop:
the pool is destroyed, the bounded transactions, queries, requests and bytes are
used up, the client leaves, the program aborts or crashes.

Each property of a passing run has a mutant in `PROJECT.json`: a plausible bug in
one definition (notifying only when the queue was empty, detaching the thread
instead of joining it, not rolling back, popping a packet that is half written,
arming the timer twice, unlocking only when there are rows, computing the length
before the page is appended, ...) with which TLC finds that property violated. The
operators used for it stand before the definition they replace and nothing else
uses them.

## 4. Fairness

- `DatabaseWorkerPool!Fairness`: weak fairness of each worker (the scheduler runs
  every runnable thread; a query comes back, since the client library has
  timeouts and a lost connection is an error) and of the owner within `Open` and
  `Close`. No fairness for `Submit`, `Close`, `Destroy` or spurious wakeups:
  nobody has to call them. `Execute` and `Throw` are alternatives, so fairness
  does not exclude a worker that dies; `AnsweredOrAbandoned` therefore excepts
  the case that every worker has ended.
- `MysqlConnection!FairSpec`: the worker goes on with the transaction it has
  begun. Nothing is assumed about the server's behaviour: it may go away at every
  single command.
- `Session!FairSpec`: the socket completes what it can (a write to a client that
  does not read is not distinguished from a slow one), threads run handlers, the
  server's `Update` comes. The client owes nothing.
- `Server!FairServer`: weak fairness of the timer and of every thread within a
  handler; strong fairness of taking the timer's, the accept's and a session's
  handler, because the `io_context` keeps a queue of ready handlers and no thread
  skips one for ever, although at each single moment every thread may be busy.
  `AcceptCompletes(c)` is weakly fair: a client that waits is offered to the
  acceptor when it is armed.
- `HttpConnection!Spec`: a handler that has begun goes on.
- `SyncConnections!FairSpec`: each thread goes on within a request, and calls of
  the library come back. Nothing orders the threads that spin for a connection,
  so one of them may spin for ever; `SomeRequestIsAnswered` is the property that
  such a lock has.

## 5. Proofs

Each proof module EXTENDS its component's module and holds for every value of the
constants that satisfies the named assumptions there.

`DatabaseWorkerPoolProofs` (`AsyncThreadsAssumption`, `MaxTasksAssumption`,
`NoTaskAssumption`):

- `TypeCorrect`: `TypeOK` is inductive as it stands.
- `PendingTaskHasOneOwner` and `TasksTakenInOrder`: `OneOwner` is not inductive
  alone. `OwnerInv` strengthens it by the facts that tasks are born in order (a
  task is unborn exactly when its number exceeds `submitted`), that a worker holds
  a task exactly in the stages `check`, `start` and `run`, and that a worker not yet
  constructed holds none. The step lemmas follow the few ways in which an action
  can move a task: not at all, submit, take, answer, clear.
- `NoWakeupIsLost`: `WakeupInv` counts. Only workers that are in `pop` sleep; a
  push that wakes a sleeper adds one to the workers on their way and one to the
  queue, a push without sleepers makes the claim vacuous, a take removes one from
  both, and a worker that goes to sleep has found the queue empty.
- `TasksRunOnOpenHandles` and `ClosedPoolIsQuiet`: `LifeInv` says, for each place
  the owner may be at, which connections are open, which workers exist and which
  have been joined; that nothing is submitted before the pool is open settles
  the connection whose thread runs before its handle is open.
- `ClosedPoolOwesNothing`: a pending task is in the queue or held (`OwnerInv`), the
  destructor leaves the queue empty (`Emptied`), and no worker of a pool whose
  connections were all destroyed holds a task (`LifeInv`).
- `PoolImplementsService`: the refinement. `Status` maps the pool to the
  service; with `OwnerInv` every action is one of `Submit`, `Start`, `Finish`,
  `Shutdown` or leaves the status of every task as it is. `TakenInOrder` makes a
  take the start of the *first* task not started.

`MysqlConnectionProofs`: `BegunIsAtomic`, `NothingHappensTwice`,
`TransactionsDoNotLeak`, `ConnectionTypeCorrect` from one invariant, `Inv`. A command
leaves the server as it is, settles what is staged, stages the statement or commits it
at once (`Moves`). `Inv` says of the tasks to come that the server knows nothing of
them (`Future`, `Fresh`); of the present one, nothing before BEGIN (`InBegin`), exactly
the statements executed so far, staged when the transaction began and was not lost,
durable when it never began (`InStatement`), all or nothing at COMMIT (`InCommit`);
and of a transaction that has ended, that what is still staged of it, because its
COMMIT was refused, would with what is durable make it whole (`Settled`, `WholeAt`),
unless its ROLLBACK was refused. Two facts of the code carry it: a reconnection
that is reported as handled always leaves a null handle (`NullIsClean`), so the
repeated command does nothing; and the error read after a ROLLBACK is never that
of a deadlock, so there is no second attempt. Both are what section 6 calls
defects: correcting either alone breaks the theorem, as the mutants show.

`MessageBufferProofs`: `BufferTypeCorrect`, `BufferIndicesInBounds`,
`BufferStreamIntact`. Type, bounds and stream are inductive together: the bounds
say which elements of the array are readable, the stream that they are the right
ones.

`SyncConnectionsProofs` (any number of threads, connections, requests):
`OneUserPerConnection` from `LockHeld` (a thread between `TryLock` and `UnLock`
is the one in the mutex of its connection); `RowsOfOwnQuery` from that, `WireIsMine`
(what the server sends on a locked connection answers the query of its holder) and
`Cleared` (no rows of an earlier request are left); `FreedTwiceOnlyAfterFailure` from `Arrays` (unless storing has
failed, the arrays are there whenever `bind_result_done` is true); `TypeCorrect`.

`ServerProofs` (any number of clients, queries and continuations):

- `OneChainOfUpdates`, whatever the callbacks do. `ChainInv` adds only the types it
  needs; a wait moves from armed to fired to a thread that renews it, and `Arm`
  turns the outstanding wait, if there is one, into a fired one.
- `NoForeignResults` and `NoQueryIsForgotten`, of `QueryCallback`. `QueryInv`
  strengthens them by `OwnThens`: the continuations an element still has are its
  own query's. What carries it is that a moved element has none. The lemmas about
  `remove_if` say that `Place` numbers the kept elements without gap, so that
  `MovedTo` is its inverse and each kept element survives exactly once.
- `ServerTypeCorrect`: `ServerTypeOK` needs `OneTimerChain`, since a second chain
  would have two waits outstanding.

`SessionProofs` (any number of threads and requests, clients that pipeline or not):

- `TypeCorrect`. `TypeOK` bounds replies by requests and bytes by packets, and is
  not inductive. `TypeInv` adds that one read is out or waits for its handler at a
  time, and has brought a request without a reply (`OneRead`), and that a write
  reaches to the end of its packet. It holds after an overlap too.
- `StreamIsIntact` and `NoReplyIsDropped`. `StreamInv` holds while no write has
  overlapped another: one write is out or completed (`OneWrite`), of what is left
  of the front packet (`FrontIsOut`); the queue holds the newest packets in order
  and only the front has been read from (`NewestQueued`); the client has what the
  session has accounted for, and the bytes of a completion whose handler has not
  run (`ReceivedIsConfirmed`); each byte is in its place (`InPlace`).
- `NoOverlapUpdatesWhatItWrote`: what `SessionOverlap` refutes holds until two
  writes overlap, so that the overlap is its only cause.

`LogRotationProofs` (any size, number of files, clock, messages and restarts):

- `FilesAreBounded`: with `SizeInv`, which says that between rotations the log is open
  and `_currentSize` counts every message of its file and all of its headers but
  one (`OpenCounted`); it holds across late rotations and failed renames.
- `OthersDoSurvive`: with `SurvivalInv`, which says at each step of a rotation where
  the messages it must keep can be (`Held`, `Safe`): the place to which the next file
  moves is empty or has the last index (`Vacated`), no file is named after a second to
  come (`Past`), so that a target in a new second meets nothing, and no file with
  index 0 is younger than the open one (`Youngest`), so that a file moved in a late
  rotation is not the one that will be truncated.
- `LogTypeCorrect`: `TypeOK` with the fact that the open file exists between
  rotations (`FileIsOpen`).

`HttpConnectionProofs` (any number of requests, any length of a query string):

- `WellFormedIsParsed`: for every well-formed string `ParseQuery` and `Expected` have
  the same keys with the same values. `Found` says what the loop has of the tokens
  that end before a turn; the induction over the string is that of
  `SetInduction`, which takes the set of the turns after which the claim holds and
  not a predicate, so that the provers can instantiate it.
  With it `QueriesFound` holds for strings of any length, as long as no view of a
  freed request is left.
- `SectionsDoAgree`: `SectionInv` adds where the last reply that was sent ends
  (`Ordered`) and that a head that was built agrees with the response until its
  content follows (`HeadAgrees`), which a continuation that runs in between breaks;
  later replies do not touch the section of an earlier one (`RepliesAreKept`).
- `TypeCorrect`: `TypeInv` counts what a request may add: two headers, one Host, one
  continuation (`Counted`).

TLC checked each of these invariants on its run's constants, or larger ones, before
it was proved.

Only model-checked: the liveness properties (`AnsweredOrAbandoned`,
`EveryTaskAnswered`, `RepliesGoOut`, `NothingKept`, `ClosedIsErased`,
`ClientIsServed`, `EveryRequestAnswered`, `SomeRequestIsAnswered`), which are out
of the prover's reach.

## 6. Findings

Three runs refute what a line of the repository states; `PROJECT.json` quotes it.

1. **Closing the pool hangs** (`PoolClose`). The predicate in
   `ProducerConsumerQueue.hpp:107` is false once the queue is shut down, so a
   waiting worker waits for ever and `join` with it. The same predicate makes the
   early return behind it unreachable.
2. **A rolled back transaction is answered with success** (`TxFailureIsReported`):
   the error is read after the ROLLBACK.
3. **A completion handler updates another packet than it wrote**
   (`SessionOverlap`): a second write is started while one is in flight.

What else the models contain, as the code has it, without a run of its own:

- `Database/DatabaseWorkerPool.h:78`: `_queue` is declared after `_connections` and so freed
  before the workers of a pool that was not closed have ended; `main` never
  calls `Close`. `ClosedPoolDiesSafely` therefore speaks of closed pools.
- `MysqlConnection.cpp:394`: the sense of the reconnection is inverted; a failed
  one is reported as handled. It also protects: a successful one is not handled,
  so that the statement is not repeated outside its transaction
  (`AtomicOnceBegun`'s mutant).
- `MysqlConnection.cpp:344`, `:425`: a deadlock is never retried, because the
  error is read too late. Reading it in time is not enough: with a START
  TRANSACTION that fails unnoticed, the retry duplicates effects
  (`NoDuplicateEffect`'s mutant).
- `QueryCallback.cpp:24`, `:57`: moving a callback leaves its continuations
  behind; one that outlives a poll calls the front of an empty queue (`crashed`).
  With the continuations moved by construction but not by assignment, results go
  to the wrong one (`NoForeignResult`'s mutant).
- `Buffer.hpp:118`: `EnsureFreeSpace`, which is to tidy the memory, asks for more
  than can be writable and so always grows the array.
- `MysqlConnection.cpp:310`, `:315`, `:320`: the results of START TRANSACTION, COMMIT
  and ROLLBACK are ignored. A refused COMMIT is answered with success; a refused
  ROLLBACK leaves the transaction open, and the next START TRANSACTION on the
  connection commits the part of it that was done, or, if that is refused too, the
  next task's statements join it (`AtomicOnceBegun` and `NoTransactionLeaks` say
  exactly this).
- `MysqlConnection.cpp:393`: prepared statements are not prepared again after a
  successful reconnection, though line 396 is there to do it: on that connection
  `/userInfo` answers InternalServerError until the process ends. The model has it
  (`statement` stays `stale`); no property asserts it.
- `QueryResult.cpp:275`: after a failed `mysql_stmt_store_result` the next result
  frees the same arrays again; `OnlyFailedStoreFreesTwice` says that nothing else
  does. After a failed `mysql_stmt_bind_result` (326-334), which the model leaves
  out, `CleanUp` runs twice and frees the metadata twice.
- `HttpServer.cpp:147`: the second query of `/userInfo` is not tested for null.
- `DatabaseWorkerPool.cpp:273`: with no connection, a remainder by zero.
- `HttpResponse.cpp:26`: the payload of a reply begins with all earlier replies of
  the connection, and error pages pile up in the content.
- `Log.hpp:169`: a rotation later than the second in which the log was opened
  finds no file to rename and truncates the current one, with all its messages; and
  files of earlier processes are never removed. `OthersSurvive` says no more than that
  nothing else is lost.
- `Log.hpp:152`, `:293`: nothing flushes the log between rotations; `std::abort` loses
  what the buffer holds, the reason of the abort included.
- `HttpParser.cpp:149`: a key of a second request may compare equal to a stale key,
  a view of freed memory, and be dropped. No handler reads the queries.
- `HttpSession.cpp:29`: one read is one request; a request in two parts is routed
  twice, two in one read once.

## 7. Not modelled

Left out for good: `picohttpparser` and the MySQL headers (third party), `Field`,
`Util` and the HTTP tables (conversions and constants without state), formatting
of log lines, and what no code calls: `PingTask`, `TransactionCallback`, the
other overloads of the queue, `SyncExecute`, `SendProtoMessage`,
`DelayedCloseSession`, `ParseResponse`. `net::Session`, which speaks protocol
buffers, is never created by the server. `BindParameters` and the typed columns of
a result are conversions.

Of the 17522 lines the implementation counts, some 9400 are the headers of the MySQL
client library under `src/3rdParty/` and 980 are `picohttpparser`. Of the
project's own lines many are banners, tables of strings, accessors and
conversions: the modules translate the state changes and the control around them.

Data races inside one statement are left out where a lock or an atomic excludes
them (queue, worker); where nothing does (`_sessions`, `_processor`), `Server`
stops at the race; a session's write queue, used by two handlers of one session on
two threads, is modelled handler by handler, which is the weaker assumption's
best case: `SessionOverlap` needs no finer interleaving.

## 8. What could follow

The pool's service composed with the callback processor through futures; an
abstract specification of a session (bytes in order) and of the log (a window of
messages) as refinements; `Execute` of a prepared statement on an asynchronous
connection, once some code uses one.

## 9. How to run

In this directory, with the community modules on the library path:

    tlc -workers 2 -config Pool.cfg DatabaseWorkerPool.tla
    tlapm DatabaseWorkerPoolProofs.tla

`PROJECT.json` names the module and configuration of every run.
