--------------------------- MODULE MysqlConnection ---------------------------
(***************************************************************************)
(* One asynchronous IMySqlConnection and the TransactionTasks its worker   *)
(* runs on it, one after the other: Execute with its error handler         *)
(* HandleMysqlErrcode, ExecuteTransaction and TransactionTask::Execute.    *)
(*                                                                         *)
(* The MySQL server and its client library are external.  The server keeps *)
(* the session's transaction and the effects that are durable; it may drop *)
(* the connection before or after it has run a command, refuse any command *)
(* with an error that Execute only logs (a duplicate key, a lock timeout,  *)
(* anything unhandled), choose it as a deadlock victim and so roll the     *)
(* transaction back, or answer a statement with one of the errors on which *)
(* the program aborts.                                                     *)
(***************************************************************************)
EXTENDS Naturals, FiniteSets

CONSTANTS
    MaxTransactions,   \* bound: how many transactions the worker runs
    MaxStatements,     \* bound: statements in one transaction
    MaxAttempts        \* bound: attempts the 60 s of the deadlock loop allow

ASSUME BoundsAssumption == /\ MaxTransactions \in Nat \ {0}
                           /\ MaxStatements \in Nat \ {0}
                           /\ MaxAttempts \in Nat \ {0, 1}

VARIABLES
    step,        \* the next statement of ExecuteTransaction, or "idle"
    current,     \* the transaction the worker is running or has just run
    size,        \* how many statements each transaction has
    at,          \* the statement in its loop over queries
    handle,      \* _mysql: open, or a null pointer
    errno,       \* what mysql_errno(_mysql) answers
    server,      \* the session's transaction, and the durable effects
    attempts,    \* how often TryExecute was called for each transaction
    answer,      \* what TransactionTask::Execute returned for each
    began,       \* whether START TRANSACTION succeeded in the last attempt
    failed,      \* whether some attempt took the branch that rolls back
    unfinished   \* the transactions whose COMMIT or ROLLBACK was refused

taskVars == <<current, size, attempts, answer, began, failed, unfinished>>
connVars == <<handle, errno, server>>
vars     == <<step, at, taskVars, connVars>>

Transactions == 1 .. MaxTransactions
Effects      == Transactions \X (1 .. MaxStatements)
Steps        == {"idle", "begin", "statement", "rollback", "commit", "aborted"}
Refused      == "refused"
Deadlock     == "deadlock"
Lost         == "lost"
NoQueries    == "empty"
Ok           == "ok"
Errnos       == {Ok, Refused, Deadlock, Lost}
Returns      == {"true", "false", "again"}

Init == /\ step       = "idle"
        /\ current    = 0
        /\ size       = [t \in Transactions |-> 0]
        /\ at         = 1
        /\ handle     = "open"
        /\ errno      = Ok
        /\ server     = [inTransaction |-> FALSE, staged |-> {},
                         durable |-> [e \in Effects |-> 0]]
        /\ attempts   = [t \in Transactions |-> 0]
        /\ answer     = [t \in Transactions |-> "none"]
        /\ began      = [t \in Transactions |-> FALSE]
        /\ failed     = [t \in Transactions |-> FALSE]
        /\ unfinished = {}

-----------------------------------------------------------------------------
(* The server.                                                             *)

\* Effects become durable; counting stops at two, one more than there may be.
MakeDurable(effects) ==
    [e \in Effects |-> IF e \in effects /\ server.durable[e] < 2
                       THEN server.durable[e] + 1 ELSE server.durable[e]]

Effect == <<current, at>>

\* The server runs a command: START TRANSACTION commits the transaction that is
\* open, a statement outside a transaction commits at once (autocommit).
Run(command) ==
    CASE command = "begin" ->
             [inTransaction |-> TRUE, staged |-> {}, durable |-> MakeDurable(server.staged)]
      [] command = "commit" ->
             [inTransaction |-> FALSE, staged |-> {}, durable |-> MakeDurable(server.staged)]
      [] command = "rollback" ->
             [server EXCEPT !.inTransaction = FALSE, !.staged = {}]
      [] command = "statement" /\ server.inTransaction ->
             [server EXCEPT !.staged = @ \cup {Effect}]
      [] OTHER ->
             [server EXCEPT !.durable = MakeDurable({Effect})]

\* The session ends, or the transaction is a deadlock victim: what is staged is
\* rolled back.
RolledBack(s) == [s EXCEPT !.inTransaction = FALSE, !.staged = {}]

-----------------------------------------------------------------------------
(* HandleMysqlErrcode on a lost connection.                                *)

\* What Open leaves in _mysql and returns.  On failure mysql_real_connect has
\* returned a null pointer, and Open returns mysql_errno of that pointer, which
\* says nothing of the failure: it may be 0.
Reopened == {[handle |-> "open", code |-> Ok],
             [handle |-> "null", code |-> Ok],
             [handle |-> "null", code |-> Lost]}

\* if (0 != errcode) { PrepareStatements(); ... return true; } and otherwise,
\* after one decrement of tryReconnectTimes, the handler calls itself with
\* _prepareError for the error code, which it does not handle: false.  The
\* countdown from 5 never reaches the abort at 0.
ReportsHandledOnOk(code) == code = Ok
ReportsHandled(code)     == code # Ok

Reconnect(command, returned) ==
    /\ \E s \in {server, Run(command)} : server' = RolledBack(s)
    /\ \E reopened \in Reopened :
           /\ handle'  = reopened.handle
           /\ errno'  \in IF reopened.handle = "open" THEN {Ok} ELSE {Ok, Lost}
           /\ returned = IF ReportsHandled(reopened.code) THEN "again" ELSE "false"

\* The server answers with an error for which HandleMysqlErrcode returns false.  A
\* refused command changes nothing, so a refused COMMIT or ROLLBACK leaves the
\* transaction open.  A ROLLBACK waits for no lock and is no deadlock victim.
Refuse(command) ==
    \/ errno' = Refused /\ UNCHANGED server
    \/ command # "rollback" /\ errno' = Deadlock /\ server' = RolledBack(server)

\* Execute(sql) returns true or false, or handles an error and calls itself
\* ("again").
Execute(command, returned) ==
    \/ /\ handle = "null"
       /\ returned = "false"
       /\ UNCHANGED connVars
    \/ /\ handle = "open"
       /\ returned = "true"
       /\ server' = Run(command)
       /\ errno' = Ok
       /\ UNCHANGED handle
    \/ /\ handle = "open"
       /\ returned = "false"
       /\ Refuse(command)
       /\ UNCHANGED handle
    \/ /\ handle = "open"
       /\ Reconnect(command, returned)

-----------------------------------------------------------------------------
(* TransactionTask::Execute and ExecuteTransaction.                        *)

\* TryExecute has returned an error code.  Only a deadlock is tried again, at
\* least once and for as long as the 60 s allow, a moment the model does not fix;
\* a task in that loop goes on whatever the error.
TriesAgain(code) == code = Deadlock \/ (code # Ok /\ attempts[current] > 1)

TimeIsUp == attempts[current] > 1

Finish(code) ==
    \/ /\ TriesAgain(code)
       /\ attempts[current] < MaxAttempts
       /\ step' = "begin"
       /\ attempts' = [attempts EXCEPT ![current] = @ + 1]
       /\ UNCHANGED answer
    \/ /\ TriesAgain(code) => TimeIsUp
       /\ step' = "idle"
       /\ answer' = [answer EXCEPT ![current] = IF code = Ok THEN "true" ELSE "false"]
       /\ UNCHANGED attempts

\* The worker starts the next TransactionTask.  A transaction without queries
\* fails with -1 before anything is sent.
StartTask ==
    /\ step = "idle"
    /\ current < MaxTransactions
    /\ current' = current + 1
    /\ \E n \in 0 .. MaxStatements :
           /\ size' = [size EXCEPT ![current + 1] = n]
           /\ IF n = 0
              THEN /\ step' = "idle"
                   /\ answer' = [answer EXCEPT ![current + 1] = "false"]
              ELSE /\ step' = "begin"
                   /\ UNCHANGED answer
    /\ attempts' = [attempts EXCEPT ![current + 1] = 1]
    /\ UNCHANGED <<at, began, failed, unfinished, connVars>>

\* BeginTransaction(): the result of Execute is not looked at.
BeginTransaction ==
    /\ step = "begin"
    /\ \E returned \in Returns :
           /\ Execute("begin", returned)
           /\ step' = IF returned = "again" THEN step ELSE "statement"
           /\ began' = [began EXCEPT ![current] = returned = "true"]
    /\ at' = 1
    /\ UNCHANGED <<current, size, attempts, answer, failed, unfinished>>

\* One turn of the loop over queries.
LeaveOpen(returned) ==
    CASE returned = "again" -> "statement"
      [] returned = "false" -> "idle"
      [] OTHER              -> IF at < size[current] THEN "statement" ELSE "commit"
NeverGiveUp(returned) ==
    CASE returned # "true" -> "statement"
      [] OTHER             -> IF at < size[current] THEN "statement" ELSE "commit"
AfterStatement(returned) ==
    CASE returned = "again" -> "statement"
      [] returned = "false" -> "rollback"
      [] OTHER              -> IF at < size[current] THEN "statement" ELSE "commit"

OnePastEnd(returned)    == IF returned = "true" THEN at + 1 ELSE at
NextStatement(returned) == IF returned = "true" /\ at < size[current] THEN at + 1 ELSE at

ExecuteStatement ==
    /\ step = "statement"
    /\ \E returned \in Returns :
           /\ Execute("statement", returned)
           /\ step'   = AfterStatement(returned)
           /\ at'     = NextStatement(returned)
           /\ failed' = IF returned = "false" THEN [failed EXCEPT ![current] = TRUE]
                                              ELSE failed
    /\ UNCHANGED <<current, size, attempts, answer, began, unfinished>>

\* GetLastError() asks the connection for the error of its last command, which
\* after RollbackTransaction() is the ROLLBACK, not the statement that failed.
ErrorOfStatement == errno
GetLastError     == errno'

\* The results of ROLLBACK and COMMIT are not looked at, whatever the server says.
NoteRefusal == unfinished' = IF errno' = Refused THEN unfinished \cup {current}
                                                 ELSE unfinished

RollbackTransaction ==
    /\ step = "rollback"
    /\ \E returned \in Returns :
           /\ Execute("rollback", returned)
           /\ IF returned = "again"
              THEN UNCHANGED <<step, attempts, answer>>
              ELSE Finish(GetLastError)
    /\ NoteRefusal
    /\ UNCHANGED <<at, current, size, began, failed>>

\* CommitTransaction(), whose result is not looked at, then return 0.
CommitTransaction ==
    /\ step = "commit"
    /\ \E returned \in Returns :
           /\ Execute("commit", returned)
           /\ IF returned = "again"
              THEN UNCHANGED <<step, attempts, answer>>
              ELSE Finish(Ok)
    /\ NoteRefusal
    /\ UNCHANGED <<at, current, size, began, failed>>

\* ER_BAD_FIELD_ERROR, ER_NO_SUCH_TABLE or ER_PARSE_ERROR: std::abort().
Abort == /\ step = "statement"
         /\ handle = "open"
         /\ step' = "aborted"
         /\ server' = RolledBack(server)
         /\ UNCHANGED <<at, taskVars, handle, errno>>

TransactionStep == \/ BeginTransaction \/ ExecuteStatement
                   \/ RollbackTransaction \/ CommitTransaction \/ Abort

Next == StartTask \/ TransactionStep

Spec == Init /\ [][Next]_vars

\* Commands come back, and the worker's thread goes on with what it has begun.
FairSpec == Spec /\ WF_vars(TransactionStep)

-----------------------------------------------------------------------------
(* Properties.                                                             *)

TypeOK == /\ step \in Steps
          /\ current \in 0 .. MaxTransactions
          /\ size \in [Transactions -> 0 .. MaxStatements]
          /\ at \in 1 .. MaxStatements
          /\ handle \in {"open", "null"}
          /\ errno \in Errnos
          /\ server \in [inTransaction : BOOLEAN, staged : SUBSET Effects,
                         durable : [Effects -> 0 .. 2]]
          /\ attempts \in [Transactions -> 0 .. MaxAttempts]
          /\ answer \in [Transactions -> {"none", "true", "false"}]
          /\ began \in [Transactions -> BOOLEAN]
          /\ failed \in [Transactions -> BOOLEAN]
          /\ unfinished \subseteq Transactions

Durable(t) == {k \in 1 .. size[t] : server.durable[<<t, k>>] > 0}

RollbackRefused(t) == failed[t] /\ t \in unfinished

\* A transaction whose START TRANSACTION succeeded is durable as a whole or not
\* at all, at every moment: the handler replaces a lost session behind the back
\* of ExecuteTransaction, and a statement sent to the new one would commit alone.
\* Only a transaction whose ROLLBACK the server refused is left to the next START
\* TRANSACTION on the connection, which commits the part of it that was done.
AtomicOnceBegun ==
    \A t \in Transactions :
        began[t] /\ ~RollbackRefused(t) => Durable(t) \in {{}, 1 .. size[t]}

\* No effect happens twice, although a reply may be lost after the server has
\* run the command, and Execute and TransactionTask::Execute both retry.
NoDuplicateEffect == \A e \in Effects : server.durable[e] <= 1

LastTask(t) == \A u \in Transactions : t < u /\ u <= current => size[u] = 0

\* Between two tasks the session is in a transaction only if the server refused
\* the COMMIT or the ROLLBACK of the last one.
OpenIsUnfinished ==
    step = "idle" /\ server.inTransaction => \E t \in unfinished : LastTask(t)

\* And such a transaction swallows no statement of a task that began its own.
BegunIsAlone ==
    step \in {"statement", "rollback", "commit"} /\ began[current] =>
        \A e \in server.staged : e[1] = current

\* No task's transaction reaches into the next task's on the same connection, on
\* any way out of ExecuteTransaction, unless the server refused to end the one;
\* and even then not if it agreed to begin the other.
NoTransactionLeaks == OpenIsUnfinished /\ BegunIsAlone

\* Every transaction that is started is answered, or the program aborts: the
\* mutual recursion of Execute and HandleMysqlErrcode comes to an end however
\* often the server goes away.
EveryTaskAnswered == step = "begin" ~> step \in {"idle", "aborted"}

\* A transaction that took the branch logged as failed, about to be rolled back,
\* is not answered with success.
FailureIsReported ==
    \A t \in Transactions :
        failed[t] /\ attempts[t] = 1 /\ answer[t] # "none" => answer[t] = "false"
=============================================================================
