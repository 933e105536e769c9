---------------------------- MODULE SyncConnections ----------------------------
(***************************************************************************)
(* The synchronous half of DatabaseWorkerPool and its only user,           *)
(* HttpServer::GetUserInfo: a request queries the account first with the   *)
(* prepared statement LOGIN_SEL_ACCOUNT_BY_EMAIL, then with the text of    *)
(* the same query.  SyncQuery takes the first connection whose mutex it    *)
(* can lock, runs IMySqlConnection::Query and PreparedResultSet's          *)
(* constructor under the lock, and reads the rows after it has unlocked:   *)
(* those of the first query are read again after the second, and both      *)
(* result sets live until the handler returns.                             *)
(*                                                                         *)
(* The MySQL client library is external: a command and the fetching of its *)
(* result are two calls, and the server may refuse the command, answer it  *)
(* with an error that makes the program abort, or drop the connection.     *)
(* mysql_stmt_bind_result does not fail: it rejects only types that the    *)
(* columns of the statement do not have.                                   *)
(***************************************************************************)
EXTENDS Naturals

CONSTANTS
    Threads,       \* the threads that run request handlers
    Nobody,
    SyncThreads,   \* how many synchronous connections Open is asked for, at most
    MaxRequests    \* bound: requests for /userinfo

ASSUME SyncAssumption == /\ Nobody \notin Threads
                         /\ SyncThreads \in Nat \ {0}
                         /\ MaxRequests \in Nat

VARIABLES
    phase,        \* main: "preparing" the statements, then "serving"; or "down"
    count,        \* _connections[EConnectionTypeIndex_Sync].size()
    cursor,       \* the connection main prepares
    mutex,        \* who holds _mutex of each connection
    handle,       \* _mysql: "open", dropped by the server ("lost"), or "null"
    wire,         \* the query whose result the server sends on a connection
    statement,    \* _stmts[0]: "none", "fresh", or of a session that ended, "stale"
    bound,        \* bind_result_done of that statement
    arrays,       \* what its bind->length points to: "none", "live" or "freed"
    freedTwice,   \* a freed array was deleted again
    storeFailed,  \* mysql_stmt_store_result has failed on this connection
    pc,           \* what each thread does next
    index,        \* the connection it tries or uses
    kind,         \* which of the request's two queries it makes
    request,      \* the number of its request
    rows,         \* whose rows its two result sets hold
    started,      \* how many requests have begun
    done          \* how many have been answered

resultVars     == <<bound, arrays, freedTwice, storeFailed>>
connectionVars == <<mutex, handle, wire, statement, resultVars>>
threadVars     == <<pc, index, kind, request, rows>>
mainVars       == <<phase, count, cursor>>
counters       == <<started, done>>
vars           == <<mainVars, connectionVars, threadVars, counters>>

Connections == 1 .. SyncThreads
Kinds       == {"prepared", "text"}
NoRows      == <<0, "none">>
NoResult    == [k \in Kinds |-> NoRows]
Query(t)    == <<request[t], kind[t]>>

\* Open has returned.  It makes all the connections it was asked for or, when
\* one fails, none; main does not look at its result and starts the server.
Init == /\ phase       = "preparing"
        /\ count       \in 0 .. SyncThreads
        /\ cursor      = 1
        /\ mutex       = [c \in Connections |-> Nobody]
        /\ handle      = [c \in Connections |-> "open"]
        /\ wire        = [c \in Connections |-> NoRows]
        /\ statement   = [c \in Connections |-> "none"]
        /\ bound       = [c \in Connections |-> FALSE]
        /\ arrays      = [c \in Connections |-> "none"]
        /\ freedTwice  = [c \in Connections |-> FALSE]
        /\ storeFailed = [c \in Connections |-> FALSE]
        /\ pc          = [t \in Threads |-> "idle"]
        /\ index       = [t \in Threads |-> 1]
        /\ kind        = [t \in Threads |-> "prepared"]
        /\ request     = [t \in Threads |-> 0]
        /\ rows        = [t \in Threads |-> NoResult]
        /\ started     = 0
        /\ done        = 0

Goto(t, place) == pc' = [pc EXCEPT ![t] = place]

\* std::abort, or a division by zero or a null pointer that ends the process.
Die == phase' = "down" /\ UNCHANGED <<count, cursor, connectionVars, threadVars, counters>>

-----------------------------------------------------------------------------
(* main: PrepareStatements, connection by connection.  Nobody else uses    *)
(* the pool yet, so TryLock succeeds.                                      *)

PrepareStatements ==
    /\ phase = "preparing"
    /\ cursor <= count
    /\ \/ /\ statement' = [statement EXCEPT ![cursor] = "fresh"]
          /\ cursor'    = cursor + 1
          /\ UNCHANGED <<phase, count>>
       \/ \* A statement is refused: Close(), return false; main goes on.
          /\ phase'     = "serving"
          /\ count'     = 0
          /\ statement' = [c \in Connections |-> "none"]
          /\ UNCHANGED cursor
    /\ UNCHANGED <<mutex, handle, wire, resultVars, threadVars, counters>>

ServerStarts == /\ phase = "preparing"
                /\ cursor > count
                /\ phase' = "serving"
                /\ UNCHANGED <<count, cursor, connectionVars, threadVars, counters>>

-----------------------------------------------------------------------------
(* SyncQuery: GetFreeConnectionAndLock.                                    *)

GetUserInfo(t) ==
    /\ phase = "serving"
    /\ pc[t] = "idle"
    /\ started < MaxRequests
    /\ started' = started + 1
    /\ request' = [request EXCEPT ![t] = started + 1]
    /\ kind'    = [kind EXCEPT ![t] = "prepared"]
    /\ index'   = [index EXCEPT ![t] = 1]
    /\ Goto(t, "seek")
    /\ UNCHANGED <<mainVars, connectionVars, rows, done>>

OnePast(i)      == i + 1
NextIndex(i)    == IF i = count THEN 1 ELSE i + 1
LockIgnored(c)  == TRUE
LockSucceeds(c) == mutex[c] = Nobody

\* One turn of the loop; index++ % connectionCount with no connection divides
\* by zero.
TryLock(t) ==
    /\ pc[t] = "seek"
    /\ \/ count = 0 /\ Die
       \/ /\ count > 0
          /\ IF LockSucceeds(index[t])
             THEN /\ mutex' = [mutex EXCEPT ![index[t]] = t]
                  /\ Goto(t, "send")
                  /\ UNCHANGED index
             ELSE /\ index' = [index EXCEPT ![t] = NextIndex(@)]
                  /\ UNCHANGED <<mutex, pc>>
          /\ UNCHANGED <<mainVars, handle, wire, statement, resultVars,
                         kind, request, rows, counters>>

-----------------------------------------------------------------------------
(* Query, on the connection the thread has locked.                         *)

Stale(c) == [statement EXCEPT ![c] = IF @ = "fresh" THEN "stale" ELSE @]

\* HandleMysqlErrcode on a lost connection: mysql_close, then Open, which
\* connects, leaving the error reported as not handled, or fails with the errno
\* of a null pointer.  If that is not 0 the statements are prepared on the null
\* handle, which fails, and the program aborts.  So the statements of a
\* connection that was opened anew are not prepared again.
Reconnect(t, c) ==
    \/ Die
    \/ /\ handle'   \in {[handle EXCEPT ![c] = "open"], [handle EXCEPT ![c] = "null"]}
       /\ statement' = Stale(c)
       /\ Goto(t, "unlock")
       /\ UNCHANGED <<mainVars, mutex, wire, resultVars, index, kind, request, rows, counters>>

\* A statement of a closed session fails in the client library and leaves the
\* new session's errno at 0, which is not handled either.
Usable(t, c) == kind[t] = "text" \/ statement[c] = "fresh"

Fail(t) == /\ Goto(t, "unlock")
           /\ UNCHANGED <<mainVars, connectionVars, index, kind, request, rows, counters>>

\* mysql_query or mysql_stmt_execute, and its error handling.
Send(t) ==
    /\ pc[t] = "send"
    /\ LET c == index[t] IN
           \/ handle[c] = "null" /\ Fail(t)
           \/ /\ handle[c] = "open" /\ Usable(t, c)
              /\ wire' = [wire EXCEPT ![c] = Query(t)]
              /\ Goto(t, "store")
              /\ UNCHANGED <<mainVars, mutex, handle, statement, resultVars,
                             index, kind, request, rows, counters>>
           \/ handle[c] = "open" /\ Fail(t)
           \/ handle[c] = "open" /\ Usable(t, c) /\ Reconnect(t, c)
           \/ handle[c] = "lost" /\ Reconnect(t, c)
           \/ \* No such table or field, or a parse error: std::abort.
              handle[c] = "open" /\ Usable(t, c) /\ Die

\* The connection is lost while the result is fetched, which nobody handles
\* before the next command, or memory is short.
FetchFails(c) == \/ handle' = [handle EXCEPT ![c] = "lost"] /\ statement' = Stale(c)
                 \/ UNCHANGED <<handle, statement>>

\* Result sets with no row are dropped.
Result(t, c) == {[rows EXCEPT ![t][kind[t]] = r] : r \in {wire[c], NoRows}}

\* mysql_store_result.
StoreText(t, c) ==
    /\ \/ rows' \in Result(t, c) /\ UNCHANGED <<handle, statement>>
       \/ FetchFails(c) /\ UNCHANGED rows
    /\ UNCHANGED resultVars

\* The constructor of PreparedResultSet deletes the arrays of the previous
\* result if bind_result_done says there was one, then stores the result and
\* binds its own arrays; if storing fails bind_result_done remains as it was.
DeletesAny(c) == TRUE
Deletes(c)    == bound[c]

StorePrepared(t, c) ==
    /\ freedTwice' = [freedTwice EXCEPT ![c] = @ \/ (Deletes(c) /\ arrays[c] # "live")]
    /\ \/ /\ rows'   \in Result(t, c)
          /\ bound'  = [bound EXCEPT ![c] = TRUE]
          /\ arrays' = [arrays EXCEPT ![c] = "live"]
          /\ UNCHANGED <<handle, statement, storeFailed>>
       \/ /\ FetchFails(c)
          /\ arrays'      = [arrays EXCEPT ![c] = IF Deletes(c) THEN "freed" ELSE @]
          /\ storeFailed' = [storeFailed EXCEPT ![c] = TRUE]
          /\ UNCHANGED <<rows, bound>>

Store(t) ==
    /\ pc[t] = "store"
    /\ LET c == index[t] IN
           /\ IF kind[t] = "text" THEN StoreText(t, c) ELSE StorePrepared(t, c)
           /\ wire' = [wire EXCEPT ![c] = NoRows]
    /\ Goto(t, "unlock")
    /\ UNCHANGED <<mainVars, mutex, index, kind, request, counters>>

-----------------------------------------------------------------------------
(* The rest of SyncQuery and of GetUserInfo.                               *)

ReleasedIfRows(t) ==
    [mutex EXCEPT ![index[t]] = IF rows[t][kind[t]] = NoRows THEN @ ELSE Nobody]
Released(t) == [mutex EXCEPT ![index[t]] = Nobody]

UnLock(t) == /\ pc[t] = "unlock"
             /\ mutex' = Released(t)
             /\ Goto(t, "inspect")
             /\ UNCHANGED <<mainVars, handle, wire, statement, resultVars,
                            index, kind, request, rows, counters>>

\* Without rows the first query is answered with InternalServerError; the
\* second is not checked and Fetch dereferences the null pointer.  The content is
\* made of the rows of the first query; then both result sets are destroyed.
Reply(t) == /\ done' = done + 1
            /\ rows' = [rows EXCEPT ![t] = NoResult]
            /\ Goto(t, "idle")
            /\ UNCHANGED <<mainVars, connectionVars, index, kind, request, started>>

Inspect(t) ==
    /\ pc[t] = "inspect"
    /\ LET found == rows[t][kind[t]] # NoRows IN
           \/ kind[t] = "prepared" /\ ~found /\ Reply(t)
           \/ kind[t] = "text" /\ ~found /\ Die
           \/ kind[t] = "text" /\ found /\ Reply(t)
           \/ /\ kind[t] = "prepared" /\ found
              /\ kind'  = [kind EXCEPT ![t] = "text"]
              /\ index' = [index EXCEPT ![t] = 1]
              /\ Goto(t, "seek")
              /\ UNCHANGED <<mainVars, connectionVars, request, rows, counters>>

-----------------------------------------------------------------------------
Call(t) == TryLock(t) \/ Send(t) \/ Store(t) \/ UnLock(t) \/ Inspect(t)

Next == \/ PrepareStatements
        \/ ServerStarts
        \/ phase = "serving" /\ \E t \in Threads : GetUserInfo(t) \/ Call(t)

Spec == Init /\ [][Next]_vars

\* The scheduler runs every thread, and every call of the library comes back.
FairSpec == Spec /\ \A t \in Threads : WF_vars(phase = "serving" /\ Call(t))

-----------------------------------------------------------------------------
(* Properties.                                                             *)

Queries == (0 .. MaxRequests) \X Kinds

\* Types; a thread looks for a connection among those that were opened.
TypeOK == /\ phase \in {"preparing", "serving", "down"}
          /\ count \in 0 .. SyncThreads
          /\ cursor \in 1 .. SyncThreads + 1
          /\ mutex \in [Connections -> Threads \cup {Nobody}]
          /\ handle \in [Connections -> {"open", "lost", "null"}]
          /\ wire \in [Connections -> Queries \cup {NoRows}]
          /\ statement \in [Connections -> {"none", "fresh", "stale"}]
          /\ bound \in [Connections -> BOOLEAN]
          /\ arrays \in [Connections -> {"none", "live", "freed"}]
          /\ freedTwice \in [Connections -> BOOLEAN]
          /\ storeFailed \in [Connections -> BOOLEAN]
          /\ pc \in [Threads -> {"idle", "seek", "send", "store", "unlock", "inspect"}]
          /\ index \in [Threads -> Connections]
          /\ count > 0 => \A t \in Threads : index[t] <= count
          /\ kind \in [Threads -> Kinds]
          /\ request \in [Threads -> 0 .. MaxRequests]
          /\ rows \in [Threads -> [Kinds -> Queries \cup {NoRows}]]
          /\ started \in 0 .. MaxRequests
          /\ done \in Nat

Holds(t) == pc[t] \in {"send", "store", "unlock"}

\* A connection and the client library's state behind it belong to one thread at
\* a time, from TryLock to UnLock, whichever way Query returns.
OneUser == \A t, u \in Threads :
               Holds(t) /\ Holds(u) /\ index[t] = index[u] => t = u

\* The rows a thread reads after it has given its connection back are those of
\* the query it made, and the rows of its first query are still there, and its
\* own, while it makes and after it has made the second one: other threads query
\* the same connection, and fail on it, in between.
RowsAreMine ==
    \A t \in Threads :
        /\ \A k \in Kinds : rows[t][k] \in {NoRows, <<request[t], k>>}
        /\ pc[t] # "idle" /\ kind[t] = "text" =>
               rows[t]["prepared"] = <<request[t], "prepared">>

\* The arrays a statement is bound to are deleted once each, unless storing a
\* result has failed before: then bind_result_done still says they are there.
OnlyFailedStoreFreesTwice == \A c \in Connections : freedTwice[c] => storeFailed[c]

\* Threads spin for a connection without any order, but some request is always
\* answered while any is under way, or the process ends: no lock is left behind.
SomeRequestIsAnswered ==
    \A n \in 0 .. MaxRequests :
        done = n /\ (\E t \in Threads : pc[t] # "idle") ~> done > n \/ phase = "down"
=============================================================================
