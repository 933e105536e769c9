------------------------- MODULE SyncConnectionsProofs -------------------------
(***************************************************************************)
(* Proofs about the synchronous connections, for any number of threads,    *)
(* connections and requests.                                               *)
(***************************************************************************)
EXTENDS SyncConnections, TLAPS

USE SyncAssumption

-----------------------------------------------------------------------------
(* Types.                                                                  *)

\* The process may die in any action; nothing but the phase changes then.
LEMMA DieTypeOK == TypeOK /\ Die => TypeOK'
  BY DEF TypeOK, Die, connectionVars, resultVars, threadVars, counters

\* The initial state is well typed.
LEMMA InitTypeOK == Init => TypeOK
  BY DEF Init, TypeOK, Connections, NoResult, NoRows, Queries, Kinds

\* TryLock keeps the types: the index stays within the connections.
LEMMA TryLockTypeOK ==
    ASSUME TypeOK, NEW t \in Threads, TryLock(t) PROVE TypeOK'
<1>1. CASE count = 0 /\ Die
  BY <1>1, DieTypeOK
<1>2. CASE count > 0 /\ LockSucceeds(index[t]) /\ ~Die
  <2>1. /\ mutex' = [mutex EXCEPT ![index[t]] = t]
        /\ pc' = [pc EXCEPT ![t] = "send"]
        /\ UNCHANGED <<mainVars, index, handle, wire, statement, resultVars, kind, request,
                       rows, counters>>
    BY <1>2 DEF TryLock, Goto
  <2> QED
    BY <2>1 DEF TypeOK, mainVars, resultVars, counters
<1>3. CASE count > 0 /\ ~LockSucceeds(index[t]) /\ ~Die
  <2>1. /\ index' = [index EXCEPT ![t] = NextIndex(index[t])]
        /\ UNCHANGED <<mainVars, mutex, pc, handle, wire, statement, resultVars, kind, request,
                       rows, counters>>
    BY <1>3 DEF TryLock
  <2>2. /\ NextIndex(index[t]) \in Connections
        /\ NextIndex(index[t]) <= count
    BY <1>3 DEF TypeOK, NextIndex, Connections
  <2> QED
    BY <2>1, <2>2 DEF TypeOK, mainVars, resultVars, counters
<1>4. CASE Die
  BY <1>4, DieTypeOK
<1> QED
  BY <1>1, <1>2, <1>3, <1>4 DEF TryLock, TypeOK

\* What Reconnect and Stale make of the statements is well typed.
LEMMA StaleTyped ==
    ASSUME TypeOK, NEW c \in Connections
    PROVE  Stale(c) \in [Connections -> {"none", "fresh", "stale"}]
  BY DEF TypeOK, Stale

LEMMA ReconnectTypeOK ==
    ASSUME TypeOK, NEW t \in Threads, NEW c \in Connections, Reconnect(t, c) PROVE TypeOK'
<1>1. CASE Die
  BY <1>1, DieTypeOK
<1>2. CASE ~Die
  <2>1. /\ handle' \in {[handle EXCEPT ![c] = "open"], [handle EXCEPT ![c] = "null"]}
        /\ statement' = Stale(c)
        /\ pc' = [pc EXCEPT ![t] = "unlock"]
        /\ UNCHANGED <<mainVars, mutex, wire, resultVars, index, kind, request, rows, counters>>
    BY <1>2 DEF Reconnect, Goto
  <2> QED
    BY <2>1, StaleTyped DEF TypeOK, mainVars, resultVars, counters
<1> QED
  BY <1>1, <1>2

LEMMA SendTypeOK ==
    ASSUME TypeOK, NEW t \in Threads, Send(t) PROVE TypeOK'
<1> DEFINE c == index[t]
<1>0. c \in Connections /\ Query(t) \in Queries
  BY DEF TypeOK, Query, Queries
<1>1. CASE Fail(t)
  BY <1>1 DEF Fail, Goto, TypeOK, mainVars, connectionVars, resultVars, counters
<1>2. CASE /\ wire' = [wire EXCEPT ![c] = Query(t)]
           /\ Goto(t, "store")
           /\ UNCHANGED <<mainVars, mutex, handle, statement, resultVars,
                          index, kind, request, rows, counters>>
  BY <1>0, <1>2 DEF Goto, TypeOK, mainVars, resultVars, counters
<1>3. CASE Reconnect(t, c)
  BY <1>0, <1>3, ReconnectTypeOK
<1>4. CASE Die
  BY <1>4, DieTypeOK
<1> QED
  BY <1>1, <1>2, <1>3, <1>4 DEF Send

\* What one thread fetches, or nothing, takes its place among its two results.
LEMMA ResultTyped ==
    ASSUME TypeOK, NEW t \in Threads, NEW c \in Connections, rows' \in Result(t, c)
    PROVE  /\ rows' \in [Threads -> [Kinds -> Queries \cup {NoRows}]]
           /\ \E r \in {wire[c], NoRows} : rows' = [rows EXCEPT ![t][kind[t]] = r]
<1>1. PICK r \in {wire[c], NoRows} : rows' = [rows EXCEPT ![t][kind[t]] = r]
  BY DEF Result
<1>2. /\ r \in Queries \cup {NoRows}
      /\ kind[t] \in Kinds
      /\ rows[t] \in [Kinds -> Queries \cup {NoRows}]
      /\ rows \in [Threads -> [Kinds -> Queries \cup {NoRows}]]
  BY DEF TypeOK
<1>3. [rows[t] EXCEPT ![kind[t]] = r] \in [Kinds -> Queries \cup {NoRows}]
  BY <1>2
<1>4. rows' = [rows EXCEPT ![t] = [rows[t] EXCEPT ![kind[t]] = r]]
  BY <1>1
<1>5. rows' \in [Threads -> [Kinds -> Queries \cup {NoRows}]]
  BY <1>2, <1>3, <1>4
<1> QED
  BY <1>1, <1>5

LEMMA StoreTypeOK ==
    ASSUME TypeOK, NEW t \in Threads, Store(t) PROVE TypeOK'
<1> DEFINE c == index[t]
<1>0. c \in Connections
  BY DEF TypeOK
<1>1. /\ UNCHANGED <<mainVars, mutex, index, kind, request, counters>>
      /\ wire' = [wire EXCEPT ![c] = NoRows]
      /\ pc' = [pc EXCEPT ![t] = "unlock"]
  BY DEF Store, Goto
<1>2. ASSUME rows' \in Result(t, c)
      PROVE  rows' \in [Threads -> [Kinds -> Queries \cup {NoRows}]]
  BY <1>0, <1>2, ResultTyped
<1>3. ASSUME FetchFails(c)
      PROVE  /\ handle' \in [Connections -> {"open", "lost", "null"}]
             /\ statement' \in [Connections -> {"none", "fresh", "stale"}]
  <2>1. /\ Stale(c) \in [Connections -> {"none", "fresh", "stale"}]
        /\ [handle EXCEPT ![c] = "lost"] \in [Connections -> {"open", "lost", "null"}]
    BY <1>0, StaleTyped DEF TypeOK
  <2>2. /\ handle' \in {handle, [handle EXCEPT ![c] = "lost"]}
        /\ statement' \in {statement, Stale(c)}
    BY <1>3 DEF FetchFails
  <2> QED
    BY <2>1, <2>2 DEF TypeOK
<1>4. CASE StoreText(t, c)
  <2>1. UNCHANGED resultVars
    BY <1>4 DEF StoreText
  <2>2. /\ handle' \in [Connections -> {"open", "lost", "null"}]
        /\ statement' \in [Connections -> {"none", "fresh", "stale"}]
        /\ rows' \in [Threads -> [Kinds -> Queries \cup {NoRows}]]
    <3>1. CASE FetchFails(c) /\ UNCHANGED rows
      BY <1>3, <3>1 DEF TypeOK
    <3>2. CASE rows' \in Result(t, c) /\ UNCHANGED <<handle, statement>>
      BY <1>2, <3>2 DEF TypeOK
    <3> QED
      BY <1>4, <3>1, <3>2 DEF StoreText
  <2> QED
    BY <1>0, <1>1, <2>1, <2>2 DEF TypeOK, mainVars, counters, resultVars
<1>5. CASE StorePrepared(t, c)
  <2>1. freedTwice' \in [Connections -> BOOLEAN]
    BY <1>0, <1>5 DEF StorePrepared, TypeOK, Deletes
  <2>2. CASE FetchFails(c)
    <3>1. /\ arrays' \in [Connections -> {"none", "live", "freed"}]
          /\ rows' \in [Threads -> [Kinds -> Queries \cup {NoRows}]]
      <4>1. arrays' \in [Connections -> {"none", "live", "freed"}]
        BY <1>0, <1>5 DEF StorePrepared, TypeOK
      <4>2. rows' \in Result(t, c) \/ rows' = rows
        BY <1>5 DEF StorePrepared
      <4> QED
        BY <1>2, <4>1, <4>2 DEF TypeOK
    <3>2. /\ storeFailed' \in [Connections -> BOOLEAN]
          /\ bound' \in [Connections -> BOOLEAN]
      BY <1>0, <1>5 DEF StorePrepared, TypeOK
    <3>3. /\ handle' \in [Connections -> {"open", "lost", "null"}]
          /\ statement' \in [Connections -> {"none", "fresh", "stale"}]
      BY <1>3, <2>2
    <3> QED
      BY <1>0, <1>1, <2>1, <3>1, <3>2, <3>3 DEF TypeOK, mainVars, counters
  <2>3. CASE ~FetchFails(c)
    <3>1. /\ rows'   \in Result(t, c)
          /\ bound'  = [bound EXCEPT ![c] = TRUE]
          /\ arrays' = [arrays EXCEPT ![c] = "live"]
          /\ UNCHANGED <<handle, statement, storeFailed>>
      BY <1>5, <2>3 DEF StorePrepared
    <3> QED
      BY <1>0, <1>1, <1>2, <2>1, <3>1 DEF TypeOK, mainVars, counters
  <2> QED
    BY <2>2, <2>3
<1> QED
  BY <1>4, <1>5 DEF Store

LEMMA InspectTypeOK ==
    ASSUME TypeOK, NEW t \in Threads, Inspect(t) PROVE TypeOK'
<1>1. CASE Reply(t)
  BY <1>1 DEF Reply, NoResult, Goto, TypeOK, mainVars, connectionVars, resultVars
<1>2. CASE Die
  BY <1>2, DieTypeOK
<1>3. CASE /\ kind'  = [kind EXCEPT ![t] = "text"]
           /\ index' = [index EXCEPT ![t] = 1]
           /\ Goto(t, "seek")
           /\ UNCHANGED <<mainVars, connectionVars, request, rows, counters>>
  BY <1>3 DEF Goto, TypeOK, Connections, Kinds, mainVars, connectionVars, resultVars, counters
<1> QED
  BY <1>1, <1>2, <1>3 DEF Inspect

\* Every action keeps the types.
LEMMA NextTypeOK == TypeOK /\ [Next]_vars => TypeOK'
<1> SUFFICES ASSUME TypeOK, [Next]_vars PROVE TypeOK'
  OBVIOUS
<1>1. CASE PrepareStatements
  BY <1>1 DEF PrepareStatements, threadVars, counters, resultVars, TypeOK, Connections
<1>2. CASE ServerStarts
  BY <1>2 DEF ServerStarts, threadVars, counters, connectionVars, resultVars, TypeOK
<1>3. ASSUME NEW t \in Threads, GetUserInfo(t) PROVE TypeOK'
  BY <1>3 DEF GetUserInfo, Goto, mainVars, connectionVars, resultVars, TypeOK, Connections, Kinds
<1>4. ASSUME NEW t \in Threads, UnLock(t) PROVE TypeOK'
  BY <1>4 DEF UnLock, Released, Goto, mainVars, resultVars, counters, TypeOK
<1>5. CASE UNCHANGED vars
  BY <1>5 DEF vars, mainVars, connectionVars, resultVars, threadVars, counters, TypeOK
<1> QED
  BY <1>1, <1>2, <1>3, <1>4, <1>5, TryLockTypeOK, SendTypeOK, StoreTypeOK, InspectTypeOK
     DEF Next, Call

\* Every reachable state is well typed.
THEOREM TypeCorrect == Spec => []TypeOK
  BY InitTypeOK, NextTypeOK, PTL DEF Spec

-----------------------------------------------------------------------------
(* One user per connection, and every thread's rows its own.               *)

\* A thread between TryLock and UnLock holds the mutex of its connection.
LockHeld == \A t \in Threads : Holds(t) => mutex[index[t]] = t

\* What the server sends on a connection before it is fetched answers the thread
\* that holds the connection.
WireIsMine == \A t \in Threads : pc[t] = "store" => wire[index[t]] = Query(t)

\* An idle thread has no result set, and one that is to query holds none of that
\* kind yet.
Cleared == \A t \in Threads :
               /\ pc[t] = "idle" => \A k \in Kinds : rows[t][k] = NoRows
               /\ pc[t] \in {"seek", "send", "store"} /\ kind[t] = "prepared" =>
                      \A k \in Kinds : rows[t][k] = NoRows

\* RowsAreMine is inductive only with the others: the rows come from the wire, the
\* wire stays a thread's own because nobody else holds the connection, and no rows
\* of an earlier request are left.
Mine == LockHeld /\ WireIsMine /\ Cleared /\ RowsAreMine

\* The lock gives a connection to one thread.
LEMMA LockExcludes == LockHeld => OneUser
  BY DEF LockHeld, OneUser

LEMMA InitMine == Init => Mine
  BY DEF Init, Mine, LockHeld, WireIsMine, Cleared, RowsAreMine, Holds, NoResult

\* An action that changes neither the threads nor mutexes nor wires.
LEMMA OthersMine ==
    ASSUME Mine, UNCHANGED <<mutex, wire, pc, index, kind, request, rows>> PROVE Mine'
  BY DEF Mine, LockHeld, WireIsMine, Cleared, RowsAreMine, Holds, Query

LEMMA DieMine == Mine /\ Die => Mine'
  BY OthersMine DEF Die, connectionVars, threadVars

LEMMA GetUserInfoMine ==
    ASSUME TypeOK, Mine, NEW t \in Threads, GetUserInfo(t) PROVE Mine'
<1>1. /\ pc' = [pc EXCEPT ![t] = "seek"]
      /\ request' = [request EXCEPT ![t] = started + 1]
      /\ kind' = [kind EXCEPT ![t] = "prepared"]
      /\ index' = [index EXCEPT ![t] = 1]
      /\ pc[t] = "idle" /\ rows' = rows
      /\ mutex' = mutex /\ wire' = wire
  BY DEF GetUserInfo, Goto, connectionVars
<1>2. ASSUME NEW u \in Threads \ {t}
      PROVE  /\ pc'[u] = pc[u] /\ index'[u] = index[u] /\ kind'[u] = kind[u]
             /\ request'[u] = request[u]
             /\ Query(u)' = Query(u)
  BY <1>1 DEF TypeOK, Query
<1>3. /\ pc'[t] = "seek" /\ kind'[t] = "prepared"
      /\ \A k \in Kinds : rows'[t][k] = NoRows
  BY <1>1 DEF TypeOK, Mine, Cleared
<1> QED
  BY <1>1, <1>2, <1>3 DEF Mine, LockHeld, WireIsMine, Cleared, RowsAreMine, Holds

LEMMA TryLockMine ==
    ASSUME TypeOK, Mine, NEW t \in Threads, TryLock(t) PROVE Mine'
<1>1. CASE Die
  BY <1>1, DieMine
<1>2. CASE LockSucceeds(index[t]) /\ ~Die
  <2>1. /\ mutex' = [mutex EXCEPT ![index[t]] = t]
        /\ pc' = [pc EXCEPT ![t] = "send"]
        /\ UNCHANGED <<index, wire, kind, request, rows>>
    BY <1>2 DEF TryLock, Goto
  <2>2. mutex[index[t]] = Nobody /\ index[t] \in Connections
    BY <1>2 DEF LockSucceeds, TypeOK
  <2>3. ASSUME NEW u \in Threads, Holds(u)' PROVE mutex'[index'[u]] = u
    BY <2>1, <2>2, <2>3 DEF TypeOK, Mine, LockHeld, Holds
  <2>4. LockHeld' /\ WireIsMine'
    BY <2>1, <2>3 DEF TypeOK, Mine, LockHeld, WireIsMine, Query
  <2>5. pc[t] = "seek"
    BY DEF TryLock
  <2>6. Cleared' /\ RowsAreMine'
    BY <2>1, <2>5 DEF TypeOK, Mine, Cleared, RowsAreMine, Query
  <2> QED
    BY <2>4, <2>6 DEF Mine
<1>3. CASE ~LockSucceeds(index[t]) /\ ~Die
  <2>1. /\ index' = [index EXCEPT ![t] = NextIndex(index[t])]
        /\ pc[t] = "seek"
        /\ UNCHANGED <<mutex, pc, wire, kind, request, rows>>
    BY <1>3 DEF TryLock
  <2> QED
    BY <2>1 DEF TypeOK, Mine, LockHeld, WireIsMine, Cleared, RowsAreMine, Query, Holds
<1> QED
  BY <1>1, <1>2, <1>3

LEMMA SendMine ==
    ASSUME TypeOK, Mine, NEW t \in Threads, Send(t) PROVE Mine'
<1> DEFINE c == index[t]
<1>0. pc[t] = "send" /\ c \in Connections
  BY DEF Send, TypeOK
<1>1. CASE Die
  BY <1>1, DieMine
<1>2. CASE /\ pc' = [pc EXCEPT ![t] = "unlock"]
           /\ UNCHANGED <<mutex, wire, index, kind, request, rows>>
  BY <1>0, <1>2 DEF TypeOK, Mine, LockHeld, WireIsMine, Cleared, RowsAreMine, Holds, Query
<1>3. CASE /\ wire' = [wire EXCEPT ![c] = Query(t)]
           /\ pc' = [pc EXCEPT ![t] = "store"]
           /\ UNCHANGED <<mutex, index, kind, request, rows>>
  <2>1. LockHeld' /\ Cleared' /\ RowsAreMine'
    BY <1>0, <1>3 DEF TypeOK, Mine, LockHeld, Cleared, RowsAreMine, Holds, Query
  <2>2. ASSUME NEW u \in Threads, pc'[u] = "store" PROVE wire'[index'[u]] = Query(u)'
    <3>1. CASE u = t
      BY <1>0, <1>3, <3>1 DEF TypeOK, Query
    <3>2. CASE u # t
      <4>1. pc[u] = "store" /\ index[u] # c
        BY <1>0, <1>3, <2>2, <3>2 DEF TypeOK, Mine, LockHeld, Holds
      <4> QED
        BY <1>3, <4>1 DEF TypeOK, Mine, WireIsMine, Query
    <3> QED
      BY <3>1, <3>2
  <2> QED
    BY <2>1, <2>2 DEF Mine, WireIsMine
<1> QED
  BY <1>1, <1>2, <1>3 DEF Send, Fail, Reconnect, Goto, connectionVars

LEMMA StoreMine ==
    ASSUME TypeOK, Mine, NEW t \in Threads, Store(t) PROVE Mine'
<1> DEFINE c == index[t]
<1>1. /\ pc[t] = "store" /\ c \in Connections
      /\ wire' = [wire EXCEPT ![c] = NoRows]
      /\ pc' = [pc EXCEPT ![t] = "unlock"]
      /\ UNCHANGED <<mutex, index, kind, request>>
  BY DEF Store, Goto, TypeOK
<1>2. rows' \in {rows} \cup Result(t, c)
  BY DEF Store, StoreText, StorePrepared
<1>3. LockHeld'
  BY <1>1 DEF TypeOK, Mine, LockHeld, Holds
<1>4. WireIsMine'
  BY <1>1 DEF TypeOK, Mine, WireIsMine, LockHeld, Holds, Query
<1>5. wire[c] = Query(t)
  BY <1>1 DEF Mine, WireIsMine
<1>6. ASSUME NEW u \in Threads, rows'[u] # rows[u]
      PROVE  /\ u = t /\ pc'[u] = "unlock"
             /\ \A k \in Kinds : rows'[u][k] \in {rows[u][k], NoRows, Query(u)}
             /\ kind[u] = "text" => rows'[u]["prepared"] = rows[u]["prepared"]
             /\ \A k \in Kinds : rows'[u][k] = Query(u) => k = kind[u] \/ rows'[u][k] = rows[u][k]
    <2>1. CASE rows' = rows
    BY <1>6, <2>1
  <2>2. CASE rows' \in Result(t, c)
    <3>1. PICK r \in {Query(t), NoRows} : rows' = [rows EXCEPT ![t][kind[t]] = r]
      BY <1>1, <1>5, <2>2, ResultTyped
    <3>2. u = t
      BY <1>6, <3>1 DEF TypeOK
    <3>3. /\ rows'[t] = [rows[t] EXCEPT ![kind[t]] = r]
          /\ rows[t] \in [Kinds -> Queries \cup {NoRows}]
      BY <3>1 DEF TypeOK
    <3>4. \A k \in Kinds : rows'[t][k] = IF k = kind[t] THEN r ELSE rows[t][k]
      BY <3>3
    <3> QED
      BY <1>1, <3>2, <3>4 DEF TypeOK, Kinds
  <2> QED
    BY <1>2, <2>1, <2>2
<1>7. Cleared' /\ RowsAreMine'
  BY <1>1, <1>6 DEF Kinds, TypeOK, Mine, Cleared, RowsAreMine, Query
<1> QED
  BY <1>3, <1>4, <1>7 DEF Mine

LEMMA UnLockMine ==
    ASSUME TypeOK, Mine, NEW t \in Threads, UnLock(t) PROVE Mine'
<1>1. /\ pc[t] = "unlock"
      /\ mutex' = [mutex EXCEPT ![index[t]] = Nobody]
      /\ pc' = [pc EXCEPT ![t] = "inspect"]
      /\ UNCHANGED <<wire, index, kind, request, rows>>
  BY DEF UnLock, Released, Goto
<1>2. WireIsMine' /\ Cleared' /\ RowsAreMine'
  BY <1>1 DEF TypeOK, Mine, WireIsMine, Cleared, RowsAreMine, Query
<1>3. ASSUME NEW u \in Threads, Holds(u)' PROVE mutex'[index'[u]] = u
  <2>1. u # t /\ Holds(u)
    BY <1>1, <1>3 DEF TypeOK, Holds
  <2>2. mutex[index[t]] = t /\ mutex[index[u]] = u
    BY <1>1, <2>1 DEF Mine, LockHeld, Holds
  <2> QED
    BY <1>1, <2>1, <2>2 DEF TypeOK
<1> QED
  BY <1>2, <1>3 DEF Mine, LockHeld

LEMMA InspectMine ==
    ASSUME TypeOK, Mine, NEW t \in Threads, Inspect(t) PROVE Mine'
<1>1. CASE Die
  BY <1>1, DieMine
<1>2. CASE Reply(t)
  <2>1. /\ pc' = [pc EXCEPT ![t] = "idle"]
        /\ rows' = [rows EXCEPT ![t] = NoResult]
        /\ UNCHANGED <<mutex, wire, index, kind, request>>
    BY <1>2 DEF Reply, Goto, connectionVars
  <2>2. ASSUME NEW u \in Threads \ {t} PROVE pc'[u] = pc[u] /\ rows'[u] = rows[u]
    BY <2>1 DEF TypeOK
  <2>3. pc'[t] = "idle" /\ \A k \in Kinds : rows'[t][k] = NoRows
    BY <2>1 DEF TypeOK, NoResult
  <2>4. LockHeld' /\ WireIsMine'
    BY <2>1, <2>2, <2>3 DEF Mine, LockHeld, WireIsMine, Holds, Query
  <2>5. Cleared' /\ RowsAreMine'
    BY <2>1, <2>2, <2>3 DEF Mine, Cleared, RowsAreMine, Query
  <2> QED
    BY <2>4, <2>5 DEF Mine
<1>3. CASE /\ kind'  = [kind EXCEPT ![t] = "text"]
           /\ index' = [index EXCEPT ![t] = 1]
           /\ pc'    = [pc EXCEPT ![t] = "seek"]
           /\ pc[t] = "inspect" /\ kind[t] = "prepared" /\ rows[t][kind[t]] # NoRows
           /\ UNCHANGED <<mutex, wire, request, rows>>
  <2>1. ASSUME NEW u \in Threads \ {t}
        PROVE  /\ pc'[u] = pc[u] /\ index'[u] = index[u] /\ kind'[u] = kind[u]
               /\ Query(u)' = Query(u)
    BY <1>3 DEF TypeOK, Query
  <2>2. /\ pc'[t] = "seek" /\ kind'[t] = "text"
        /\ rows[t]["prepared"] = <<request[t], "prepared">>
    BY <1>3 DEF Kinds, TypeOK, Mine, RowsAreMine
  <2> QED
    BY <1>3, <2>1, <2>2 DEF Mine, LockHeld, WireIsMine, Cleared, RowsAreMine, Holds
<1> QED
  BY <1>1, <1>2, <1>3 DEF Inspect, Goto, connectionVars

LEMMA NextMine == TypeOK /\ Mine /\ [Next]_vars => Mine'
<1> SUFFICES ASSUME TypeOK, Mine, [Next]_vars PROVE Mine'
  OBVIOUS
<1>1. CASE PrepareStatements
  BY <1>1, OthersMine DEF PrepareStatements, threadVars
<1>2. CASE ServerStarts
  BY <1>2, OthersMine DEF ServerStarts, threadVars, connectionVars
<1>3. CASE UNCHANGED vars
  BY <1>3, OthersMine DEF vars, threadVars, connectionVars
<1> QED
  BY <1>1, <1>2, <1>3, GetUserInfoMine, TryLockMine, SendMine, StoreMine, UnLockMine, InspectMine
     DEF Next, Call

\* However many threads and connections there are, no two threads use the same
\* connection.
THEOREM OneUserPerConnection == Spec => []OneUser
<1>1. Spec => []Mine
  BY TypeCorrect, InitMine, NextMine, PTL DEF Spec
<1>2. Mine => OneUser
  BY LockExcludes DEF Mine
<1> QED
  BY <1>1, <1>2, PTL

\* A thread reads the rows of its own query, though it reads them unlocked.
THEOREM RowsOfOwnQuery == Spec => []RowsAreMine
<1>1. Spec => []Mine
  BY TypeCorrect, InitMine, NextMine, PTL DEF Spec
<1>2. Mine => RowsAreMine
  BY DEF Mine
<1> QED
  BY <1>1, <1>2, PTL

-----------------------------------------------------------------------------
(* The arrays a statement is bound to.                                     *)

\* Until storing a result fails, bind_result_done tells the truth: the arrays are
\* there, and none has been deleted twice.
Truthful(c) == storeFailed[c] \/ (~freedTwice[c] /\ (bound[c] => arrays[c] = "live"))
Arrays      == \A c \in Connections : Truthful(c)

LEMMA InitArrays == Init => Arrays
  BY DEF Init, Arrays, Truthful

LEMMA OthersArrays == Arrays /\ UNCHANGED resultVars => Arrays'
  BY DEF Arrays, Truthful, resultVars

LEMMA StoreArrays ==
    ASSUME TypeOK, Arrays, NEW t \in Threads, Store(t) PROVE Arrays'
<1>0. PICK c \in Connections : c = index[t]
  BY DEF TypeOK
<1>1. CASE StoreText(t, c)
  BY <1>1, OthersArrays DEF StoreText
<1>2. CASE StorePrepared(t, c)
  <2> DEFINE Stored == /\ bound'  = [bound EXCEPT ![c] = TRUE]
                       /\ arrays' = [arrays EXCEPT ![c] = "live"]
                       /\ UNCHANGED storeFailed
             Failed == /\ arrays' = [arrays EXCEPT ![c] = IF Deletes(c) THEN "freed" ELSE @]
                       /\ storeFailed' = [storeFailed EXCEPT ![c] = TRUE]
                       /\ UNCHANGED bound
  <2>0. /\ freedTwice' = [freedTwice EXCEPT ![c] = @ \/ (Deletes(c) /\ arrays[c] # "live")]
        /\ Stored \/ Failed
    BY <1>2 DEF StorePrepared
  <2>1. ASSUME NEW d \in Connections \ {c} PROVE Truthful(d)'
    <3>1. /\ freedTwice'[d] = freedTwice[d] /\ storeFailed'[d] = storeFailed[d]
          /\ bound'[d] = bound[d] /\ arrays'[d] = arrays[d]
      BY <1>0, <2>0 DEF TypeOK
    <3> QED
      BY <3>1 DEF Arrays, Truthful
  <2>2. Truthful(c)'
    <3>1. CASE storeFailed'[c]
      BY <3>1 DEF Truthful
    <3>2. CASE ~storeFailed'[c]
      <4>1. /\ ~storeFailed[c]
            /\ bound'[c] /\ arrays'[c] = "live"
        BY <1>0, <2>0, <3>2 DEF TypeOK
      <4>2. ~freedTwice[c] /\ (bound[c] => arrays[c] = "live")
        BY <1>0, <4>1 DEF Arrays, Truthful
      <4>3. freedTwice'[c] = (freedTwice[c] \/ (Deletes(c) /\ arrays[c] # "live"))
        BY <1>0, <2>0 DEF TypeOK
      <4> QED
        BY <4>1, <4>2, <4>3 DEF Truthful, Deletes
    <3> QED
      BY <3>1, <3>2
  <2> QED
    BY <2>1, <2>2 DEF Arrays
<1> QED
  BY <1>0, <1>1, <1>2 DEF Store

LEMMA NextArrays == TypeOK /\ Arrays /\ [Next]_vars => Arrays'
<1> SUFFICES ASSUME TypeOK, Arrays, [Next]_vars PROVE Arrays'
  OBVIOUS
<1>1. ASSUME NEW t \in Threads, TryLock(t) \/ Send(t) \/ UnLock(t) \/ Inspect(t)
      PROVE  UNCHANGED resultVars
  BY <1>1 DEF TryLock, Send, Fail, Reconnect, UnLock, Inspect, Reply, Die, connectionVars
<1>2. ASSUME NEW t \in Threads, GetUserInfo(t) PROVE UNCHANGED resultVars
  BY <1>2 DEF GetUserInfo, connectionVars
<1>3. CASE PrepareStatements \/ ServerStarts \/ UNCHANGED vars
  BY <1>3, OthersArrays DEF PrepareStatements, ServerStarts, vars, connectionVars
<1> QED
  BY <1>1, <1>2, <1>3, OthersArrays, StoreArrays DEF Next, Call

\* Whatever is lost or refused, an array is deleted twice only on a connection on
\* which storing a result has failed before.
THEOREM FreedTwiceOnlyAfterFailure == Spec => []OnlyFailedStoreFreesTwice
<1>1. Spec => []Arrays
  BY TypeCorrect, InitArrays, NextArrays, PTL DEF Spec
<1>2. Arrays => OnlyFailedStoreFreesTwice
  BY DEF Arrays, Truthful, OnlyFailedStoreFreesTwice
<1> QED
  BY <1>1, <1>2, PTL

=============================================================================
