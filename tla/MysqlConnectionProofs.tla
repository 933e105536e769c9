------------------------ MODULE MysqlConnectionProofs ------------------------
(***************************************************************************)
(* Proofs about MysqlConnection, for every number of transactions,         *)
(* statements and attempts: what a transaction leaves on the server while  *)
(* HandleMysqlErrcode replaces lost sessions under it and the server may   *)
(* refuse every one of its commands.                                       *)
(***************************************************************************)
EXTENDS MysqlConnection, TLAPS

Commands     == {"begin", "statement", "rollback", "commit"}
ServerStates == [inTransaction : BOOLEAN, staged : SUBSET Effects, durable : [Effects -> 0 .. 2]]

\* The session is outside a transaction.
Clean == ~server.inTransaction /\ server.staged = {}

\* A null handle has no session, and its error is none of a statement.
NullIsClean == handle = "null" => Clean /\ errno \in {Ok, Lost}

\* Only a transaction stages.
EmptyOutside == ~server.inTransaction => server.staged = {}

-----------------------------------------------------------------------------
(* Execute, command by command.  A command leaves the server as it is,     *)
(* settles what is staged, stages the statement or commits it at once.     *)

Settles == /\ server'.staged = {}
           /\ server'.durable \in {server.durable, MakeDurable(server.staged)}

Stages  == /\ server.inTransaction /\ server'.inTransaction
           /\ server'.staged  = server.staged \cup {Effect}
           /\ server'.durable = server.durable

Commits == /\ Clean /\ Clean'
           /\ server'.durable = MakeDurable({Effect})

Moves == server' = server \/ Settles \/ Stages \/ Commits

\* Effects that become durable are counted once more, the others are not.
LEMMA MakeDurableType ==
  ASSUME TypeOK, NEW effects
  PROVE  MakeDurable(effects) \in [Effects -> 0 .. 2]
BY DEF MakeDurable, TypeOK

\* What the server's answer is, whatever the command: only an open handle gives
\* true or is tried again, and it is tried again with a null handle.
LEMMA Outcome ==
  ASSUME TypeOK, NullIsClean, NEW command \in Commands, NEW returned \in Returns,
         Execute(command, returned)
  PROVE  /\ returned = "true" => /\ handle = "open" /\ handle' = "open"
                                 /\ server' = Run(command) /\ errno' = Ok
         /\ returned = "again" => /\ handle = "open" /\ handle' = "null"
                                  /\ server' \in {RolledBack(server), RolledBack(Run(command))}
                                  /\ errno' \in {Ok, Lost}
         /\ returned = "false" =>
                \/ handle = "null" /\ UNCHANGED connVars
                \/ /\ handle = "open" /\ handle' = "open"
                   /\ \/ errno' = Refused /\ server' = server
                      \/ command # "rollback" /\ errno' = Deadlock /\ server' = RolledBack(server)
                \/ /\ handle = "open" /\ handle' \in {"open", "null"}
                   /\ server' \in {RolledBack(server), RolledBack(Run(command))}
                   /\ errno' \in {Ok, Lost}
BY DEF Execute, Refuse, Reconnect, Reopened, ReportsHandled, Ok, Lost, Refused, Deadlock, Returns

\* The fields of a session after the server has rolled it back.
LEMMA RolledBackFields ==
  ASSUME NEW s \in ServerStates
  PROVE  /\ RolledBack(s) \in ServerStates
         /\ RolledBack(s).inTransaction = FALSE
         /\ RolledBack(s).staged = {}
         /\ RolledBack(s).durable = s.durable
BY DEF RolledBack, ServerStates

\* The fields of a session after the server has run a command.
LEMMA RunFields ==
  ASSUME TypeOK, current \in Transactions, NEW command \in Commands
  PROVE  /\ Run(command) \in ServerStates
         /\ command = "begin" =>
                /\ Run(command).inTransaction = TRUE /\ Run(command).staged = {}
                /\ Run(command).durable = MakeDurable(server.staged)
         /\ command = "commit" =>
                /\ Run(command).inTransaction = FALSE /\ Run(command).staged = {}
                /\ Run(command).durable = MakeDurable(server.staged)
         /\ command = "rollback" =>
                /\ Run(command).inTransaction = FALSE /\ Run(command).staged = {}
                /\ Run(command).durable = server.durable
         /\ command = "statement" /\ server.inTransaction =>
                /\ Run(command).inTransaction = TRUE
                /\ Run(command).staged = server.staged \cup {Effect}
                /\ Run(command).durable = server.durable
         /\ command = "statement" /\ ~server.inTransaction =>
                /\ Run(command).inTransaction = FALSE
                /\ Run(command).staged = server.staged
                /\ Run(command).durable = MakeDurable({Effect})
<1>1. server \in ServerStates /\ Effect \in Effects
  BY DEF TypeOK, ServerStates, Effect, Effects
<1>2. MakeDurable(server.staged) \in [Effects -> 0 .. 2] /\ MakeDurable({Effect}) \in [Effects -> 0 .. 2]
  BY MakeDurableType
<1>3. CASE command = "begin"
  BY <1>2, <1>3 DEF Run, ServerStates
<1>4. CASE command = "commit"
  BY <1>2, <1>4 DEF Run, ServerStates
<1>5. CASE command = "rollback"
  BY <1>1, <1>5 DEF Run, ServerStates
<1>6. CASE command = "statement" /\ server.inTransaction
  BY <1>1, <1>6 DEF Run, ServerStates
<1>7. CASE command = "statement" /\ ~server.inTransaction
  BY <1>1, <1>2, <1>7 DEF Run, ServerStates
<1> QED BY <1>3, <1>4, <1>5, <1>6, <1>7 DEF Commands

\* Execute keeps the connection well typed and a null handle without a session.
LEMMA ExecuteType ==
  ASSUME TypeOK, NullIsClean, current \in Transactions,
         NEW command \in Commands, NEW returned \in Returns, Execute(command, returned)
  PROVE  /\ server' \in ServerStates
         /\ handle' \in {"open", "null"}
         /\ errno' \in Errnos
         /\ NullIsClean'
<1>1. server \in ServerStates
  BY DEF TypeOK, ServerStates
<1>2. Run(command) \in ServerStates
  BY RunFields
<1>3. server' \in {server, Run(command), RolledBack(server), RolledBack(Run(command))}
  BY Outcome DEF connVars, Returns
<1>4. server' \in ServerStates
  BY <1>1, <1>2, <1>3, RolledBackFields
<1>5. handle' \in {"open", "null"} /\ errno' \in Errnos
  BY Outcome DEF connVars, Returns, Errnos, TypeOK
<1>6. NullIsClean'
  <2> SUFFICES ASSUME handle' = "null" PROVE Clean' /\ errno' \in {Ok, Lost}
    BY DEF NullIsClean
  <2>1. \/ handle = "null" /\ UNCHANGED connVars
        \/ /\ server' \in {RolledBack(server), RolledBack(Run(command))}
           /\ errno' \in {Ok, Lost}
    BY Outcome DEF Returns
  <2> QED BY <1>1, <1>2, <2>1, RolledBackFields DEF NullIsClean, Clean, connVars
<1> QED BY <1>4, <1>5, <1>6

\* START TRANSACTION, COMMIT and ROLLBACK settle what is staged or do nothing.
LEMMA ExecuteSettles ==
  ASSUME TypeOK, NullIsClean, current \in Transactions,
         NEW command \in {"begin", "commit", "rollback"},
         NEW returned \in Returns, Execute(command, returned)
  PROVE  /\ server' = server \/ (Settles /\ (command = "rollback" => server'.durable = server.durable))
         /\ returned = "true" => server' = Run(command) /\ handle' = "open"
         /\ returned = "again" => handle' = "null"
         /\ command # "begin" /\ server'.inTransaction => errno' = Refused /\ returned = "false"
         /\ command = "rollback" => errno' # Deadlock
<1>1. server \in ServerStates /\ command \in Commands
  BY DEF TypeOK, ServerStates, Commands
<1>2. /\ Run(command) \in ServerStates
      /\ Run(command).staged = {}
      /\ Run(command).inTransaction => command = "begin"
      /\ Run(command).durable \in {server.durable, MakeDurable(server.staged)}
      /\ command = "rollback" => Run(command).durable = server.durable
  BY <1>1, RunFields
<1>3. \/ server' = server /\ returned = "false" /\ (handle = "null" \/ errno' = Refused)
      \/ server' \in {Run(command), RolledBack(server), RolledBack(Run(command))}
  BY <1>1, Outcome DEF Returns, connVars
<1>4. /\ returned = "true" => server' = Run(command) /\ handle' = "open"
      /\ returned = "again" => handle' = "null"
      /\ handle = "null" => UNCHANGED connVars
  BY <1>1, Outcome DEF Returns
<1>5. command = "rollback" => errno' # Deadlock
  BY <1>1, Outcome DEF Returns, NullIsClean, connVars, Ok, Lost, Refused, Deadlock
<1>6. server' # server => Settles /\ (command = "rollback" => server'.durable = server.durable)
  BY <1>1, <1>2, <1>3, RolledBackFields DEF Settles
<1>7. command # "begin" /\ server'.inTransaction => errno' = Refused /\ returned = "false"
  BY <1>1, <1>2, <1>3, RolledBackFields DEF NullIsClean, Clean
<1> QED BY <1>4, <1>5, <1>6, <1>7

\* A statement is staged inside a transaction and commits at once outside, or is
\* lost with everything staged, or does nothing.
LEMMA ExecuteStatementMoves ==
  ASSUME TypeOK, NullIsClean, EmptyOutside, current \in Transactions,
         NEW returned \in Returns, Execute("statement", returned)
  PROVE  /\ \/ server' = server
            \/ server'.staged = {} /\ server'.durable = server.durable
            \/ Stages
            \/ Commits /\ handle = "open"
         /\ returned = "true" => /\ handle = "open" /\ handle' = "open"
                                 /\ Stages \/ Commits
         /\ returned = "again" => handle = "open" /\ handle' = "null"
<1>1. server \in ServerStates /\ "statement" \in Commands
  BY DEF TypeOK, ServerStates, Commands
<1>2. /\ Run("statement") \in ServerStates
      /\ server.inTransaction => /\ Run("statement").inTransaction = TRUE
                                 /\ Run("statement").staged = server.staged \cup {Effect}
                                 /\ Run("statement").durable = server.durable
      /\ ~server.inTransaction => /\ Run("statement").inTransaction = FALSE
                                  /\ Run("statement").staged = server.staged
                                  /\ Run("statement").durable = MakeDurable({Effect})
  BY <1>1, RunFields
<1>3. /\ \/ server' = server
         \/ handle = "open" /\ server' \in {Run("statement"), RolledBack(server),
                                            RolledBack(Run("statement"))}
      /\ returned = "true" => handle = "open" /\ handle' = "open" /\ server' = Run("statement")
      /\ returned = "again" => handle = "open" /\ handle' = "null"
  BY <1>1, Outcome DEF Returns, connVars
<1>4. server' = Run("statement") => Stages \/ Commits
  BY <1>2 DEF Stages, Commits, Clean, EmptyOutside
<1>5. server' = RolledBack(server) => server'.staged = {} /\ server'.durable = server.durable
  BY <1>1, RolledBackFields
<1>6. server' = RolledBack(Run("statement")) =>
          Commits \/ (server'.staged = {} /\ server'.durable = server.durable)
  BY <1>2, RolledBackFields DEF Commits, Clean, EmptyOutside
<1> QED BY <1>3, <1>4, <1>5, <1>6

-----------------------------------------------------------------------------
(* The inductive invariant: what the session stages, and what is durable,  *)
(* of the present transaction at each step of ExecuteTransaction, and of   *)
(* the earlier ones, whose effects may still be staged.                    *)

\* Nothing of transaction t is durable; nothing of it is anywhere.
Untouched(t) == \A k \in 1 .. MaxStatements : server.durable[<<t, k>>] = 0
Fresh(t)     == \A k \in 1 .. MaxStatements : /\ server.durable[<<t, k>>] = 0
                                              /\ <<t, k>> \notin server.staged

\* Whatever becomes of what is staged, t becomes durable as a whole or stays as
\* it is.
WholeAt(t) == \/ \A k \in 1 .. size[t] : <<t, k>> \notin server.staged
              \/ Untouched(t) /\ \A k \in 1 .. size[t] : <<t, k>> \in server.staged

AtomicAt(t) == Durable(t) \in {{}, 1 .. size[t]}

Ended(t) == t # current \/ step \in {"idle", "begin", "aborted"}

Settled == \A t \in Transactions : began[t] /\ ~RollbackRefused(t) /\ Ended(t) => WholeAt(t)

StagedIsNew == \A e \in server.staged : server.durable[e] = 0

\* A task is tried once: the error GetLastError reads is never a deadlock.
Busy == step # "idle" => /\ current \in Transactions
                         /\ attempts[current] = 1
                         /\ size[current] >= 1
                         /\ step # "begin" => at <= size[current]

Future == \A t \in Transactions : t > current => ~began[t] /\ Fresh(t)

InBegin == step = "begin" => ~began[current] /\ Fresh(current)

InStatement ==
    step = "statement" /\ handle = "open" =>
        IF began[current]
        THEN /\ server.inTransaction
             /\ server.staged = {current} \X (1 .. (at - 1))
             /\ Untouched(current)
        ELSE \A k \in 1 .. MaxStatements :
                 k >= at => /\ server.durable[<<current, k>>] = 0
                            /\ <<current, k>> \notin server.staged

InCommit == step = "commit" /\ began[current] => WholeAt(current)

InRollback == step = "rollback" => failed[current]

Inv == /\ TypeOK
       /\ NullIsClean
       /\ EmptyOutside
       /\ StagedIsNew
       /\ Busy
       /\ Future
       /\ Settled
       /\ InBegin
       /\ InStatement
       /\ InCommit
       /\ InRollback
       /\ AtomicOnceBegun
       /\ NoDuplicateEffect
       /\ NoTransactionLeaks

LEMMA InvInit == Init => Inv
<1> SUFFICES ASSUME Init PROVE Inv
  OBVIOUS
<1>1. TypeOK
  BY BoundsAssumption DEF Init, TypeOK, Steps, Errnos
<1>2. /\ Clean /\ handle = "open" /\ step = "idle"
      /\ \A t \in Transactions : ~began[t] /\ Fresh(t)
      /\ NoDuplicateEffect
  BY DEF Init, Clean, Fresh, NoDuplicateEffect, Effects
<1> QED BY <1>1, <1>2
        DEF Inv, NullIsClean, EmptyOutside, Clean, StagedIsNew, Busy, Future, Settled, InBegin,
            InStatement, InCommit, InRollback, AtomicOnceBegun, NoTransactionLeaks,
            OpenIsUnfinished, BegunIsAlone

-----------------------------------------------------------------------------
(* What a step of the present transaction does to the others.              *)

\* What is staged is settled, or the effects of t are where they were: t stays
\* atomic.
LEMMA WholeStep ==
  ASSUME TypeOK, NEW t \in Transactions, size'[t] = size[t], WholeAt(t), AtomicAt(t),
         \/ Settles
         \/ \A k \in 1 .. MaxStatements :
                /\ <<t, k>> \in server'.staged <=> <<t, k>> \in server.staged
                /\ server'.durable[<<t, k>>] = server.durable[<<t, k>>]
  PROVE  WholeAt(t)' /\ AtomicAt(t)'
<1>1. /\ size[t] \in 0 .. MaxStatements
      /\ \A k \in 1 .. size[t] : k \in 1 .. MaxStatements
      /\ \A k \in 1 .. MaxStatements : <<t, k>> \in Effects
  BY BoundsAssumption DEF TypeOK, Effects
<1>2. CASE ~Settles
  <2>1. Durable(t)' = Durable(t)
    BY <1>1, <1>2 DEF Durable
  <2>2. WholeAt(t)'
    BY <1>1, <1>2 DEF WholeAt, Untouched
  <2> QED BY <2>1, <2>2 DEF AtomicAt
<1>3. CASE Settles
  <2>1. WholeAt(t)'
    BY <1>3 DEF WholeAt, Settles
  <2>2. CASE server'.durable = server.durable
    <3>1. Durable(t)' = Durable(t)
      BY <2>2 DEF Durable
    <3> QED BY <2>1, <3>1 DEF AtomicAt
  <2>3. CASE server'.durable = MakeDurable(server.staged)
    <3>1. CASE \A k \in 1 .. size[t] : <<t, k>> \notin server.staged
      <4>1. \A k \in 1 .. size[t] : server'.durable[<<t, k>>] = server.durable[<<t, k>>]
        BY <1>1, <2>3, <3>1 DEF MakeDurable
      <4>2. Durable(t)' = Durable(t)
        BY <4>1 DEF Durable
      <4> QED BY <2>1, <4>2 DEF AtomicAt
    <3>2. CASE Untouched(t) /\ \A k \in 1 .. size[t] : <<t, k>> \in server.staged
      <4>1. \A k \in 1 .. size[t] : server'.durable[<<t, k>>] = 1
        BY <1>1, <2>3, <3>2 DEF MakeDurable, Untouched
      <4>2. Durable(t)' = 1 .. size[t]
        BY <4>1 DEF Durable
      <4> QED BY <2>1, <4>2 DEF AtomicAt
    <3> QED BY <3>1, <3>2 DEF WholeAt
  <2> QED BY <1>3, <2>2, <2>3 DEF Settles
<1> QED BY <1>2, <1>3

\* Settling leaves a fresh transaction fresh.
LEMMA FreshSettles ==
  ASSUME TypeOK, NEW t \in Transactions, Fresh(t), server' = server \/ Settles
  PROVE  Fresh(t)'
<1>1. \A k \in 1 .. MaxStatements : <<t, k>> \in Effects
  BY DEF Effects
<1> QED BY <1>1 DEF Fresh, Settles, MakeDurable

\* Staging or committing a statement of the present transaction is nothing to
\* another one.
LEMMA OtherEffects ==
  ASSUME TypeOK, Stages \/ Commits, NEW t \in Transactions, t # current
  PROVE  \A k \in 1 .. MaxStatements :
             /\ <<t, k>> \in server'.staged <=> <<t, k>> \in server.staged
             /\ server'.durable[<<t, k>>] = server.durable[<<t, k>>]
<1>1. \A k \in 1 .. MaxStatements : <<t, k>> \in Effects /\ <<t, k>> # Effect
  BY DEF Effects, Effect
<1> QED BY <1>1 DEF Stages, Commits, Clean, MakeDurable

\* Nothing becomes durable that was.
LEMMA NoneTwice ==
  ASSUME TypeOK, EmptyOutside, StagedIsNew, NoDuplicateEffect, Moves, TypeOK',
         server' # server /\ ~Settles => Effect \in Effects /\ server.durable[Effect] = 0
  PROVE  StagedIsNew' /\ NoDuplicateEffect'
<1>1. \A e \in Effects : server.durable[e] \in 0 .. 1
  BY DEF NoDuplicateEffect, TypeOK
<1>2. \A e \in server.staged : e \in Effects
  BY DEF TypeOK
<1>3. CASE server' = server
  BY <1>3 DEF StagedIsNew, NoDuplicateEffect
<1>4. CASE Settles
  BY <1>1, <1>2, <1>4 DEF Settles, MakeDurable, StagedIsNew, NoDuplicateEffect
<1>5. CASE Stages /\ ~Settles /\ server' # server
  BY <1>5 DEF Stages, StagedIsNew, NoDuplicateEffect
<1>6. CASE Commits /\ ~Settles /\ server' # server
  BY <1>1, <1>6 DEF Commits, Clean, MakeDurable, StagedIsNew, NoDuplicateEffect
<1> QED BY <1>3, <1>4, <1>5, <1>6 DEF Moves

\* What the steps of the present transaction have in common.
LEMMA CurrentStep ==
  ASSUME Inv, TypeOK', current \in Transactions, UNCHANGED <<current, size>>, Moves,
         server' # server /\ ~Settles => Effect \in Effects /\ server.durable[Effect] = 0,
         \A t \in Transactions : t # current =>
             /\ began'[t] = began[t]
             /\ failed'[t] = failed[t]
             /\ t \in unfinished' <=> t \in unfinished,
         began'[current] /\ ~RollbackRefused(current)' => AtomicAt(current)',
         began'[current] /\ ~RollbackRefused(current)' /\ Ended(current)' => WholeAt(current)'
  PROVE  /\ StagedIsNew' /\ NoDuplicateEffect'
         /\ Future' /\ Settled' /\ AtomicOnceBegun'
<1>1. StagedIsNew' /\ NoDuplicateEffect'
  BY NoneTwice DEF Inv
<1>2. ASSUME NEW t \in Transactions, t # current
      PROVE  Fresh(t) => Fresh(t)'
  <2>1. CASE server' = server \/ Settles
    BY <2>1, FreshSettles DEF Inv
  <2>2. CASE Stages \/ Commits
    BY <1>2, <2>2, OtherEffects DEF Inv, Fresh
  <2> QED BY <2>1, <2>2 DEF Moves
<1>3. Future'
  <2> SUFFICES ASSUME NEW t \in Transactions, t > current'
               PROVE  ~began'[t] /\ Fresh(t)'
    BY DEF Future
  <2>1. t # current /\ t > current
    BY DEF Inv, TypeOK, Transactions
  <2> QED BY <1>2, <2>1 DEF Inv, Future
<1>4. ASSUME NEW t \in Transactions, t # current, began[t], ~RollbackRefused(t)
      PROVE  WholeAt(t)' /\ AtomicAt(t)'
  <2>1. WholeAt(t) /\ AtomicAt(t) /\ size'[t] = size[t]
    BY <1>4 DEF Inv, Settled, Ended, AtomicOnceBegun, AtomicAt
  <2>2. \/ Settles
        \/ \A k \in 1 .. MaxStatements :
               /\ <<t, k>> \in server'.staged <=> <<t, k>> \in server.staged
               /\ server'.durable[<<t, k>>] = server.durable[<<t, k>>]
    BY <1>4, OtherEffects DEF Inv, Moves
  <2> QED BY <2>1, <2>2, WholeStep DEF Inv
<1>5. \A t \in Transactions :
          t # current => /\ began'[t] <=> began[t]
                         /\ RollbackRefused(t)' <=> RollbackRefused(t)
  BY DEF RollbackRefused
<1>6. Settled'
  BY <1>4, <1>5 DEF Settled
<1>7. AtomicOnceBegun'
  BY <1>4, <1>5 DEF AtomicOnceBegun, AtomicAt
<1> QED BY <1>1, <1>3, <1>6, <1>7

-----------------------------------------------------------------------------
(* The steps, one by one.                                                  *)

LEMMA StartTaskInv == Inv /\ StartTask => Inv'
<1> SUFFICES ASSUME Inv, StartTask PROVE Inv'
  OBVIOUS
<1> DEFINE c == current + 1
<1>1. /\ c \in Transactions /\ current' = c /\ step = "idle"
      /\ server' = server /\ handle' = handle /\ errno' = errno
      /\ began' = began /\ at' = at /\ failed' = failed /\ unfinished' = unfinished
  BY BoundsAssumption DEF StartTask, connVars, Inv, TypeOK, Transactions
<1>2. PICK n \in 0 .. MaxStatements :
          /\ size' = [size EXCEPT ![c] = n]
          /\ IF n = 0 THEN /\ step' = "idle"
                           /\ answer' = [answer EXCEPT ![c] = "false"]
                      ELSE step' = "begin" /\ answer' = answer
  BY DEF StartTask
<1>3. attempts' = [attempts EXCEPT ![c] = 1] /\ 1 \in 0 .. MaxAttempts
  BY BoundsAssumption DEF StartTask
<1>4. TypeOK'
  <2>1. step' \in Steps /\ current' \in 0 .. MaxTransactions /\ at' \in 1 .. MaxStatements
    BY <1>1, <1>2, BoundsAssumption DEF Inv, TypeOK, Steps, Transactions
  <2>2. /\ size' \in [Transactions -> 0 .. MaxStatements]
        /\ attempts' \in [Transactions -> 0 .. MaxAttempts]
    BY <1>2, <1>3 DEF Inv, TypeOK
  <2>3. answer' \in [Transactions -> {"none", "true", "false"}]
    BY <1>2 DEF Inv, TypeOK
  <2> QED BY <1>1, <2>1, <2>2, <2>3 DEF Inv, TypeOK
<1>5. NullIsClean' /\ EmptyOutside' /\ StagedIsNew' /\ NoDuplicateEffect'
  BY <1>1 DEF Inv, Clean, NullIsClean, EmptyOutside, StagedIsNew, NoDuplicateEffect
<1>6. Busy'
  BY <1>1, <1>2, <1>3 DEF Busy, Inv, TypeOK
<1>7. ~began[c] /\ Fresh(c) /\ Future' /\ InBegin'
  BY <1>1 DEF Inv, Future, InBegin, Fresh, TypeOK, Transactions
<1>8. \A t \in Transactions : t # c => size'[t] = size[t]
  BY <1>2 DEF Inv, TypeOK
<1>9. Settled' /\ AtomicOnceBegun'
  <2> SUFFICES ASSUME NEW t \in Transactions, began[t], ~RollbackRefused(t)
               PROVE  WholeAt(t)' /\ Durable(t)' \in {{}, 1 .. size'[t]}
    BY <1>1 DEF Settled, AtomicOnceBegun, RollbackRefused
  <2>1. t # c /\ size'[t] = size[t] /\ WholeAt(t)
    BY <1>1, <1>7, <1>8 DEF Inv, Settled, Ended
  <2>2. WholeAt(t)'
    BY <1>1, <2>1 DEF WholeAt, Untouched
  <2>3. Durable(t)' = Durable(t)
    BY <1>1, <2>1 DEF Durable
  <2> QED BY <2>1, <2>2, <2>3 DEF Inv, AtomicOnceBegun
<1>10. NoTransactionLeaks'
  <2> SUFFICES ASSUME step' = "idle", server.inTransaction
               PROVE  \E t \in unfinished : LastTask(t)'
    BY <1>1, <1>2 DEF NoTransactionLeaks, OpenIsUnfinished, BegunIsAlone
  <2>1. PICK t \in unfinished : LastTask(t)
    BY <1>1 DEF Inv, NoTransactionLeaks, OpenIsUnfinished
  <2>2. size'[c] = 0
    BY <1>1, <1>2 DEF Inv, TypeOK
  <2>3. \A u \in Transactions : u <= c => u = c \/ u <= current
    BY DEF Transactions, Inv, TypeOK
  <2>4. LastTask(t)'
    BY <1>1, <1>8, <2>1, <2>2, <2>3 DEF LastTask
  <2> QED BY <2>4
<1> QED BY <1>1, <1>2, <1>4, <1>5, <1>6, <1>7, <1>9, <1>10
        DEF Inv, InStatement, InCommit, InRollback

\* A transaction that is fresh, or has just begun, is whole.
LEMMA FreshIsWhole ==
  ASSUME TypeOK, NEW t \in Transactions, Fresh(t)
  PROVE  WholeAt(t) /\ AtomicAt(t)
<1>1. \A k \in 1 .. size[t] : k \in 1 .. MaxStatements
  BY BoundsAssumption DEF TypeOK
<1> QED BY <1>1 DEF Fresh, WholeAt, AtomicAt, Durable

LEMMA BeginInv == Inv /\ BeginTransaction => Inv'
<1> SUFFICES ASSUME Inv, BeginTransaction PROVE Inv'
  OBVIOUS
<1>1. PICK returned \in Returns :
          /\ Execute("begin", returned)
          /\ step' = IF returned = "again" THEN step ELSE "statement"
          /\ began' = [began EXCEPT ![current] = returned = "true"]
  BY DEF BeginTransaction
<1>2. /\ step = "begin" /\ at' = 1
      /\ UNCHANGED <<current, size, attempts, answer, failed, unfinished>>
      /\ current \in Transactions /\ Fresh(current) /\ size[current] >= 1
      /\ attempts[current] = 1
  BY DEF BeginTransaction, Inv, Busy, InBegin
<1>3. /\ server' \in ServerStates /\ handle' \in {"open", "null"} /\ errno' \in Errnos
      /\ NullIsClean'
  BY <1>1, <1>2, ExecuteType DEF Inv, Commands
<1>4. /\ server' = server \/ Settles
      /\ returned = "true" => server' = Run("begin")
      /\ returned = "again" => handle' = "null"
  BY <1>1, <1>2, ExecuteSettles DEF Inv
<1>5. returned = "true" => server'.inTransaction /\ server'.staged = {}
  BY <1>2, <1>4, RunFields DEF Inv, Commands
<1>6. TypeOK'
  BY <1>1, <1>2, <1>3, BoundsAssumption DEF Inv, TypeOK, Steps, ServerStates
<1>7. EmptyOutside'
  BY <1>4 DEF Inv, EmptyOutside, Settles
<1>8. Fresh(current)'
  BY <1>2, <1>4, FreshSettles DEF Inv
<1>9. StagedIsNew' /\ NoDuplicateEffect' /\ Future' /\ Settled' /\ AtomicOnceBegun'
  <2>1. \A t \in Transactions : t # current => began'[t] = began[t]
    BY <1>1 DEF Inv, TypeOK
  <2>2. WholeAt(current)' /\ AtomicAt(current)'
    <3>1. \A k \in 1 .. size[current] : k \in 1 .. MaxStatements
      BY <1>2, BoundsAssumption DEF Inv, TypeOK
    <3> QED BY <1>2, <1>8, <3>1 DEF Fresh, WholeAt, AtomicAt, Durable
  <2>3. Moves
    BY <1>4 DEF Moves
  <2> QED BY <1>2, <1>4, <1>6, <2>1, <2>2, <2>3, CurrentStep
<1>10. Busy' /\ InBegin'
  <2>1. step' = "begin" => began'[current] = FALSE
    BY <1>1, <1>2 DEF Inv, TypeOK
  <2> QED BY <1>1, <1>2, <1>8, <2>1 DEF Busy, InBegin
<1>11. InStatement'
  <2>1. {current} \X (1 .. (1 - 1)) = {}
    OBVIOUS
  <2>2. began'[current] = (returned = "true")
    BY <1>1, <1>2 DEF Inv, TypeOK
  <2> QED BY <1>1, <1>2, <1>4, <1>5, <1>8, <2>1, <2>2 DEF InStatement, Fresh, Untouched
<1>12. InCommit' /\ InRollback'
  BY <1>1, <1>2 DEF InCommit, InRollback
<1>13. NoTransactionLeaks'
  <2>1. began'[current] = (returned = "true")
    BY <1>1, <1>2 DEF Inv, TypeOK
  <2> QED BY <1>1, <1>2, <1>5, <2>1 DEF NoTransactionLeaks, OpenIsUnfinished, BegunIsAlone
<1> QED BY <1>3, <1>6, <1>7, <1>9, <1>10, <1>11, <1>12, <1>13 DEF Inv

\* One turn of the loop over the statements.
LEMMA StatementInv == Inv /\ ExecuteStatement => Inv'
<1> SUFFICES ASSUME Inv, ExecuteStatement PROVE Inv'
  OBVIOUS
<1>1. PICK returned \in Returns :
          /\ Execute("statement", returned)
          /\ step'   = AfterStatement(returned)
          /\ at'     = NextStatement(returned)
          /\ failed' = IF returned = "false" THEN [failed EXCEPT ![current] = TRUE]
                                             ELSE failed
  BY DEF ExecuteStatement
<1>2. /\ step = "statement" /\ UNCHANGED <<current, size, attempts, answer, began, unfinished>>
      /\ current \in Transactions /\ at <= size[current]
      /\ size[current] \in 1 .. MaxStatements /\ at \in 1 .. MaxStatements
      /\ attempts[current] = 1
  BY DEF ExecuteStatement, Inv, Busy, TypeOK
<1>3. /\ server' \in ServerStates /\ handle' \in {"open", "null"} /\ errno' \in Errnos
      /\ NullIsClean'
  BY <1>1, <1>2, ExecuteType DEF Inv, Commands
<1>4. /\ step' \in {"statement", "rollback", "commit"}
      /\ at' \in 1 .. MaxStatements /\ at' <= size[current]
  <2>1. step' \in {"statement", "rollback", "commit"}
    BY <1>1 DEF AfterStatement
  <2>2. at' = at \/ (at < size[current] /\ at' = at + 1)
    BY <1>1 DEF NextStatement
  <2> QED BY <1>2, <2>1, <2>2, BoundsAssumption
<1>5. TypeOK' /\ Busy'
  <2>1. TypeOK'
    BY <1>1, <1>2, <1>3, <1>4 DEF Inv, TypeOK, Steps, ServerStates
  <2>2. Busy'
    BY <1>2, <1>4 DEF Busy
  <2> QED BY <2>1, <2>2
<1>6. /\ \/ server' = server
         \/ server'.staged = {} /\ server'.durable = server.durable
         \/ Stages
         \/ Commits /\ handle = "open"
      /\ returned = "true" => handle = "open" /\ handle' = "open" /\ (Stages \/ Commits)
      /\ returned = "again" => handle = "open" /\ handle' = "null"
  BY <1>1, <1>2, ExecuteStatementMoves DEF Inv
<1>7. Moves /\ EmptyOutside'
  BY <1>6 DEF Moves, Settles, Stages, Commits, Clean, EmptyOutside, Inv
<1>8. server' # server /\ ~Settles => Effect \in Effects /\ server.durable[Effect] = 0
  <2>1. server' # server /\ ~Settles => handle = "open"
    <3>1. Stages => handle = "open"
      BY DEF Stages, Inv, TypeOK, NullIsClean, Clean
    <3> QED BY <1>6, <3>1 DEF Settles
  <2>2. handle = "open" => server.durable[Effect] = 0
    BY <1>2 DEF Inv, InStatement, Effect, Untouched
  <2> QED BY <1>2, <2>1, <2>2 DEF Effect, Effects
<1>9. began[current] => /\ handle = "open" => ~Commits
                        /\ server'.durable = server.durable
                        /\ Durable(current)' = Durable(current)
  <2>1. began[current] /\ handle = "open" => ~Commits
    BY <1>2 DEF Inv, InStatement, Commits, Clean
  <2>2. began[current] => server'.durable = server.durable
    BY <1>6, <2>1 DEF Stages
  <2> QED BY <1>2, <2>1, <2>2 DEF Durable
<1>10. StagedIsNew' /\ NoDuplicateEffect' /\ Future' /\ Settled' /\ AtomicOnceBegun'
  <2>1. began'[current] /\ ~RollbackRefused(current)' => AtomicAt(current)'
    <3>1. ~RollbackRefused(current)' => ~RollbackRefused(current)
      BY <1>1, <1>2 DEF RollbackRefused, Inv, TypeOK
    <3> QED BY <1>2, <1>9, <3>1 DEF Inv, AtomicOnceBegun, AtomicAt
  <2>2. ~Ended(current)'
    BY <1>2, <1>4 DEF Ended
  <2>3. \A t \in Transactions : t # current => failed'[t] = failed[t]
    BY <1>1 DEF Inv, TypeOK
  <2> QED BY <1>2, <1>5, <1>7, <1>8, <2>1, <2>2, <2>3, CurrentStep
<1>11. InStatement' /\ InCommit'
  <2>1. CASE returned = "true"
    <3>1. CASE began[current]
      <4>1. /\ server.inTransaction /\ server.staged = {current} \X (1 .. (at - 1))
            /\ Untouched(current)
        BY <1>2, <1>6, <2>1, <3>1 DEF Inv, InStatement
      <4>2. server'.inTransaction /\ server'.staged = server.staged \cup {<<current, at>>}
        BY <1>6, <1>9, <2>1, <3>1 DEF Stages, Effect
      <4>3. server'.staged = {current} \X (1 .. at)
        <5>1. 1 .. at = (1 .. (at - 1)) \cup {at}
          BY <1>2
        <5> QED BY <4>1, <4>2, <5>1
      <4>4. Untouched(current)'
        BY <1>2, <1>9, <3>1, <4>1 DEF Untouched
      <4>5. CASE at < size[current]
        <5>1. step' = "statement" /\ at' = at + 1 /\ at' - 1 = at
          BY <1>1, <1>2, <2>1, <4>5 DEF AfterStatement, NextStatement
        <5> QED BY <1>2, <3>1, <4>2, <4>3, <4>4, <5>1 DEF InStatement, InCommit
      <4>6. CASE at = size[current]
        <5>1. step' = "commit"
          BY <1>1, <1>2, <2>1, <4>6 DEF AfterStatement
        <5>2. \A k \in 1 .. size[current] : <<current, k>> \in server'.staged
          BY <4>3, <4>6
        <5> QED BY <1>2, <4>4, <5>1, <5>2 DEF InStatement, InCommit, WholeAt
      <4> QED BY <1>2, <4>5, <4>6
    <3>2. CASE ~began[current]
      <4>1. InCommit'
        BY <1>2, <3>2 DEF InCommit
      <4>2. InStatement'
        <5> SUFFICES ASSUME step' = "statement", NEW k \in 1 .. MaxStatements, k >= at'
                     PROVE  /\ server'.durable[<<current, k>>] = 0
                            /\ <<current, k>> \notin server'.staged
          BY <1>2, <3>2 DEF InStatement
        <5>1. at' = at + 1
          BY <1>1, <2>1 DEF AfterStatement, NextStatement
        <5>2. k > at /\ <<current, k>> # Effect /\ <<current, k>> \in Effects
          BY <1>2, <5>1 DEF Effect, Effects
        <5>3. server.durable[<<current, k>>] = 0 /\ <<current, k>> \notin server.staged
          BY <1>2, <1>6, <2>1, <3>2, <5>2 DEF Inv, InStatement
        <5> QED BY <1>6, <2>1, <5>2, <5>3 DEF Stages, Commits, Clean, MakeDurable
      <4> QED BY <4>1, <4>2
    <3> QED BY <3>1, <3>2 DEF Inv, TypeOK
  <2>2. CASE returned = "again"
    <3>1. handle' = "null" /\ step' = "statement"
      BY <1>1, <1>6, <2>2 DEF AfterStatement
    <3> QED BY <3>1 DEF InStatement, InCommit
  <2>3. CASE returned = "false"
    <3>1. step' = "rollback"
      BY <1>1, <2>3 DEF AfterStatement
    <3> QED BY <3>1 DEF InStatement, InCommit
  <2> QED BY <2>1, <2>2, <2>3 DEF Returns
<1>12. InRollback' /\ InBegin'
  <2>1. step' = "rollback" => returned = "false"
    BY <1>1 DEF AfterStatement
  <2> QED BY <1>1, <1>2, <1>4, <2>1 DEF InRollback, InBegin, Inv, TypeOK
<1>13. NoTransactionLeaks'
  <2>1. OpenIsUnfinished'
    BY <1>4 DEF OpenIsUnfinished
  <2>2. BegunIsAlone'
    BY <1>2, <1>6, <1>9 DEF Inv, NoTransactionLeaks, BegunIsAlone, Stages, Effect
  <2> QED BY <2>1, <2>2 DEF NoTransactionLeaks
<1> QED BY <1>3, <1>5, <1>7, <1>10, <1>11, <1>12, <1>13 DEF Inv

\* The two commands that end a transaction.
LEMMA EndInv ==
  ASSUME Inv, NEW command \in {"rollback", "commit"}, step = command,
         NEW returned \in Returns, Execute(command, returned), NoteRefusal,
         IF returned = "again"
         THEN UNCHANGED <<step, attempts, answer>>
         ELSE \E code \in Errnos \ {Deadlock} : Finish(code),
         UNCHANGED <<at, current, size, began, failed>>
  PROVE  Inv'
<1>1. /\ current \in Transactions /\ attempts[current] = 1
      /\ size[current] \in 1 .. MaxStatements
  BY DEF Inv, Busy, TypeOK
<1>2. /\ server' \in ServerStates /\ handle' \in {"open", "null"} /\ errno' \in Errnos
      /\ NullIsClean'
  BY <1>1, ExecuteType DEF Inv, Commands
<1>3. /\ server' = server \/ (Settles /\ (command = "rollback" => server'.durable = server.durable))
      /\ returned = "again" => handle' = "null"
      /\ server'.inTransaction => errno' = Refused /\ returned = "false"
  BY <1>1, ExecuteSettles DEF Inv
<1>4. \/ returned = "again" /\ UNCHANGED <<step, attempts, answer>>
      \/ /\ step' = "idle" /\ attempts' = attempts
         /\ \E a \in {"true", "false"} : answer' = [answer EXCEPT ![current] = a]
  BY <1>1 DEF Finish, TriesAgain, Ok, Deadlock
<1>5. unfinished' = IF errno' = Refused THEN unfinished \cup {current} ELSE unfinished
  BY DEF NoteRefusal
<1>6. TypeOK'
  BY <1>1, <1>2, <1>4, <1>5 DEF Inv, TypeOK, Steps, ServerStates
<1>7. EmptyOutside'
  BY <1>3 DEF Inv, EmptyOutside, Settles
<1>8. ASSUME began[current], ~RollbackRefused(current)'
      PROVE  WholeAt(current)' /\ AtomicAt(current)'
  <2>1. AtomicAt(current)
    BY <1>1, <1>5, <1>8 DEF Inv, AtomicOnceBegun, AtomicAt, RollbackRefused
  <2>2. CASE command = "commit"
    <3>1. WholeAt(current)
      BY <1>8, <2>2 DEF Inv, InCommit
    <3>2. \/ Settles
          \/ \A k \in 1 .. MaxStatements :
                 /\ <<current, k>> \in server'.staged <=> <<current, k>> \in server.staged
                 /\ server'.durable[<<current, k>>] = server.durable[<<current, k>>]
      BY <1>3
    <3> QED BY <1>1, <2>1, <3>1, <3>2, WholeStep DEF Inv
  <2>3. CASE command = "rollback"
    <3>1. failed[current]
      BY <2>3 DEF Inv, InRollback
    <3>2. errno' # Refused
      BY <1>1, <1>5, <1>8, <3>1 DEF RollbackRefused
    <3>3. ~server'.inTransaction
      BY <1>3, <3>2
    <3>4. server'.staged = {} /\ server'.durable = server.durable
      BY <1>3, <1>7, <2>3, <3>3 DEF EmptyOutside
    <3>5. Durable(current)' = Durable(current)
      BY <3>4 DEF Durable
    <3> QED BY <2>1, <3>4, <3>5 DEF WholeAt, AtomicAt
  <2> QED BY <2>2, <2>3
<1>9. StagedIsNew' /\ NoDuplicateEffect' /\ Future' /\ Settled' /\ AtomicOnceBegun'
  <2>1. Moves
    BY <1>3 DEF Moves
  <2>2. \A t \in Transactions : t # current => (t \in unfinished' <=> t \in unfinished)
    BY <1>5
  <2> QED BY <1>1, <1>3, <1>6, <1>8, <2>1, <2>2, CurrentStep
<1>10. Busy' /\ InBegin' /\ InStatement' /\ InRollback'
  BY <1>1, <1>4 DEF Inv, Busy, InBegin, InStatement, InRollback
<1>11. InCommit'
  <2> SUFFICES ASSUME step' = "commit" PROVE InCommit'
    BY DEF InCommit
  <2>1. handle' = "null"
    BY <1>3, <1>4
  <2> QED BY <1>2, <2>1 DEF NullIsClean, Clean, InCommit, WholeAt
<1>12. NoTransactionLeaks'
  <2>1. LastTask(current)'
    BY <1>1 DEF LastTask, Transactions
  <2>2. OpenIsUnfinished'
    BY <1>3, <1>5, <2>1 DEF OpenIsUnfinished
  <2>3. BegunIsAlone'
    BY <1>3, <1>4 DEF Inv, NoTransactionLeaks, BegunIsAlone, Settles
  <2> QED BY <2>2, <2>3 DEF NoTransactionLeaks
<1> QED BY <1>2, <1>6, <1>7, <1>9, <1>10, <1>11, <1>12 DEF Inv

LEMMA RollbackInv == Inv /\ RollbackTransaction => Inv'
<1> SUFFICES ASSUME Inv, RollbackTransaction PROVE Inv'
  OBVIOUS
<1>1. PICK returned \in Returns :
          /\ Execute("rollback", returned)
          /\ IF returned = "again" THEN UNCHANGED <<step, attempts, answer>>
                                   ELSE Finish(GetLastError)
  BY DEF RollbackTransaction
<1>2. /\ step = "rollback" /\ NoteRefusal /\ UNCHANGED <<at, current, size, began, failed>>
      /\ current \in Transactions
  BY DEF RollbackTransaction, Inv, Busy
<1>3. errno' \in Errnos \ {Deadlock}
  BY <1>1, <1>2, ExecuteType, ExecuteSettles DEF Inv, Commands
<1> QED BY <1>1, <1>2, <1>3, EndInv DEF GetLastError

LEMMA CommitInv == Inv /\ CommitTransaction => Inv'
<1> SUFFICES ASSUME Inv, CommitTransaction PROVE Inv'
  OBVIOUS
<1>1. PICK returned \in Returns :
          /\ Execute("commit", returned)
          /\ IF returned = "again" THEN UNCHANGED <<step, attempts, answer>>
                                   ELSE Finish(Ok)
  BY DEF CommitTransaction
<1>2. step = "commit" /\ NoteRefusal /\ UNCHANGED <<at, current, size, began, failed>>
  BY DEF CommitTransaction
<1>3. Ok \in Errnos \ {Deadlock}
  BY DEF Errnos, Ok, Deadlock
<1> QED BY <1>1, <1>2, <1>3, EndInv

LEMMA AbortInv == Inv /\ Abort => Inv'
<1> SUFFICES ASSUME Inv, Abort PROVE Inv'
  OBVIOUS
<1>1. /\ step' = "aborted" /\ handle = "open" /\ server' = RolledBack(server)
      /\ UNCHANGED <<at, taskVars, handle, errno>>
      /\ current \in Transactions /\ step = "statement"
  BY DEF Abort, Inv, Busy
<1>2. server' \in ServerStates /\ Clean' /\ server'.durable = server.durable
  BY <1>1, RolledBackFields DEF Inv, TypeOK, ServerStates, Clean
<1>3. TypeOK'
  BY <1>1, <1>2 DEF Inv, TypeOK, Steps, ServerStates, taskVars
<1>4. \A t \in Transactions : Durable(t)' = Durable(t) /\ WholeAt(t)' /\ (Fresh(t) => Fresh(t)')
  BY <1>1, <1>2 DEF Clean, Durable, WholeAt, Fresh, taskVars
<1>5. Settled' /\ Future' /\ AtomicOnceBegun' /\ NoDuplicateEffect'
  BY <1>1, <1>2, <1>4 DEF Inv, Settled, Future, AtomicOnceBegun, RollbackRefused,
                          NoDuplicateEffect, taskVars
<1> QED BY <1>1, <1>2, <1>3, <1>5
        DEF Inv, NullIsClean, EmptyOutside, Clean, StagedIsNew, Busy, InBegin, InStatement,
            InCommit, InRollback, NoTransactionLeaks, OpenIsUnfinished, BegunIsAlone, taskVars

LEMMA InvStep == Inv /\ [Next]_vars => Inv'
<1> SUFFICES ASSUME Inv, [Next]_vars PROVE Inv'
  OBVIOUS
<1>1. CASE UNCHANGED vars
  <2>1. TypeOK' /\ NullIsClean' /\ EmptyOutside' /\ StagedIsNew' /\ Busy'
    BY <1>1 DEF Inv, TypeOK, NullIsClean, Clean, EmptyOutside, StagedIsNew, Busy,
                vars, taskVars, connVars
  <2>2. Future' /\ Settled' /\ InBegin' /\ InStatement' /\ InCommit' /\ InRollback'
    BY <1>1 DEF Inv, Future, Fresh, Untouched, Settled, Ended, RollbackRefused, WholeAt,
                InBegin, InStatement, InCommit, InRollback, vars, taskVars, connVars
  <2>3. AtomicOnceBegun' /\ NoDuplicateEffect' /\ NoTransactionLeaks'
    BY <1>1 DEF Inv, AtomicOnceBegun, RollbackRefused, Durable, NoDuplicateEffect,
                NoTransactionLeaks, OpenIsUnfinished, LastTask, BegunIsAlone,
                vars, taskVars, connVars
  <2> QED BY <2>1, <2>2, <2>3 DEF Inv
<1> QED BY <1>1, StartTaskInv, BeginInv, StatementInv, RollbackInv, CommitInv, AbortInv
        DEF Next, TransactionStep

LEMMA InvAlways == Spec => []Inv
<1> QED BY InvInit, InvStep, PTL DEF Spec

-----------------------------------------------------------------------------

\* Every reachable state of the connection is well typed.
THEOREM ConnectionTypeCorrect == Spec => []TypeOK
<1>1. Inv => TypeOK
  BY DEF Inv
<1> QED BY <1>1, InvAlways, PTL

\* A transaction that has begun is durable as a whole or not at all, for any
\* number of transactions and statements, however often the session is lost and
\* whatever the server refuses, except its ROLLBACK.
THEOREM BegunIsAtomic == Spec => []AtomicOnceBegun
<1>1. Inv => AtomicOnceBegun
  BY DEF Inv
<1> QED BY <1>1, InvAlways, PTL

\* No effect becomes durable twice, although commands are sent again after their
\* reply was lost.
THEOREM NothingHappensTwice == Spec => []NoDuplicateEffect
<1>1. Inv => NoDuplicateEffect
  BY DEF Inv
<1> QED BY <1>1, InvAlways, PTL

\* A task's transaction outlives it only when the server refused to end it, and
\* reaches into the next task's only when the server refused to begin that one too.
THEOREM TransactionsDoNotLeak == Spec => []NoTransactionLeaks
<1>1. Inv => NoTransactionLeaks
  BY DEF Inv
<1> QED BY <1>1, InvAlways, PTL

==============================================================================
