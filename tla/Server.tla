-------------------------------- MODULE Server --------------------------------
(***************************************************************************)
(* net::IServer and HttpServer: the update timer, accepting, the vector of *)
(* sessions and, from QueryCallback, the queries in flight, all used by    *)
(* the handlers that two threads run: main, which started the server, and  *)
(* _netThread.                                                             *)
(*                                                                         *)
(* pc says what a thread's handler does next.  While it is at a step that  *)
(* uses _processor or _sessions, which no lock protects, another thread    *)
(* that begins to use the same one races with it; the model notes that and *)
(* follows the program no further, nor after it has crashed or terminated. *)
(***************************************************************************)
EXTENDS QueryCallback

CONSTANTS
    Clients,    \* who connects, each once
    Nobody

ASSUME NobodyAssumption == Nobody \notin Clients

Main    == "main"
Net     == "net"
Threads == {Main, Net}

VARIABLES
    pc,           \* what the handler of each thread does next
    serving,      \* whose session's request a thread handles
    armed,        \* how many waits of _updateTimer are outstanding
    fired,        \* how many of its handlers wait for a thread
    accepting,    \* the accept operation: "armed", "ready", "failed" or "off"
    peer,         \* each client: "waiting" to be accepted, "present" or "left"
    session,      \* its session: "none", "listed" in _sessions, or "erased"
    reading,      \* the session's read waits for the client
    closed,       \* ISession::_closed of each session
    accepted,     \* the client whose socket the accept handler was given
    acceptEnded,  \* an accept failed, or its handler threw
    raced,        \* two handlers have used the same vector at once
    terminated    \* std::terminate: main's server was destroyed, its thread joinable

timerVars   == <<armed, fired>>
acceptVars  == <<accepting, accepted, acceptEnded>>
sessionVars == <<session, reading, closed>>
faultVars   == <<raced, terminated>>
threadVars  == <<pc, serving>>
serverVars  == <<threadVars, timerVars, acceptVars, peer, sessionVars, faultVars>>
allVars     == <<vars, serverVars>>

\* Start: DoAccept, then the first wait of the timer, then the thread; main
\* goes on with ioContext.run().
ServerInit == /\ Init
              /\ pc          = [t \in Threads |-> "idle"]
              /\ serving     = [t \in Threads |-> Nobody]
              /\ armed       = 1
              /\ fired       = 0
              /\ accepting   = "armed"
              /\ peer        = [c \in Clients |-> "waiting"]
              /\ session     = [c \in Clients |-> "none"]
              /\ reading     = [c \in Clients |-> FALSE]
              /\ closed      = [c \in Clients |-> FALSE]
              /\ accepted    = Nobody
              /\ acceptEnded = FALSE
              /\ raced       = FALSE
              /\ terminated  = FALSE

-----------------------------------------------------------------------------
(* The clients, each of which connects at some time before it is accepted, *)
(* and the operating system.                                               *)

Leave(c) == /\ peer[c] = "present"
            /\ peer' = [peer EXCEPT ![c] = "left"]
            /\ UNCHANGED <<vars, threadVars, timerVars, acceptVars, sessionVars, faultVars>>

TimerFires == /\ armed > 0
              /\ armed' = armed - 1
              /\ fired' = fired + 1
              /\ UNCHANGED <<vars, threadVars, acceptVars, peer, sessionVars, faultVars>>

\* The accepted client may leave before its session is constructed.
AcceptCompletes(c) ==
    /\ accepting = "armed"
    /\ peer[c] = "waiting"
    /\ \/ accepting' = "ready" /\ accepted' = c /\ peer' = [peer EXCEPT ![c] = "present"]
       \/ accepting' = "failed" /\ accepted' = Nobody /\ peer' = [peer EXCEPT ![c] = "left"]
    /\ UNCHANGED <<vars, threadVars, timerVars, acceptEnded, sessionVars, faultVars>>

-----------------------------------------------------------------------------
(* Threads.                                                                *)

UsesProcessor == {"processing", "adding"}
UsesSessions  == {"erasing", "emplacing"}

Conflict(t, step) ==
    \E u \in Threads \ {t}, uses \in {UsesProcessor, UsesSessions} :
        step \in uses /\ pc[u] \in uses

Goto(t, step) == /\ pc'    = [pc EXCEPT ![t] = step]
                 /\ raced' = (raced \/ Conflict(t, step))

\* An exception leaves a handler and with it run(): the net thread catches it
\* and runs the io_context again; main leaves the block that owns the server,
\* whose destructor destroys a joinable thread before main's catch is reached.
Survives(t)    == t = Net
Throw(t)       == /\ pc'         = [pc EXCEPT ![t] = "idle"]
                  /\ terminated' = ~Survives(t)
                  /\ UNCHANGED raced

-----------------------------------------------------------------------------
(* Update, called when a wait has ended.                                   *)

TakeTimer(t) == /\ pc[t] = "idle"
                /\ fired > 0
                /\ fired' = fired - 1
                /\ Goto(t, "update")
                /\ UNCHANGED <<vars, serving, armed, acceptVars, peer, sessionVars, terminated>>

\* expires_from_now cancels the waits that are outstanding, and the handler of
\* a canceled wait calls Update like any other; then the next wait begins.
NoWait    == UNCHANGED timerVars
WaitTwice == armed' = 2 /\ fired' = fired + armed
Wait      == armed' = 1 /\ fired' = fired + armed

Arm(t) == /\ pc[t] = "update"
          /\ Wait
          /\ Goto(t, "processing")
          /\ UNCHANGED <<vars, serving, acceptVars, peer, sessionVars, terminated>>

Process(t) == /\ pc[t] = "processing"
              /\ \/ callbacks = <<>> /\ UNCHANGED vars
                 \/ ProcessReadyCallbacks
              /\ IF \E i \in Reached : Throws(callbacks[i])
                 THEN Throw(t)
                 ELSE Goto(t, "erasing") /\ UNCHANGED terminated
              /\ UNCHANGED <<serving, timerVars, acceptVars, peer, sessionVars>>

\* Every session that is closed, its operations done or not, leaves _sessions.
Unread(c)   == session[c] = "listed" /\ closed[c] /\ reading[c]
Erasable(c) == session[c] = "listed" /\ closed[c]

Erase(t) == /\ pc[t] = "erasing"
            /\ session' = [c \in Clients |-> IF Erasable(c) THEN "erased" ELSE session[c]]
            /\ Goto(t, "idle")
            /\ UNCHANGED <<vars, serving, timerVars, acceptVars, peer, reading, closed, terminated>>

-----------------------------------------------------------------------------
(* The handler of DoAccept.                                                *)

\* With an error it returns; the constructor of the session asks the socket for
\* its remote endpoint and throws if the client has left.  In both cases no
\* accept is started again.
AcceptFails(t) == /\ pc[t] = "idle"
                  /\ \/ accepting = "failed" /\ pc' = pc /\ UNCHANGED faultVars
                     \/ accepting = "ready" /\ peer[accepted] = "left" /\ Throw(t)
                  /\ accepting'   = "off"
                  /\ acceptEnded' = TRUE
                  /\ UNCHANGED <<vars, serving, timerVars, accepted, peer, sessionVars>>

\* The session is constructed ...
TakeAccept(t) == /\ pc[t] = "idle"
                 /\ accepting  = "ready"
                 /\ accepting' = "off"
                 /\ Goto(t, "emplacing")
                 /\ UNCHANGED <<vars, serving, timerVars, accepted, acceptEnded, peer, sessionVars,
                                terminated>>

\* ... put into _sessions, given its routes and started; then DoAccept.
AcceptOnce == "off"
DoAccept   == "armed"

Emplace(t) == /\ pc[t] = "emplacing"
              /\ session'   = [session EXCEPT ![accepted] = "listed"]
              /\ reading'   = [reading EXCEPT ![accepted] = TRUE]
              /\ accepting' = DoAccept
              /\ Goto(t, "idle")
              /\ UNCHANGED <<vars, serving, timerVars, accepted, acceptEnded, peer, closed, terminated>>

-----------------------------------------------------------------------------
(* The handler of a session's read.                                        *)

\* ReadHandler routes a request.  That of /testAsync adds a query and its
\* continuation to the processor and sleeps; the others use nothing modelled
\* here, and the next read is started.
TakeRequest(t, c) == /\ pc[t] = "idle"
                     /\ reading[c]
                     /\ peer[c] = "present"
                     /\ \E q \in Queries : promise[q] = "unborn"
                     /\ reading' = [reading EXCEPT ![c] = FALSE]
                     /\ serving' = [serving EXCEPT ![t] = c]
                     /\ Goto(t, "adding")
                     /\ UNCHANGED <<vars, timerVars, acceptVars, peer, session, closed,
                                    terminated>>

TestAsync(t) == /\ pc[t] = "adding"
                /\ \E q \in Queries : AddCallback(q)
                /\ Goto(t, "asleep")
                /\ UNCHANGED <<serving, timerVars, acceptVars, peer, sessionVars, terminated>>

\* The reply is sent, without the result of the query, and the next read started.
WakeUp(t) == /\ pc[t] = "asleep"
             /\ reading' = [reading EXCEPT ![serving[t]] = TRUE]
             /\ serving' = [serving EXCEPT ![t] = Nobody]
             /\ Goto(t, "idle")
             /\ UNCHANGED <<vars, timerVars, acceptVars, peer, session, closed, terminated>>

\* The read ends with an error: CloseSession, and no further read.
TakeEof(t, c) == /\ pc[t] = "idle"
                 /\ reading[c]
                 /\ peer[c] = "left"
                 /\ reading' = [reading EXCEPT ![c] = FALSE]
                 /\ closed'  = [closed EXCEPT ![c] = TRUE]
                 /\ UNCHANGED <<vars, threadVars, timerVars, acceptVars, peer, session,
                                faultVars>>

-----------------------------------------------------------------------------
Running == ~raced /\ ~terminated /\ ~crashed

Update(t) == Arm(t) \/ Process(t) \/ Erase(t)
GoOn(t)   == Update(t) \/ Emplace(t) \/ TestAsync(t) \/ WakeUp(t)
Start(t)  == TakeTimer(t) \/ TakeAccept(t) \/ AcceptFails(t)
             \/ \E c \in Clients : TakeRequest(t, c) \/ TakeEof(t, c)

Environment == \/ TimerFires
               \/ \E c \in Clients : Leave(c) \/ AcceptCompletes(c)
               \/ (\E q \in Queries : Resolve(q)) /\ UNCHANGED serverVars

ServerNext == Running /\ (Environment \/ \E t \in Threads : GoOn(t) \/ Start(t))

ServerSpec == ServerInit /\ [][ServerNext]_allVars

\* Threads finish the handlers they run; the io_context hands handlers out in
\* the order in which they became ready, so that none waits for ever while the
\* threads become idle again and again; timers, accepts and ends of connections
\* reach the program.  No client has to connect, to send or to leave.
FairServer ==
    /\ ServerSpec
    /\ WF_allVars(Running /\ TimerFires)
    /\ \A t \in Threads : WF_allVars(Running /\ GoOn(t))
    /\ SF_allVars(Running /\ \E t \in Threads : TakeTimer(t))
    /\ SF_allVars(Running /\ \E t \in Threads : TakeAccept(t) \/ AcceptFails(t))
    /\ \A c \in Clients : /\ WF_allVars(Running /\ AcceptCompletes(c))
                          /\ SF_allVars(Running /\ \E t \in Threads : TakeEof(t, c))

-----------------------------------------------------------------------------
(* Properties.                                                             *)

\* Types of the server's variables, with those of QueryCallback.
ServerTypeOK ==
    /\ TypeOK
    /\ pc \in [Threads -> {"idle", "update", "processing", "erasing", "emplacing",
                           "adding", "asleep"}]
    /\ serving \in [Threads -> Clients \cup {Nobody}]
    /\ armed \in 0 .. 1 /\ fired \in 0 .. 1
    /\ accepting \in {"armed", "ready", "failed", "off"}
    /\ peer \in [Clients -> {"waiting", "present", "left"}]
    /\ session \in [Clients -> {"none", "listed", "erased"}]
    /\ reading \in [Clients -> BOOLEAN]
    /\ closed \in [Clients -> BOOLEAN]
    /\ accepted \in Clients \cup {Nobody}
    /\ acceptEnded \in BOOLEAN /\ raced \in BOOLEAN /\ terminated \in BOOLEAN

\* There is one chain of updates, though the handler of a canceled wait would
\* start another and an exception may leave any update: exactly one wait is
\* outstanding, ended, or handled and not yet renewed.
Renewing      == {t \in Threads : pc[t] = "update"}
OneTimerChain == armed + fired + Cardinality(Renewing) = 1

\* A session that has closed leaves the server's vector, also when exceptions
\* leave the updates that should have erased it.
ClosedIsErased ==
    \A c \in Clients : closed[c] /\ session[c] = "listed" ~> session[c] = "erased" \/ ~Running

\* A client that waits gets a session unless the accept chain has ended.
ClientIsServed ==
    \A c \in Clients :
        peer[c] = "waiting" ~> session[c] # "none" \/ acceptEnded \/ ~Running
==============================================================================
