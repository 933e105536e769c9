------------------------------- MODULE Session -------------------------------
(***************************************************************************)
(* net::ISession with the ReadHandler of Http::HttpSession: one connection *)
(* of the server.  A session keeps one asynchronous read going, answers    *)
(* whatever a read brings with one packet, and writes the packets of its   *)
(* queue with async_write_some, which may take a part of a packet.         *)
(*                                                                         *)
(* The completion handlers of the reads and the writes are run by the      *)
(* IoThreads threads that run the io_context (main and _netThread): each   *)
(* takes the next handler in the order of completion, so one of the first  *)
(* IoThreads pending handlers is the next to run.  A handler is one step.  *)
(*                                                                         *)
(* A byte on the wire is <<packet, position>>.  Packet p has p bytes: the  *)
(* payload of an HttpResponse is never emptied, so the replies grow.       *)
(***************************************************************************)
EXTENDS Naturals, Sequences, SequencesExt

CONSTANTS
    IoThreads,     \* threads that run the io_context
    ClientWaits,   \* the client waits for a reply before its next request
    MaxRequests    \* bound: how many requests the client sends

ASSUME ThreadsAssumption  == IoThreads \in Nat \ {0}
ASSUME ClientAssumption   == ClientWaits \in BOOLEAN
ASSUME RequestsAssumption == MaxRequests \in Nat \ {0}

VARIABLES
    client,       \* the client's end: "open", "finished" (eof) or "reset"
    sent,         \* how many requests the client has sent
    inbox,        \* how many of them the socket has not yet delivered
    received,     \* the bytes the client has got
    reading,      \* an asynchronous read waits for the socket
    writes,       \* the asynchronous writes that wait for the socket
    ready,        \* the completion handlers that wait for a thread
    packets,      \* _writeBufferQueue: packets and their _readIndex
    replies,      \* how many packets SendMsg has pushed
    closed,       \* _closed
    listed,       \* the server's _sessions holds the session
    overlapped,   \* a write was started while another was under way
    fault         \* undefined behaviour has happened, and which

ioVars      == <<reading, writes, ready>>
sessionVars == <<packets, replies, closed, listed>>
vars == <<client, sent, inbox, received, ioVars, sessionVars, overlapped, fault>>

\* DoAccept: the session is in _sessions and StartSession has begun to read.
Init == /\ client     = "open"
        /\ sent       = 0
        /\ inbox      = 0
        /\ received   = <<>>
        /\ reading    = TRUE
        /\ writes     = <<>>
        /\ ready      = <<>>
        /\ packets    = <<>>
        /\ replies    = 0
        /\ closed     = FALSE
        /\ listed     = TRUE
        /\ overlapped = FALSE
        /\ fault      = "none"

Size(p)          == p
TotalSize(n)     == (n * (n + 1)) \div 2     \* of the packets 1 .. n
Readable(packet) == Size(packet.id) - packet.read

-----------------------------------------------------------------------------
(* The client.                                                             *)

Request == /\ client = "open"
           /\ sent < MaxRequests
           /\ ClientWaits => Len(received) = TotalSize(sent)
           /\ sent'  = sent + 1
           /\ inbox' = inbox + 1
           /\ UNCHANGED <<client, received, ioVars, sessionVars, overlapped, fault>>

Leave == /\ client = "open"
         /\ client' \in {"finished", "reset"}
         /\ UNCHANGED <<sent, inbox, received, ioVars, sessionVars, overlapped, fault>>

-----------------------------------------------------------------------------
(* The socket completes the operations.                                    *)

ReadCompletes ==
    /\ reading
    /\ reading' = FALSE
    /\ \/ /\ client # "reset"
          /\ \E n \in 1 .. inbox :
                 /\ inbox' = inbox - n
                 /\ ready' = Append(ready, [op |-> "read"])
       \/ /\ (client = "finished" /\ inbox = 0) \/ client = "reset"
          /\ ready' = Append(ready, [op |-> "failed"])
          /\ UNCHANGED inbox
    /\ UNCHANGED <<client, sent, received, writes, sessionVars, overlapped, fault>>

\* The socket takes n bytes of the packet that was the front of the queue when
\* the write was started, unless the session or the peer has been closed.
CanSend == ~closed /\ client # "reset"
Held(p) == \E i \in DOMAIN packets : packets[i].id = p

WriteCompletes ==
    /\ writes # <<>>
    /\ writes' = Tail(writes)
    /\ LET w == Head(writes) IN
       \/ /\ CanSend
          /\ Held(w.packet)
          /\ \E n \in 1 .. w.length :
                 /\ received' = received \o [i \in 1 .. n |-> <<w.packet, w.from + i>>]
                 /\ ready'    = Append(ready, [op |-> "written", packet |-> w.packet, length |-> n])
          /\ UNCHANGED fault
       \/ /\ CanSend
          /\ ~Held(w.packet)
          /\ fault' = "freed memory sent"
          /\ UNCHANGED <<received, ready>>
       \/ /\ ~CanSend
          /\ ready' = Append(ready, [op |-> "failed"])
          /\ UNCHANGED <<received, fault>>
    /\ UNCHANGED <<client, sent, inbox, reading, sessionVars, overlapped>>

-----------------------------------------------------------------------------
(* The completion handlers, each given the position i of its completion.   *)

Pending(i) == RemoveAt(ready, i)
Underway(i) == writes # <<>> \/ \E h \in ToSet(Pending(i)) : h.op = "written"

\* AsyncWrite on the queue q, called by handler i: it starts a write on the
\* front of the queue, whether or not another write is under way.
NoWrite(i, q)    == UNCHANGED <<writes, overlapped>>
AsyncWrite(i, q) ==
    /\ writes'     = Append(writes, [packet |-> q[1].id, from |-> q[1].read,
                                     length |-> Readable(q[1])])
    /\ overlapped' = (overlapped \/ Underway(i))

\* AsyncRead's handler: ReadHandler takes all there is as one request, routes
\* it and hands the reply to SendMsg; then the next read is started.
OnRead(i) ==
    /\ ready[i].op = "read"
    /\ ready'   = Pending(i)
    /\ reading' = TRUE
    /\ replies' = replies + 1
    /\ packets' = Append(packets, [id |-> replies + 1, read |-> 0])
    /\ AsyncWrite(i, packets')
    /\ UNCHANGED <<client, sent, inbox, received, closed, listed, fault>>

\* AsyncWrite's handler takes the front of the queue for the packet it wrote.
NeverPopped(n)  == [packets EXCEPT ![1].read = @ + n]
AlwaysPopped(n) == Tail(packets)
NotAdvanced(n)  == IF packets[1].read + n = Size(packets[1].id) THEN Tail(packets) ELSE packets
AfterWrite(n)   == IF packets[1].read + n = Size(packets[1].id)
                   THEN Tail(packets)
                   ELSE [packets EXCEPT ![1].read = @ + n]
WriteNext(i, q) == IF q # <<>> THEN AsyncWrite(i, q) ELSE NoWrite(i, q)

OnWritten(i) ==
    /\ ready[i].op = "written"
    /\ packets # <<>>
    /\ packets[1].read + ready[i].length <= Size(packets[1].id)
    /\ ready'   = Pending(i)
    /\ packets' = AfterWrite(ready[i].length)
    /\ WriteNext(i, packets')
    /\ UNCHANGED <<client, sent, inbox, received, reading, replies, closed, listed, fault>>

\* front() of an empty queue, or a read index beyond the write index.
OnWrittenFaults(i) ==
    /\ ready[i].op = "written"
    /\ \/ /\ packets = <<>>
          /\ fault' = "front of an empty queue"
       \/ /\ packets # <<>>
          /\ packets[1].read + ready[i].length > Size(packets[1].id)
          /\ fault' = "read index beyond write index"
    /\ ready' = Pending(i)
    /\ UNCHANGED <<client, sent, inbox, received, reading, writes, sessionVars, overlapped>>

\* CloseSession, called with an error; the read or write is not started again.
Ignored      == FALSE
CloseSession == TRUE

OnFailed(i) ==
    /\ ready[i].op = "failed"
    /\ ready'  = Pending(i)
    /\ closed' = (closed \/ CloseSession)
    /\ UNCHANGED <<client, sent, inbox, received, reading, writes, packets, replies,
                   listed, overlapped, fault>>

\* IServer::Update erases a session whose Update() returns false.
Erase == /\ listed
         /\ closed
         /\ listed' = FALSE
         /\ UNCHANGED <<client, sent, inbox, received, ioVars, packets, replies, closed,
                        overlapped, fault>>

Handle == \E i \in 1 .. Len(ready) :
              /\ i <= IoThreads
              /\ OnRead(i) \/ OnWritten(i) \/ OnWrittenFaults(i) \/ OnFailed(i)

Server == Handle \/ Erase
Next == /\ fault = "none"
        /\ Request \/ Leave \/ ReadCompletes \/ WriteCompletes \/ Server

Spec == Init /\ [][Next]_vars

\* Both threads run handlers as long as there are any, the server's Update runs
\* on its timer, and the socket completes what it can.  The client owes nothing.
FairSpec == /\ Spec
            /\ WF_vars(fault = "none" /\ ReadCompletes)
            /\ WF_vars(fault = "none" /\ WriteCompletes)
            /\ WF_vars(fault = "none" /\ Handle)
            /\ WF_vars(fault = "none" /\ Erase)

-----------------------------------------------------------------------------
(* Properties.                                                             *)

Packets     == 1 .. MaxRequests
Bytes       == Packets \X Packets
Completions == [op : {"read", "failed"}]
               \cup [op : {"written"}, packet : Packets, length : Packets]
Faults      == {"none", "freed memory sent", "front of an empty queue",
                "read index beyond write index"}

\* Types.  There are never more replies than requests, and no reply, write or
\* completion is beyond the bytes of its packet.
TypeOK == /\ client \in {"open", "finished", "reset"}
          /\ sent \in 0 .. MaxRequests
          /\ inbox \in 0 .. sent
          /\ received \in Seq(Bytes)
          /\ reading \in BOOLEAN
          /\ writes \in Seq([packet : Packets, from : 0 .. MaxRequests, length : Packets])
          /\ ready \in Seq(Completions)
          /\ packets \in Seq([id : Packets, read : 0 .. MaxRequests])
          /\ replies \in 0 .. sent
          /\ closed \in BOOLEAN
          /\ listed \in BOOLEAN
          /\ overlapped \in BOOLEAN
          /\ fault \in Faults

\* Where a byte stands in the stream of the packets 1, 2, ..., one after the other.
Place(byte) == TotalSize(byte[1] - 1) + byte[2]

\* As long as no write was started beside another, the client gets the replies
\* byte for byte, in order, with nothing lost or repeated, however the socket
\* cuts them, and the handlers meet no undefined behaviour: what the client has
\* is a prefix of the stream of the replies.
InOrder        == /\ Len(received) <= TotalSize(replies)
                  /\ \A i \in DOMAIN received :
                         /\ received[i][2] \in 1 .. Size(received[i][1])
                         /\ Place(received[i]) = i
StreamIntact   == ~overlapped => fault = "none" /\ InOrder

\* Until then a packet leaves the queue only when the client has got all of it.
Gone(p)        == p \in 1 .. replies /\ ~Held(p)
NoReplyDropped == ~overlapped => \A p \in Packets : Gone(p) => Len(received) >= TotalSize(p)

\* A reply that was queued is received, unless the connection is closed or two
\* writes overlap.
RepliesGoOut ==
    \A p \in Packets :
        replies = p ~> Len(received) >= TotalSize(p) \/ closed \/ overlapped

\* When the client has left, nothing keeps the session in the end: neither the
\* server's vector nor a pending operation.
Released    == ~listed /\ ~reading /\ writes = <<>> /\ ready = <<>>
NothingKept == client # "open" ~> Released \/ fault # "none"

\* The completion handler updates how much was read out of the packet it wrote.
UpdatesWhatItWrote ==
    \A i \in 1 .. Len(ready) :
        i <= IoThreads /\ ready[i].op = "written" =>
            packets # <<>> /\ packets[1].id = ready[i].packet
==============================================================================
