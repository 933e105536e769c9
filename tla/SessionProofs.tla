---------------------------- MODULE SessionProofs ----------------------------
(***************************************************************************)
(* Proofs about a session, for any number of threads and requests, whether *)
(* or not the client waits for its replies, and however the socket cuts    *)
(* what is written.                                                        *)
(***************************************************************************)
EXTENDS Session, SequenceTheorems, TLAPS

USE RequestsAssumption, ThreadsAssumption

-----------------------------------------------------------------------------
(* The sizes of the packets, and removing an element of a sequence.        *)

LEMMA TotalSizeStep ==
    ASSUME NEW n \in Nat
    PROVE  TotalSize(n) \in Nat /\ TotalSize(n + 1) = TotalSize(n) + n + 1
<1>1. PICK k \in Nat : n = 2 * k \/ n = 2 * k + 1
  <2>1. n \div 2 \in Nat /\ n % 2 \in {0, 1} /\ n = 2 * (n \div 2) + (n % 2)
    OBVIOUS
  <2> QED
    BY <2>1
<1>2. CASE n = 2 * k
  <2>1. n * (n + 1) = 2 * (k * (n + 1)) /\ (n + 1) * (n + 2) = 2 * (k * (n + 1) + n + 1)
    BY <1>2
  <2>2. k * (n + 1) \in Nat
    OBVIOUS
  <2> QED
    BY <2>1, <2>2 DEF TotalSize
<1>3. CASE n = 2 * k + 1
  <2>1. n * (n + 1) = 2 * (n * (k + 1)) /\ (n + 1) * (n + 2) = 2 * (n * (k + 1) + n + 1)
    BY <1>3
  <2>2. n * (k + 1) \in Nat
    OBVIOUS
  <2> QED
    BY <2>1, <2>2 DEF TotalSize
<1> QED
  BY <1>1, <1>2, <1>3

LEMMA TotalSizeMonotone ==
    ASSUME NEW m \in Nat, NEW n \in Nat, m <= n
    PROVE  TotalSize(m) <= TotalSize(n)
<1>1. m * (m + 1) <= n * (n + 1) /\ m * (m + 1) \in Nat /\ n * (n + 1) \in Nat
  OBVIOUS
<1> QED
  BY <1>1 DEF TotalSize

LEMMA RemoveAtProperties ==
    ASSUME NEW S, NEW s \in Seq(S), NEW i \in 1 .. Len(s)
    PROVE  /\ RemoveAt(s, i) \in Seq(S)
           /\ Len(RemoveAt(s, i)) = Len(s) - 1
           /\ \A k \in 1 .. Len(s) - 1 :
                  RemoveAt(s, i)[k] = IF k < i THEN s[k] ELSE s[k + 1]
<1> DEFINE a == SubSeq(s, 1, i - 1)
           b == SubSeq(s, i + 1, Len(s))
<1>1. a \in Seq(S) /\ Len(a) = i - 1 /\ \A k \in 1 .. i - 1 : a[k] = s[k]
  OBVIOUS
<1>2. b \in Seq(S) /\ Len(b) = Len(s) - i /\ \A k \in 1 .. Len(s) - i : b[k] = s[i + k]
  OBVIOUS
<1>3. /\ a \o b \in Seq(S)
      /\ Len(a \o b) = Len(s) - 1
      /\ \A k \in 1 .. Len(s) - 1 : (a \o b)[k] = IF k < i THEN s[k] ELSE s[k + 1]
  <2> HIDE DEF a, b
  <2>1. /\ a \o b \in Seq(S)
        /\ Len(a \o b) = Len(a) + Len(b)
        /\ \A k \in 1 .. Len(a) + Len(b) :
              (a \o b)[k] = IF k <= Len(a) THEN a[k] ELSE b[k - Len(a)]
    BY <1>1, <1>2, ConcatProperties
  <2> QED
    BY <1>1, <1>2, <2>1
<1> QED
  BY <1>3 DEF RemoveAt

\* The completions that are left when one has been taken are some of those
\* there were.
LEMMA PendingIsLeft ==
    ASSUME ready \in Seq(Completions), NEW i \in 1 .. Len(ready)
    PROVE  /\ Pending(i) \in Seq(Completions)
           /\ Len(Pending(i)) = Len(ready) - 1
           /\ \A k \in DOMAIN Pending(i) :
                  \E j \in DOMAIN ready \ {i} :
                      /\ Pending(i)[k] = ready[j]
                      /\ j = IF k < i THEN k ELSE k + 1
<1>1. /\ Pending(i) \in Seq(Completions)
      /\ Len(Pending(i)) = Len(ready) - 1
      /\ \A k \in 1 .. Len(ready) - 1 :
             Pending(i)[k] = IF k < i THEN ready[k] ELSE ready[k + 1]
  BY RemoveAtProperties DEF Pending
<1>2. ASSUME NEW k \in DOMAIN Pending(i)
      PROVE  \E j \in DOMAIN ready \ {i} :
                 Pending(i)[k] = ready[j] /\ j = IF k < i THEN k ELSE k + 1
  <2>1. k \in 1 .. Len(ready) - 1 /\ DOMAIN ready = 1 .. Len(ready)
    BY <1>1
  <2>2. CASE k < i
    BY <1>1, <2>1, <2>2
  <2>3. CASE ~(k < i)
    <3>1. k + 1 \in DOMAIN ready \ {i} /\ Pending(i)[k] = ready[k + 1]
      BY <1>1, <2>1, <2>3
    <3> QED
      BY <2>3, <3>1
  <2> QED
    BY <2>2, <2>3
<1> QED
  BY <1>1, <1>2

\* The same, of a name for what is left.
LEMMA LeftBehind ==
    ASSUME ready \in Seq(Completions), NEW i \in 1 .. Len(ready), NEW r, r = Pending(i)
    PROVE  /\ r \in Seq(Completions)
           /\ Len(r) = Len(ready) - 1
           /\ \A k \in DOMAIN r :
                  \E j \in DOMAIN ready : /\ j # i
                                        /\ r[k] = ready[j]
                                        /\ j = IF k < i THEN k ELSE k + 1
<1>1. /\ Pending(i) \in Seq(Completions)
      /\ Len(Pending(i)) = Len(ready) - 1
      /\ \A k \in DOMAIN Pending(i) :
             \E j \in DOMAIN ready \ {i} :
                 /\ Pending(i)[k] = ready[j]
                 /\ j = IF k < i THEN k ELSE k + 1
  BY PendingIsLeft
<1> QED
  BY <1>1

LEMMA PendingIsAllTheRest ==
    ASSUME ready \in Seq(Completions), NEW i \in 1 .. Len(ready), NEW j \in DOMAIN ready \ {i}
    PROVE  \E k \in DOMAIN Pending(i) : Pending(i)[k] = ready[j]
<1>1. /\ Pending(i) \in Seq(Completions)
      /\ Len(Pending(i)) = Len(ready) - 1
      /\ \A k \in 1 .. Len(ready) - 1 :
             Pending(i)[k] = IF k < i THEN ready[k] ELSE ready[k + 1]
  BY RemoveAtProperties DEF Pending
<1>2. j \in 1 .. Len(ready) /\ j # i /\ DOMAIN Pending(i) = 1 .. Len(ready) - 1
  BY <1>1
<1>3. CASE j < i
  <2>1. j \in DOMAIN Pending(i) /\ Pending(i)[j] = ready[j]
    BY <1>1, <1>2, <1>3
  <2> QED
    BY <2>1
<1>4. CASE ~(j < i)
  <2>1. j - 1 \in DOMAIN Pending(i) /\ ~(j - 1 < i) /\ (j - 1) + 1 = j
    BY <1>2, <1>4
  <2>2. Pending(i)[j - 1] = ready[j]
    BY <1>1, <1>2, <2>1
  <2> QED
    BY <2>1, <2>2
<1> QED
  BY <1>3, <1>4

-----------------------------------------------------------------------------
(* Types.  TypeOK is not inductive: that a reply has its request needs that *)
(* only one read is ever out, and that a write ends within its packet.      *)

\* A queued packet has something left to be read.
QueuedUnfinished == \A k \in DOMAIN packets : packets[k].read < packets[k].id

\* A write reaches to the end of its packet.
WritesToTheEnd == \A k \in DOMAIN writes : writes[k].from + writes[k].length = writes[k].packet

\* One read is out, or has completed, at a time; what it has brought is a
\* request that has no reply yet.
IsRead(i) == ready[i].op = "read"
OneRead   == /\ replies + inbox <= sent
             /\ \A i \in DOMAIN ready : IsRead(i) => ~reading /\ replies + inbox < sent
             /\ \A i, j \in DOMAIN ready : IsRead(i) /\ IsRead(j) => i = j

TypeInv == TypeOK /\ QueuedUnfinished /\ WritesToTheEnd /\ OneRead

LEMMA InitTypeInv == Init => TypeInv
<1> SUFFICES ASSUME Init PROVE TypeInv
  OBVIOUS
<1>1. TypeOK
  <2>1. received \in Seq(Bytes) /\ ready \in Seq(Completions)
    BY EmptySeq DEF Init
  <2>2. writes \in Seq([packet : Packets, from : 0 .. MaxRequests, length : Packets])
    BY EmptySeq DEF Init
  <2>3. packets \in Seq([id : Packets, read : 0 .. MaxRequests])
    BY EmptySeq DEF Init
  <2>4. /\ client \in {"open", "finished", "reset"} /\ fault \in Faults
        /\ reading \in BOOLEAN /\ closed \in BOOLEAN /\ listed \in BOOLEAN
        /\ overlapped \in BOOLEAN
    BY DEF Init, Faults
  <2>5. sent \in 0 .. MaxRequests /\ inbox \in 0 .. sent /\ replies \in 0 .. sent
    BY DEF Init
  <2> QED
    BY <2>1, <2>2, <2>3, <2>4, <2>5 DEF TypeOK
<1>2. QueuedUnfinished /\ WritesToTheEnd
  BY DEF Init, QueuedUnfinished, WritesToTheEnd
<1>3. OneRead
  BY DEF Init, OneRead, IsRead
<1> QED
  BY <1>1, <1>2, <1>3 DEF TypeInv

LEMMA RequestTypeInv == TypeInv /\ Request => TypeInv'
<1> SUFFICES ASSUME TypeInv, Request PROVE TypeInv'
  OBVIOUS
<1>1. TypeOK'
  BY DEF TypeInv, TypeOK, OneRead, Request, ioVars, sessionVars
<1>2. QueuedUnfinished' /\ WritesToTheEnd'
  BY DEF TypeInv, QueuedUnfinished, WritesToTheEnd, Request, ioVars, sessionVars
<1>3. OneRead'
  BY DEF TypeInv, TypeOK, OneRead, IsRead, Request, ioVars, sessionVars
<1> QED
  BY <1>1, <1>2, <1>3 DEF TypeInv

LEMMA LeaveTypeInv == TypeInv /\ (Leave \/ Erase) => TypeInv'
<1> SUFFICES ASSUME TypeInv, Leave \/ Erase PROVE TypeInv'
  OBVIOUS
<1>1. /\ client' \in {"open", "finished", "reset"} /\ listed' \in BOOLEAN
      /\ UNCHANGED <<sent, inbox, received, reading, writes, ready, packets, replies, closed,
                     overlapped, fault>>
  BY DEF TypeInv, TypeOK, Leave, Erase, ioVars, sessionVars
<1>2. TypeOK'
  BY <1>1 DEF TypeInv, TypeOK
<1>3. QueuedUnfinished' /\ WritesToTheEnd' /\ OneRead'
  BY <1>1 DEF TypeInv, QueuedUnfinished, WritesToTheEnd, OneRead, IsRead
<1> QED
  BY <1>2, <1>3 DEF TypeInv

LEMMA ReadCompletesTypeInv == TypeInv /\ ReadCompletes => TypeInv'
<1> SUFFICES ASSUME TypeInv, ReadCompletes PROVE TypeInv'
  OBVIOUS
<1> USE DEF TypeInv
<1>1. /\ reading /\ reading' = FALSE
      /\ UNCHANGED <<client, sent, received, writes, packets, replies, closed, listed,
                     overlapped, fault>>
  BY DEF ReadCompletes, sessionVars
<1>2. QueuedUnfinished' /\ WritesToTheEnd'
  BY <1>1 DEF QueuedUnfinished, WritesToTheEnd
<1>3. \A i \in DOMAIN ready : ~IsRead(i)
  BY <1>1 DEF OneRead
<1>4. CASE \E n \in 1 .. inbox : inbox' = inbox - n /\ ready' = Append(ready, [op |-> "read"])
  <2>1. PICK n \in 1 .. inbox : inbox' = inbox - n /\ ready' = Append(ready, [op |-> "read"])
    BY <1>4
  <2>2. /\ ready' \in Seq(Completions)
        /\ \A i \in DOMAIN ready' : \/ i \in DOMAIN ready /\ ready'[i] = ready[i]
                                    \/ i = Len(ready')
    BY <2>1 DEF TypeOK, Completions
  <2>3. inbox' \in 0 .. sent
    BY <2>1 DEF TypeOK
  <2>4. TypeOK'
    BY <1>1, <2>2, <2>3 DEF TypeOK
  <2>5. \A i \in DOMAIN ready' : IsRead(i)' => i = Len(ready')
    BY <1>3, <2>2 DEF IsRead
  <2>6. replies' + inbox' < sent' /\ replies' + inbox' <= sent'
    <3>1. replies \in Nat /\ inbox \in Nat /\ sent \in Nat /\ replies + inbox <= sent
      BY DEF TypeOK, OneRead
    <3>2. replies' = replies /\ sent' = sent /\ inbox' = inbox - n
      BY <1>1, <2>1
    <3> QED
      BY <2>1, <3>1, <3>2
  <2> QED
    BY <1>1, <1>2, <2>4, <2>5, <2>6 DEF OneRead
<1>5. CASE ready' = Append(ready, [op |-> "failed"]) /\ UNCHANGED inbox
  <2>1. /\ ready' \in Seq(Completions)
        /\ \A i \in DOMAIN ready' : \/ i \in DOMAIN ready /\ ready'[i] = ready[i]
                                    \/ ready'[i].op = "failed"
    BY <1>5 DEF TypeOK, Completions
  <2>2. TypeOK'
    BY <1>1, <1>5, <2>1 DEF TypeOK
  <2>3. \A i \in DOMAIN ready' : ~IsRead(i)'
    BY <1>3, <2>1 DEF IsRead
  <2>4. OneRead'
    BY <1>1, <1>5, <2>3 DEF OneRead
  <2> QED
    BY <1>2, <2>2, <2>4
<1> QED
  BY <1>4, <1>5 DEF ReadCompletes

LEMMA WriteCompletesTypeInv == TypeInv /\ WriteCompletes => TypeInv'
<1> SUFFICES ASSUME TypeInv, WriteCompletes PROVE TypeInv'
  OBVIOUS
<1> USE DEF TypeInv
<1> DEFINE w == Head(writes)
<1>1. /\ writes # <<>> /\ writes' = Tail(writes)
      /\ UNCHANGED <<client, sent, inbox, reading, packets, replies, closed, listed, overlapped>>
  BY DEF WriteCompletes, sessionVars
<1>2. /\ w \in [packet : Packets, from : 0 .. MaxRequests, length : Packets]
      /\ w.from + w.length = w.packet
  <2>1. writes \in Seq([packet : Packets, from : 0 .. MaxRequests, length : Packets])
    BY DEF TypeOK
  <2>2. 1 \in DOMAIN writes /\ w = writes[1]
    BY <1>1, <2>1
  <2>3. writes[1] \in [packet : Packets, from : 0 .. MaxRequests, length : Packets]
    <3> DEFINE W == [packet : Packets, from : 0 .. MaxRequests, length : Packets]
    <3> HIDE DEF W
    <3>1. writes \in Seq(W)
      BY <2>1 DEF W
    <3>2. writes[1] \in W
      BY <2>2, <3>1
    <3> QED
      BY <3>2 DEF W
  <2>4. writes[1].from + writes[1].length = writes[1].packet
    BY <2>2 DEF WritesToTheEnd
  <2> QED
    BY <2>2, <2>3, <2>4
<1>3. /\ writes' \in Seq([packet : Packets, from : 0 .. MaxRequests, length : Packets])
      /\ \A k \in DOMAIN writes' : k + 1 \in DOMAIN writes /\ writes'[k] = writes[k + 1]
  BY <1>1 DEF TypeOK
<1>4. QueuedUnfinished' /\ WritesToTheEnd'
  BY <1>1, <1>3 DEF QueuedUnfinished, WritesToTheEnd
<1>5. /\ ready' \in Seq(Completions)
      /\ \A i \in DOMAIN ready' : \/ i \in DOMAIN ready /\ ready'[i] = ready[i]
                                  \/ ready'[i].op # "read"
      /\ received' \in Seq(Bytes)
      /\ fault' \in Faults
  <2>1. CASE /\ UNCHANGED fault
             /\ \E n \in 1 .. w.length :
                 /\ received' = received \o [i \in 1 .. n |-> <<w.packet, w.from + i>>]
                 /\ ready' = Append(ready, [op |-> "written", packet |-> w.packet, length |-> n])
    <3>1. PICK n \in 1 .. w.length :
                 /\ received' = received \o [i \in 1 .. n |-> <<w.packet, w.from + i>>]
                 /\ ready' = Append(ready, [op |-> "written", packet |-> w.packet, length |-> n])
      BY <2>1
    <3> DEFINE taken == [i \in 1 .. n |-> <<w.packet, w.from + i>>]
               done  == [op |-> "written", packet |-> w.packet, length |-> n]
    <3>2. taken \in Seq(Bytes)
      BY <1>2 DEF Packets, Bytes
    <3>3. done \in Completions /\ done.op = "written"
      BY <1>2 DEF Completions, Packets
    <3> HIDE DEF taken, done
    <3>4. received' = received \o taken /\ ready' = Append(ready, done)
      BY <3>1 DEF taken, done
    <3>5. received' \in Seq(Bytes)
      BY <3>2, <3>4, ConcatProperties DEF TypeOK
    <3>6. /\ ready' \in Seq(Completions)
          /\ \A i \in DOMAIN ready' : \/ i \in DOMAIN ready /\ ready'[i] = ready[i]
                                      \/ ready'[i].op # "read"
      BY <3>3, <3>4 DEF TypeOK
    <3> QED
      BY <2>1, <3>5, <3>6 DEF TypeOK
  <2>2. CASE fault' = "freed memory sent" /\ UNCHANGED <<received, ready>>
    BY <2>2 DEF TypeOK, Faults
  <2>3. CASE ready' = Append(ready, [op |-> "failed"]) /\ UNCHANGED <<received, fault>>
    BY <2>3 DEF TypeOK, Completions
  <2> QED
    BY <2>1, <2>2, <2>3 DEF WriteCompletes
<1>6. TypeOK'
  BY <1>1, <1>3, <1>5 DEF TypeOK
<1>7. OneRead'
  BY <1>1, <1>5 DEF OneRead, IsRead
<1> QED
  BY <1>4, <1>6, <1>7

\* AsyncWrite on a queue of unfinished packets asks for what is left of the front.
LEMMA AsyncWriteTyped ==
    ASSUME TypeInv, NEW i \in DOMAIN ready,
           NEW q \in Seq([id : Packets, read : 0 .. MaxRequests]), q # <<>>,
           \A k \in DOMAIN q : q[k].read < q[k].id,
           AsyncWrite(i, q)
    PROVE  /\ writes' \in Seq([packet : Packets, from : 0 .. MaxRequests, length : Packets])
           /\ WritesToTheEnd'
           /\ overlapped' \in BOOLEAN
<1> DEFINE W == [packet : Packets, from : 0 .. MaxRequests, length : Packets]
           Q == [id : Packets, read : 0 .. MaxRequests]
           w == [packet |-> q[1].id, from |-> q[1].read, length |-> Readable(q[1])]
<1>1. 1 \in DOMAIN q /\ q[1].read < q[1].id
  OBVIOUS
<1>2. q[1] \in Q
  <2>1. q \in Seq(Q)
    OBVIOUS
  <2> HIDE DEF Q
  <2> QED
    BY <1>1, <2>1
<1>3. w \in W /\ w.from + w.length = w.packet
  BY <1>1, <1>2 DEF Readable, Size, Packets
<1>4. writes \in Seq(W) /\ \A k \in DOMAIN writes : writes[k].from + writes[k].length = writes[k].packet
  BY DEF TypeInv, TypeOK, WritesToTheEnd
<1>5. writes' = Append(writes, w)
  BY DEF AsyncWrite
<1> HIDE DEF W, w
<1>6. writes' \in Seq(W)
  BY <1>3, <1>4, <1>5
<1>7. \A k \in DOMAIN writes' : \/ k \in DOMAIN writes /\ writes'[k] = writes[k]
                               \/ writes'[k] = w
  BY <1>4, <1>5, <1>6
<1>8. WritesToTheEnd'
  BY <1>3, <1>4, <1>7 DEF WritesToTheEnd
<1>9. overlapped' \in BOOLEAN
  BY DEF AsyncWrite, Underway
<1> QED
  BY <1>6, <1>8, <1>9 DEF W

LEMMA OnReadTypeInv ==
    ASSUME TypeInv, NEW i \in 1 .. Len(ready), OnRead(i) PROVE TypeInv'
<1> USE DEF TypeInv
<1> DEFINE Q == [id : Packets, read : 0 .. MaxRequests]
           packet == [id |-> replies + 1, read |-> 0]
<1>1. /\ ready[i].op = "read" /\ ready' = Pending(i) /\ reading' = TRUE
      /\ replies' = replies + 1
      /\ packets' = Append(packets, packet)
      /\ UNCHANGED <<client, sent, inbox, received, closed, listed, fault>>
  BY DEF OnRead
<1>2. /\ ready \in Seq(Completions) /\ i \in DOMAIN ready
  BY DEF TypeOK
<1>3. replies + 1 \in 1 .. sent /\ replies + 1 \in Packets /\ replies + 1 + inbox <= sent
  BY <1>1, <1>2 DEF OneRead, IsRead, TypeOK, Packets
<1>4. packet \in Q /\ packet.read < packet.id
  BY <1>3 DEF Packets
<1>5. /\ packets' \in Seq(Q) /\ packets' # <<>>
      /\ \A k \in DOMAIN packets' : packets'[k].read < packets'[k].id
  <2> HIDE DEF packet
  <2>1. packets \in Seq(Q) /\ \A k \in DOMAIN packets : packets[k].read < packets[k].id
    BY DEF TypeOK, QueuedUnfinished
  <2> HIDE DEF Q
  <2>2. /\ packets' \in Seq(Q) /\ packets' # <<>>
        /\ \A k \in DOMAIN packets' : \/ k \in DOMAIN packets /\ packets'[k] = packets[k]
                                      \/ packets'[k] = packet
    BY <1>1, <1>4, <2>1
  <2> QED
    BY <1>4, <2>1, <2>2
<1>6. /\ writes' \in Seq([packet : Packets, from : 0 .. MaxRequests, length : Packets])
      /\ WritesToTheEnd'
      /\ overlapped' \in BOOLEAN
  BY <1>2, <1>5, AsyncWriteTyped DEF OnRead
<1>7. ready' \in Seq(Completions) /\ \A k \in DOMAIN ready' : ~IsRead(k)'
  <2>1. PICK p : p = Pending(i)
    OBVIOUS
  <2>2. /\ p \in Seq(Completions)
        /\ \A k \in DOMAIN p : \E j \in DOMAIN ready : j # i /\ p[k] = ready[j]
    BY <1>2, <2>1, LeftBehind
  <2>3. \A j \in DOMAIN ready \ {i} : ~IsRead(j)
    BY <1>1, <1>2 DEF OneRead, IsRead
  <2>4. ready' = p
    BY <1>1, <2>1
  <2> QED
    BY <2>2, <2>3, <2>4 DEF IsRead
<1>8. TypeOK'
  BY <1>1, <1>3, <1>5, <1>6, <1>7 DEF TypeOK
<1>9. OneRead'
  <2>1. replies' + inbox' <= sent'
    BY <1>1, <1>3
  <2> QED
    BY <1>7, <2>1 DEF OneRead
<1> QED
  BY <1>5, <1>6, <1>8, <1>9 DEF QueuedUnfinished

\* Taking a completion that is no read changes nothing for the reads.
LEMMA TakeOneRead ==
    ASSUME TypeInv, NEW i \in 1 .. Len(ready), ready[i].op # "read", ready' = Pending(i),
           UNCHANGED <<sent, inbox, reading, replies>>
    PROVE  ready' \in Seq(Completions) /\ OneRead'
<1> USE DEF TypeInv
<1>1. /\ ready \in Seq(Completions)
      /\ ready' \in Seq(Completions) /\ Len(ready') = Len(ready) - 1
      /\ \A k \in DOMAIN ready' :
            \E j \in DOMAIN ready : ready'[k] = ready[j] /\ j = IF k < i THEN k ELSE k + 1
  <2>1. ready \in Seq(Completions)
    BY DEF TypeOK
  <2>2. PICK p : p = Pending(i)
    OBVIOUS
  <2>3. p \in Seq(Completions) /\ Len(p) = Len(ready) - 1
    BY <2>1, <2>2, LeftBehind
  <2>4. \A k \in DOMAIN p :
            \E j \in DOMAIN ready : j # i /\ p[k] = ready[j] /\ j = IF k < i THEN k ELSE k + 1
    BY <2>1, <2>2, LeftBehind
  <2>5. ready' = p
    BY <2>2
  <2> QED
    BY <2>1, <2>3, <2>4, <2>5
<1>2. ASSUME NEW k \in DOMAIN ready', IsRead(k)' PROVE ~reading /\ replies + inbox < sent
  BY <1>1, <1>2 DEF OneRead, IsRead
<1>3. ASSUME NEW k \in DOMAIN ready', NEW l \in DOMAIN ready', IsRead(k)', IsRead(l)'
      PROVE  k = l
  <2>1. PICK j \in DOMAIN ready : ready'[k] = ready[j] /\ j = IF k < i THEN k ELSE k + 1
    BY <1>1
  <2>2. PICK m \in DOMAIN ready : ready'[l] = ready[m] /\ m = IF l < i THEN l ELSE l + 1
    BY <1>1
  <2>3. IsRead(j) /\ IsRead(m)
    BY <1>3, <2>1, <2>2 DEF IsRead
  <2>4. j = m
    BY <2>3 DEF OneRead
  <2>5. k \in 1 .. Len(ready') /\ l \in 1 .. Len(ready')
    BY <1>1
  <2> QED
    BY <2>1, <2>2, <2>4, <2>5
<1>4. replies' + inbox' <= sent'
  BY DEF OneRead
<1> QED
  BY <1>1, <1>2, <1>3, <1>4 DEF OneRead

\* A packet of which more is read.
LEMMA ReadOn ==
    ASSUME NEW p \in [id : Packets, read : 0 .. MaxRequests],
           NEW n \in Packets, p.read + n <= p.id
    PROVE  LET r == [p EXCEPT !.read = @ + n] IN
           /\ r \in [id : Packets, read : 0 .. MaxRequests]
           /\ r.id = p.id /\ r.read = p.read + n
<1>1. p.id \in Packets /\ p.read \in 0 .. MaxRequests
  OBVIOUS
<1>2. p.read + n \in 0 .. MaxRequests
  BY <1>1 DEF Packets
<1> QED
  BY <1>1, <1>2

\* What the handler of a write leaves in the queue: the rest of it, or all of it
\* with more of the front read.
LEMMA AfterWriteShape ==
    ASSUME packets \in Seq([id : Packets, read : 0 .. MaxRequests]), packets # <<>>,
           QueuedUnfinished,
           NEW n \in Packets, packets[1].read + n <= Size(packets[1].id)
    PROVE  LET q == AfterWrite(n) IN
           /\ q \in Seq([id : Packets, read : 0 .. MaxRequests])
           /\ \A k \in DOMAIN q : q[k].read < q[k].id
           /\ packets[1].read + n = packets[1].id =>
                 /\ Len(q) = Len(packets) - 1
                 /\ \A k \in 1 .. Len(packets) - 1 : q[k] = packets[k + 1]
           /\ packets[1].read + n # packets[1].id =>
                 /\ Len(q) = Len(packets)
                 /\ q[1].id = packets[1].id /\ q[1].read = packets[1].read + n
                 /\ \A k \in 2 .. Len(packets) : q[k] = packets[k]
<1> DEFINE Q == [id : Packets, read : 0 .. MaxRequests]
           front == [packets[1] EXCEPT !.read = @ + n]
           q == AfterWrite(n)
<1>1. packets[1] \in Q /\ packets[1].read < packets[1].id /\ 1 \in DOMAIN packets
  <2>1. packets \in Seq(Q) /\ 1 \in DOMAIN packets
    OBVIOUS
  <2> HIDE DEF Q
  <2> QED
    BY <2>1 DEF QueuedUnfinished
<1>2. CASE packets[1].read + n = packets[1].id
  <2>1. q = Tail(packets)
    BY <1>2 DEF AfterWrite, Size
  <2>2. q \in Seq(Q) /\ Len(q) = Len(packets) - 1
        /\ \A k \in 1 .. Len(packets) - 1 : q[k] = packets[k + 1] /\ k + 1 \in DOMAIN packets
    <3>1. packets \in Seq(Q)
      OBVIOUS
    <3> HIDE DEF Q, q
    <3> QED
      BY <2>1, <3>1
  <2>3. DOMAIN q = 1 .. Len(packets) - 1
    <3> HIDE DEF Q, q
    <3> QED
      BY <2>2
  <2> HIDE DEF q
  <2>4. \A k \in DOMAIN q : q[k].read < q[k].id
    BY <2>2, <2>3 DEF QueuedUnfinished
  <2> QED
    BY <1>2, <2>2, <2>4 DEF q
<1>3. CASE packets[1].read + n # packets[1].id
  <2>1. q = [packets EXCEPT ![1] = front]
    BY <1>3 DEF AfterWrite, Size
  <2>2. front \in Q /\ front.id = packets[1].id /\ front.read = packets[1].read + n
    BY <1>1, ReadOn DEF Size
  <2>3. front.read < front.id
    <3> HIDE DEF front
    <3> QED
      BY <1>1, <1>3, <2>2 DEF Size, Packets
  <2>4. /\ q \in Seq(Q) /\ Len(q) = Len(packets) /\ q[1] = front
        /\ \A k \in 2 .. Len(packets) : q[k] = packets[k] /\ k \in DOMAIN packets
        /\ \A k \in DOMAIN q : k = 1 \/ k \in 2 .. Len(packets)
    <3>1. packets \in Seq(Q) /\ front \in Q
      BY <2>2
    <3> HIDE DEF Q, q, front
    <3>2. q \in Seq(Q) /\ Len(q) = Len(packets) /\ q[1] = front
      BY <1>1, <2>1, <3>1
    <3>3. \A k \in 2 .. Len(packets) : q[k] = packets[k] /\ k \in DOMAIN packets
      BY <2>1, <3>1
    <3> QED
      BY <3>2, <3>3
  <2> HIDE DEF q, front
  <2>5. \A k \in DOMAIN q : q[k].read < q[k].id
    BY <2>3, <2>4 DEF QueuedUnfinished
  <2> QED
    BY <1>3, <2>2, <2>4, <2>5 DEF q
<1> QED
  BY <1>2, <1>3

\* A completed write is of a packet of the session and of some of its bytes.
LEMMA WrittenTyped ==
    ASSUME ready \in Seq(Completions), NEW i \in DOMAIN ready, ready[i].op = "written"
    PROVE  ready[i].packet \in Packets /\ ready[i].length \in Packets
<1>1. ready[i] \in Completions
  OBVIOUS
<1> QED
  BY <1>1 DEF Completions

LEMMA OnWrittenTypeInv ==
    ASSUME TypeInv, NEW i \in 1 .. Len(ready), OnWritten(i) PROVE TypeInv'
<1> USE DEF TypeInv
<1> DEFINE Q == [id : Packets, read : 0 .. MaxRequests]
           n == ready[i].length
<1>1. /\ ready[i].op = "written" /\ packets # <<>>
      /\ packets[1].read + n <= Size(packets[1].id)
      /\ ready' = Pending(i) /\ packets' = AfterWrite(n)
      /\ UNCHANGED <<client, sent, inbox, received, reading, replies, closed, listed, fault>>
  BY DEF OnWritten
<1>2. ready \in Seq(Completions) /\ i \in DOMAIN ready
  BY DEF TypeOK
<1>3. n \in Packets
  BY <1>1, <1>2, WrittenTyped
<1>4. packets' \in Seq(Q) /\ \A k \in DOMAIN packets' : packets'[k].read < packets'[k].id
  <2>1. packets \in Seq(Q)
    BY DEF TypeOK
  <2> HIDE DEF n
  <2> QED
    BY <1>1, <1>3, <2>1, AfterWriteShape
<1>5. /\ writes' \in Seq([packet : Packets, from : 0 .. MaxRequests, length : Packets])
      /\ WritesToTheEnd'
      /\ overlapped' \in BOOLEAN
  <2>1. CASE packets' # <<>>
    BY <1>2, <1>4, <2>1, AsyncWriteTyped DEF OnWritten, WriteNext
  <2>2. CASE packets' = <<>>
    BY <2>2 DEF OnWritten, WriteNext, NoWrite, TypeOK, WritesToTheEnd
  <2> QED
    BY <2>1, <2>2
<1>6. ready' \in Seq(Completions) /\ OneRead'
  BY <1>1, TakeOneRead
<1>7. TypeOK'
  BY <1>1, <1>4, <1>5, <1>6 DEF TypeOK
<1> QED
  BY <1>4, <1>5, <1>6, <1>7 DEF QueuedUnfinished

LEMMA OnWrittenFaultsTypeInv ==
    ASSUME TypeInv, NEW i \in 1 .. Len(ready), OnWrittenFaults(i) PROVE TypeInv'
<1> USE DEF TypeInv
<1>1. /\ ready[i].op # "read" /\ ready' = Pending(i) /\ fault' \in Faults
      /\ UNCHANGED <<client, sent, inbox, received, reading, writes, packets, replies, closed,
                     listed, overlapped>>
  BY DEF OnWrittenFaults, Faults, sessionVars
<1>2. ready' \in Seq(Completions) /\ OneRead'
  BY <1>1, TakeOneRead
<1>3. TypeOK'
  BY <1>1, <1>2 DEF TypeOK
<1> QED
  BY <1>1, <1>2, <1>3 DEF QueuedUnfinished, WritesToTheEnd

LEMMA OnFailedTypeInv ==
    ASSUME TypeInv, NEW i \in 1 .. Len(ready), OnFailed(i) PROVE TypeInv'
<1> USE DEF TypeInv
<1>1. /\ ready[i].op # "read" /\ ready' = Pending(i) /\ closed' \in BOOLEAN
      /\ UNCHANGED <<client, sent, inbox, received, reading, writes, packets, replies,
                     listed, overlapped, fault>>
  BY DEF OnFailed
<1>2. ready' \in Seq(Completions) /\ OneRead'
  BY <1>1, TakeOneRead
<1>3. TypeOK'
  BY <1>1, <1>2 DEF TypeOK
<1> QED
  BY <1>1, <1>2, <1>3 DEF QueuedUnfinished, WritesToTheEnd

LEMMA NextTypeInv == TypeInv /\ [Next]_vars => TypeInv'
<1> SUFFICES ASSUME TypeInv, [Next]_vars PROVE TypeInv'
  OBVIOUS
<1>1. CASE Request
  BY <1>1, RequestTypeInv
<1>2. CASE Leave \/ Erase
  BY <1>2, LeaveTypeInv
<1>3. CASE ReadCompletes
  BY <1>3, ReadCompletesTypeInv
<1>4. CASE WriteCompletes
  BY <1>4, WriteCompletesTypeInv
<1>5. CASE Handle
  BY <1>5, OnReadTypeInv, OnWrittenTypeInv, OnWrittenFaultsTypeInv, OnFailedTypeInv DEF Handle
<1>6. CASE UNCHANGED vars
  <2>1. TypeOK'
    BY <1>6 DEF vars, ioVars, sessionVars, TypeInv, TypeOK
  <2>2. QueuedUnfinished' /\ WritesToTheEnd' /\ OneRead'
    BY <1>6 DEF vars, ioVars, sessionVars, TypeInv, QueuedUnfinished, WritesToTheEnd, OneRead,
                IsRead
  <2> QED
    BY <2>1, <2>2 DEF TypeInv
<1> QED
  BY <1>1, <1>2, <1>3, <1>4, <1>5, <1>6 DEF Next, Server

\* The state stays within its types: there is a request for every reply, and no
\* write or completion is beyond the bytes of its packet.
THEOREM TypeCorrect == Spec => []TypeOK
<1>1. TypeInv => TypeOK
  BY DEF TypeInv
<1> QED
  BY <1>1, InitTypeInv, NextTypeInv, PTL DEF Spec

-----------------------------------------------------------------------------
(* The stream.  While no write has been started beside another, the queue   *)
(* holds the newest packets, only its front is partly read, the one write   *)
(* that is out is of the front, and the client has what the session has     *)
(* accounted for and the bytes of a completion that waits for its handler.  *)

IsWritten(i) == ready[i].op = "written"

\* One write is out, or has completed, at a time.
OneWrite == /\ Len(writes) <= 1
            /\ \A i \in DOMAIN ready : IsWritten(i) => writes = <<>>
            /\ \A i, j \in DOMAIN ready : IsWritten(i) /\ IsWritten(j) => i = j

NewestQueued == /\ Len(packets) <= replies
                /\ \A k \in DOMAIN packets : /\ packets[k].id = replies - Len(packets) + k
                                             /\ k > 1 => packets[k].read = 0

FrontIsOut ==
    /\ writes # <<>> => /\ packets # <<>>
                        /\ writes[1].packet = packets[1].id
                        /\ writes[1].from = packets[1].read
    /\ \A i \in DOMAIN ready :
           IsWritten(i) => /\ packets # <<>>
                           /\ ready[i].packet = packets[1].id
                           /\ packets[1].read + ready[i].length <= packets[1].id

\* What the session knows to have been sent.
Confirmed == TotalSize(replies - Len(packets)) + (IF packets = <<>> THEN 0 ELSE packets[1].read)

ReceivedIsConfirmed ==
    /\ (\A i \in DOMAIN ready : ~IsWritten(i)) => Len(received) = Confirmed
    /\ \A i \in DOMAIN ready : IsWritten(i) => Len(received) = Confirmed + ready[i].length

InPlace == \A i \in DOMAIN received : /\ received[i][2] \in 1 .. Size(received[i][1])
                                      /\ Place(received[i]) = i

Streaming == /\ fault = "none"
             /\ OneWrite
             /\ NewestQueued
             /\ FrontIsOut
             /\ ReceivedIsConfirmed
             /\ InPlace

StreamInv == ~overlapped => Streaming

LEMMA InitStreaming == Init => Streaming
<1> SUFFICES ASSUME Init PROVE Streaming
  OBVIOUS
<1>1. fault = "none" /\ OneWrite /\ NewestQueued /\ FrontIsOut /\ InPlace
  BY DEF Init, OneWrite, NewestQueued, FrontIsOut, InPlace, IsWritten
<1>2. ReceivedIsConfirmed
  <2>1. TotalSize(0) = 0
    BY DEF TotalSize
  <2> QED
    BY <2>1 DEF Init, ReceivedIsConfirmed, Confirmed, IsWritten
<1> QED
  BY <1>1, <1>2 DEF Streaming

\* A step that adds no write and no completed write leaves the stream as it is.
LEMMA StreamingKept ==
    ASSUME Streaming,
           \A i \in DOMAIN ready' : \/ i \in DOMAIN ready /\ ready'[i] = ready[i]
                                    \/ ready'[i].op # "written",
           \A i \in DOMAIN ready : i \in DOMAIN ready' /\ ready'[i] = ready[i],
           UNCHANGED <<received, writes, packets, replies, fault>>
    PROVE  Streaming'
<1> USE DEF Streaming
<1>1. \A i \in DOMAIN ready' : IsWritten(i)' => i \in DOMAIN ready /\ IsWritten(i)
                                                /\ ready'[i] = ready[i]
  BY DEF IsWritten
<1>2. \A i \in DOMAIN ready : IsWritten(i) => i \in DOMAIN ready' /\ IsWritten(i)'
  BY DEF IsWritten
<1>3. OneWrite'
  BY <1>1 DEF OneWrite
<1>4. NewestQueued' /\ InPlace'
  BY DEF NewestQueued, InPlace
<1>5. FrontIsOut'
  BY <1>1 DEF FrontIsOut
<1>6. ReceivedIsConfirmed'
  <2>1. Confirmed' = Confirmed
    BY DEF Confirmed
  <2> QED
    BY <1>1, <1>2, <2>1 DEF ReceivedIsConfirmed
<1> QED
  BY <1>3, <1>4, <1>5, <1>6

LEMMA ReadCompletesStreaming == TypeInv /\ Streaming /\ ReadCompletes => Streaming'
<1> SUFFICES ASSUME TypeInv, Streaming, ReadCompletes PROVE Streaming'
  OBVIOUS
<1>1. ready \in Seq(Completions)
  BY DEF TypeInv, TypeOK
<1>2. \/ ready' = Append(ready, [op |-> "read"])
      \/ ready' = Append(ready, [op |-> "failed"])
  BY DEF ReadCompletes
<1>3. /\ \A i \in DOMAIN ready' : \/ i \in DOMAIN ready /\ ready'[i] = ready[i]
                                  \/ ready'[i].op # "written"
      /\ \A i \in DOMAIN ready : i \in DOMAIN ready' /\ ready'[i] = ready[i]
  BY <1>1, <1>2
<1> QED
  BY <1>3, StreamingKept DEF ReadCompletes, sessionVars

LEMMA QuietStreaming ==
    Streaming /\ (Request \/ Leave \/ Erase \/ UNCHANGED vars) => Streaming'
<1> SUFFICES ASSUME Streaming, Request \/ Leave \/ Erase \/ UNCHANGED vars PROVE Streaming'
  OBVIOUS
<1>1. UNCHANGED <<received, writes, ready, packets, replies, fault>>
  BY DEF Request, Leave, Erase, vars, ioVars, sessionVars
<1> QED
  BY <1>1, StreamingKept

\* Where the session has got to: behind all packets before the front.
LEMMA ConfirmedOfFront ==
    ASSUME TypeInv, NewestQueued, packets # <<>>
    PROVE  /\ 1 \in DOMAIN packets /\ packets[1].id \in Nat \ {0} /\ packets[1].read \in Nat
           /\ packets[1].id <= replies
           /\ Confirmed = TotalSize(packets[1].id - 1) + packets[1].read
           /\ packets[1].read < packets[1].id
<1> DEFINE Q == [id : Packets, read : 0 .. MaxRequests]
<1>1. packets \in Seq(Q) /\ QueuedUnfinished /\ replies \in Nat
  BY DEF TypeInv, TypeOK
<1>2. packets[1] \in Q /\ 1 \in DOMAIN packets /\ Len(packets) \in Nat \ {0}
  <2> HIDE DEF Q
  <2> QED
    BY <1>1
<1>3. packets[1].id \in Nat \ {0} /\ packets[1].read \in Nat
  BY <1>2 DEF Packets
<1>4. packets[1].id = replies - Len(packets) + 1
  BY <1>2 DEF NewestQueued
<1>5. packets[1].id - 1 = replies - Len(packets) /\ packets[1].id <= replies
  BY <1>1, <1>2, <1>4
<1>6. Confirmed = TotalSize(packets[1].id - 1) + packets[1].read
  BY <1>5 DEF Confirmed
<1>7. packets[1].read < packets[1].id
  BY <1>1, <1>2 DEF QueuedUnfinished
<1> QED
  BY <1>2, <1>3, <1>5, <1>6, <1>7

LEMMA WriteCompletesStreaming == TypeInv /\ Streaming /\ WriteCompletes => Streaming'
<1> SUFFICES ASSUME TypeInv, Streaming, WriteCompletes PROVE Streaming'
  OBVIOUS
<1> USE DEF Streaming
<1> DEFINE w == Head(writes)
           W == [packet : Packets, from : 0 .. MaxRequests, length : Packets]
<1>1. /\ writes # <<>> /\ writes' = Tail(writes)
      /\ UNCHANGED <<packets, replies>>
  BY DEF WriteCompletes, sessionVars
<1>2. writes \in Seq(W) /\ ready \in Seq(Completions) /\ received \in Seq(Bytes)
  BY DEF TypeInv, TypeOK
<1>3. writes' = <<>> /\ w = writes[1] /\ w \in W /\ 1 \in DOMAIN writes
  <2> HIDE DEF W
  <2> QED
    BY <1>1, <1>2 DEF OneWrite
<1>4. \A i \in DOMAIN ready : ~IsWritten(i)
  BY <1>1 DEF OneWrite
<1>5. packets # <<>> /\ w.packet = packets[1].id /\ w.from = packets[1].read
  BY <1>1, <1>3 DEF FrontIsOut
<1>6. w.from + w.length = w.packet
  BY <1>3 DEF TypeInv, WritesToTheEnd
<1>7. /\ packets[1].id \in Nat \ {0} /\ packets[1].read \in Nat /\ 1 \in DOMAIN packets
      /\ Confirmed = TotalSize(packets[1].id - 1) + packets[1].read
  BY <1>5, ConfirmedOfFront
<1>8. Len(received) = Confirmed
  BY <1>4 DEF ReceivedIsConfirmed
<1>9. NewestQueued' /\ Confirmed' = Confirmed
  BY <1>1 DEF NewestQueued, Confirmed
<1>10. CASE /\ UNCHANGED fault
            /\ \E n \in 1 .. w.length :
                 /\ received' = received \o [i \in 1 .. n |-> <<w.packet, w.from + i>>]
                 /\ ready' = Append(ready, [op |-> "written", packet |-> w.packet, length |-> n])
  <2>1. PICK n \in 1 .. w.length :
               /\ received' = received \o [i \in 1 .. n |-> <<w.packet, w.from + i>>]
               /\ ready' = Append(ready, [op |-> "written", packet |-> w.packet, length |-> n])
    BY <1>10
  <2> DEFINE taken == [i \in 1 .. n |-> <<w.packet, w.from + i>>]
             done  == [op |-> "written", packet |-> w.packet, length |-> n]
  <2>m. PICK m \in Nat : m = Len(ready) + 1
    BY <1>2
  <2>2. /\ w.packet \in Nat \ {0} /\ w.from \in Nat /\ w.length \in Nat /\ n \in Nat \ {0}
        /\ n <= w.length /\ w.from + n <= w.packet
    <3>1. w.packet \in Packets /\ w.from \in 0 .. MaxRequests /\ w.length \in Packets
      BY <1>3
    <3> HIDE DEF w
    <3> QED
      BY <1>6, <2>1, <3>1 DEF Packets
  <2>3. done \in Completions /\ done.op = "written" /\ done.packet = w.packet /\ done.length = n
    BY <1>3, <2>1 DEF Completions, Packets
  <2>4. /\ taken \in Seq(Bytes) /\ Len(taken) = n
        /\ \A i \in 1 .. n : taken[i] = <<w.packet, w.from + i>>
    <3>1. w.packet \in Packets /\ w.from \in 0 .. MaxRequests
      BY <1>3
    <3>2. \A i \in 1 .. n : w.from + i \in Packets
      BY <2>2, <3>1 DEF Packets
    <3> HIDE DEF w
    <3> QED
      BY <2>2, <3>1, <3>2 DEF Bytes
  <2> HIDE DEF taken, done
  <2>5. received' = received \o taken /\ ready' = Append(ready, done)
    BY <2>1 DEF taken, done
  <2>6. /\ m \in DOMAIN ready' /\ ready'[m] = done
        /\ \A i \in DOMAIN ready' : i = m \/ (i \in DOMAIN ready /\ ready'[i] = ready[i])
    BY <1>2, <2>3, <2>5, <2>m
  <2>7. \A i \in DOMAIN ready' : IsWritten(i)' => i = m
    BY <1>4, <2>6 DEF IsWritten
  <2>8. OneWrite'
    BY <1>3, <2>7 DEF OneWrite
  <2>9. FrontIsOut'
    <3>1. packets'[1].read + n <= packets'[1].id
      BY <1>1, <1>5, <2>2
    <3>2. \A i \in DOMAIN ready' :
              IsWritten(i)' => ready'[i].packet = w.packet /\ ready'[i].length = n
      BY <2>3, <2>6, <2>7
    <3> HIDE DEF w
    <3> QED
      BY <1>1, <1>3, <1>5, <3>1, <3>2 DEF FrontIsOut
  <2>10. /\ Len(received') = Len(received) + n
         /\ \A i \in DOMAIN received' :
               \/ i \in DOMAIN received /\ received'[i] = received[i]
               \/ \E j \in 1 .. n : i = Len(received) + j /\ received'[i] = taken[j]
    <3>1. /\ received' \in Seq(Bytes) /\ Len(received') = Len(received) + n
          /\ \A i \in 1 .. Len(received) + n :
                received'[i] = IF i <= Len(received) THEN received[i] ELSE taken[i - Len(received)]
      BY <1>2, <2>4, <2>5, ConcatProperties
    <3>2. ASSUME NEW i \in DOMAIN received'
          PROVE  \/ i \in DOMAIN received /\ received'[i] = received[i]
                 \/ \E j \in 1 .. n : i = Len(received) + j /\ received'[i] = taken[j]
      <4>1. i \in 1 .. Len(received) + n /\ Len(received) \in Nat
        BY <1>2, <3>1
      <4>2. CASE i <= Len(received)
        BY <1>2, <3>1, <4>1, <4>2
      <4>3. CASE ~(i <= Len(received))
        <5>1. i - Len(received) \in 1 .. n /\ i = Len(received) + (i - Len(received))
          BY <2>2, <4>1, <4>3
        <5> QED
          BY <3>1, <4>1, <4>3, <5>1
      <4> QED
        BY <4>2, <4>3
    <3> QED
      BY <3>1, <3>2
  <2>11. ReceivedIsConfirmed'
    <3>1. Len(received') = Confirmed' + n
      BY <1>8, <1>9, <2>10
    <3>2. m \in DOMAIN ready' /\ IsWritten(m)' /\ ready'[m].length = n
      BY <2>3, <2>6 DEF IsWritten
    <3> QED
      BY <2>7, <3>1, <3>2 DEF ReceivedIsConfirmed
  <2>12. InPlace'
    <3>1. ASSUME NEW j \in 1 .. n
          PROVE  /\ taken[j][2] \in 1 .. Size(taken[j][1])
                 /\ Place(taken[j]) = Len(received) + j
      <4>1. taken[j][1] = w.packet /\ taken[j][2] = w.from + j
        BY <2>4
      <4>2. w.from + j \in 1 .. w.packet
        <5> HIDE DEF w
        <5> QED
          BY <2>2
      <4>3. Len(received) = TotalSize(w.packet - 1) + w.from
        BY <1>5, <1>7, <1>8
      <4>4. TotalSize(w.packet - 1) \in Nat
        <5>1. w.packet - 1 \in Nat
          <6> HIDE DEF w
          <6> QED
            BY <2>2
        <5> QED
          BY <5>1, TotalSizeStep
      <4> HIDE DEF w
      <4> QED
        BY <2>2, <4>1, <4>2, <4>3, <4>4 DEF Size, Place
    <3> QED
      BY <2>10, <3>1 DEF InPlace
  <2> QED
    BY <1>9, <1>10, <2>8, <2>9, <2>11, <2>12
<1>11. CASE ~Held(w.packet)
  BY <1>5, <1>7, <1>11 DEF Held
<1>12. CASE ready' = Append(ready, [op |-> "failed"]) /\ UNCHANGED <<received, fault>>
  <2>1. \A i \in DOMAIN ready' : ~IsWritten(i)'
    <3>1. \A i \in DOMAIN ready' : (i \in DOMAIN ready /\ ready'[i] = ready[i])
                                   \/ ready'[i].op = "failed"
      BY <1>2, <1>12
    <3> QED
      BY <1>4, <3>1 DEF IsWritten
  <2>2. InPlace'
    BY <1>12 DEF InPlace
  <2> QED
    BY <1>3, <1>8, <1>9, <1>12, <2>1, <2>2 DEF OneWrite, FrontIsOut, ReceivedIsConfirmed
<1> QED
  BY <1>10, <1>11, <1>12 DEF WriteCompletes

\* What is written next, when nothing else is, is the front of the queue.
LEMMA AsyncWriteOfFront ==
    ASSUME writes = <<>>, NEW i \in DOMAIN ready, NEW q, AsyncWrite(i, q)
    PROVE  /\ Len(writes') = 1
           /\ writes'[1].packet = q[1].id
           /\ writes'[1].from = q[1].read
  BY DEF AsyncWrite

\* A handler of a completion that is no write leaves the completed writes there are.
LEMMA WrittenLeft ==
    ASSUME ready \in Seq(Completions), NEW i \in 1 .. Len(ready),
           \A j \in DOMAIN ready \ {i} : ~IsWritten(j), ready' = Pending(i)
    PROVE  \A k \in DOMAIN ready' : ~IsWritten(k)'
  BY PendingIsLeft DEF IsWritten

LEMMA OnReadStreaming ==
    ASSUME TypeInv, Streaming, NEW i \in 1 .. Len(ready), OnRead(i), ~overlapped'
    PROVE  Streaming'
<1> USE DEF Streaming
<1> DEFINE Q == [id : Packets, read : 0 .. MaxRequests]
           packet == [id |-> replies + 1, read |-> 0]
<1>1. /\ ready[i].op = "read" /\ ready' = Pending(i)
      /\ replies' = replies + 1
      /\ packets' = Append(packets, packet)
      /\ AsyncWrite(i, packets')
      /\ UNCHANGED <<received, fault>>
  BY DEF OnRead
<1>2. /\ ready \in Seq(Completions) /\ i \in DOMAIN ready
      /\ packets \in Seq(Q) /\ replies \in Nat
  BY DEF TypeInv, TypeOK
<1>3. writes = <<>> /\ \A j \in DOMAIN ready : ~IsWritten(j)
  <2>1. ~Underway(i)
    BY <1>1 DEF AsyncWrite
  <2>2. writes = <<>> /\ \A k \in DOMAIN Pending(i) : Pending(i)[k].op # "written"
    BY <2>1 DEF Underway, ToSet
  <2>3. \A j \in DOMAIN ready \ {i} : \E k \in DOMAIN Pending(i) : Pending(i)[k] = ready[j]
    BY <1>2, PendingIsAllTheRest
  <2> QED
    BY <1>1, <2>2, <2>3 DEF IsWritten
<1>4. \A k \in DOMAIN ready' : ~IsWritten(k)'
  BY <1>1, <1>2, <1>3, WrittenLeft
<1>5. /\ Len(writes') = 1
      /\ writes'[1].packet = packets'[1].id
      /\ writes'[1].from = packets'[1].read
  BY <1>1, <1>2, <1>3, AsyncWriteOfFront
<1>6. /\ Len(packets') = Len(packets) + 1 /\ Len(packets) \in Nat
      /\ \A k \in DOMAIN packets' : \/ k \in 1 .. Len(packets) /\ packets'[k] = packets[k]
                                    \/ k = Len(packets) + 1 /\ packets'[k] = packet
      /\ packets # <<>> => packets'[1] = packets[1]
      /\ packets = <<>> => packets'[1] = packet
      /\ packets' # <<>>
  <2> HIDE DEF packet, Q
  <2> QED
    BY <1>1, <1>2
<1>7. NewestQueued'
  <2>1. Len(packets') <= replies'
    BY <1>1, <1>2, <1>6 DEF NewestQueued
  <2>2. ASSUME NEW k \in DOMAIN packets'
        PROVE  /\ packets'[k].id = replies' - Len(packets') + k
               /\ k > 1 => packets'[k].read = 0
    <3>1. CASE k \in 1 .. Len(packets) /\ packets'[k] = packets[k]
      <4>1. k \in DOMAIN packets
        BY <1>2, <3>1
      <4>2. packets[k].id = replies - Len(packets) + k /\ (k > 1 => packets[k].read = 0)
        BY <4>1 DEF NewestQueued
      <4> QED
        BY <1>1, <1>2, <1>6, <3>1, <4>2
    <3>2. CASE k = Len(packets) + 1 /\ packets'[k] = packet
      <4>1. replies' - Len(packets') + k = replies + 1
        BY <1>1, <1>2, <1>6, <3>2
      <4> QED
        BY <3>2, <4>1
    <3> QED
      BY <1>6, <3>1, <3>2
  <2> QED
    BY <2>1, <2>2 DEF NewestQueued
<1>8. FrontIsOut' /\ OneWrite'
  BY <1>4, <1>5, <1>6 DEF FrontIsOut, OneWrite
<1>9. ReceivedIsConfirmed'
  <2>1. Len(received) = Confirmed
    BY <1>3 DEF ReceivedIsConfirmed
  <2>2. replies' - Len(packets') = replies - Len(packets)
    BY <1>1, <1>2, <1>6
  <2>3. (IF packets' = <<>> THEN 0 ELSE packets'[1].read)
           = (IF packets = <<>> THEN 0 ELSE packets[1].read)
    BY <1>6
  <2>4. Confirmed' = Confirmed
    BY <2>2, <2>3 DEF Confirmed
  <2> QED
    BY <1>1, <1>4, <2>1, <2>4 DEF ReceivedIsConfirmed
<1>10. InPlace'
  BY <1>1 DEF InPlace
<1> QED
  BY <1>1, <1>7, <1>8, <1>9, <1>10

LEMMA OnWrittenStreaming ==
    ASSUME TypeInv, Streaming, NEW i \in 1 .. Len(ready), OnWritten(i) PROVE Streaming'
<1> USE DEF Streaming
<1> DEFINE Q == [id : Packets, read : 0 .. MaxRequests]
<1>1. /\ ready[i].op = "written" /\ packets # <<>> /\ ready' = Pending(i)
      /\ packets[1].read + ready[i].length <= Size(packets[1].id)
      /\ packets' = AfterWrite(ready[i].length)
      /\ WriteNext(i, packets')
      /\ UNCHANGED <<received, replies, fault>>
  BY DEF OnWritten
<1>2. /\ ready \in Seq(Completions) /\ i \in DOMAIN ready /\ IsWritten(i)
      /\ packets \in Seq(Q) /\ replies \in Nat /\ QueuedUnfinished
  BY <1>1 DEF TypeInv, TypeOK, IsWritten
<1>3. PICK n \in Packets : n = ready[i].length
  BY <1>1, <1>2, WrittenTyped
<1>4. writes = <<>> /\ \A j \in DOMAIN ready \ {i} : ~IsWritten(j)
  BY <1>2 DEF OneWrite
<1>5. \A k \in DOMAIN ready' : ~IsWritten(k)'
  BY <1>1, <1>2, <1>4, WrittenLeft
<1>6. Len(received) = Confirmed + n
  BY <1>2, <1>3 DEF ReceivedIsConfirmed
<1>7. /\ packets[1].id \in Nat \ {0} /\ packets[1].read \in Nat /\ packets[1].id <= replies
      /\ Confirmed = TotalSize(packets[1].id - 1) + packets[1].read
      /\ packets[1].id = replies - Len(packets) + 1
      /\ \A k \in DOMAIN packets : packets[k].id = replies - Len(packets) + k
                                   /\ (k > 1 => packets[k].read = 0)
  BY <1>1, <1>2, ConfirmedOfFront DEF NewestQueued
<1>8. /\ packets' \in Seq(Q)
      /\ packets[1].read + n = packets[1].id =>
            /\ Len(packets') = Len(packets) - 1
            /\ \A k \in 1 .. Len(packets) - 1 : packets'[k] = packets[k + 1]
      /\ packets[1].read + n # packets[1].id =>
            /\ Len(packets') = Len(packets)
            /\ packets'[1].id = packets[1].id /\ packets'[1].read = packets[1].read + n
            /\ \A k \in 2 .. Len(packets) : packets'[k] = packets[k]
  BY <1>1, <1>2, <1>3, AfterWriteShape
<1>9. Len(packets) \in Nat \ {0} /\ DOMAIN packets = 1 .. Len(packets)
      /\ DOMAIN packets' = 1 .. Len(packets') /\ n \in Nat
  <2> HIDE DEF Q
  <2> QED
    BY <1>1, <1>2, <1>8 DEF Packets
<1>10. NewestQueued' /\ Len(received') = Confirmed'
  <2>1. CASE packets[1].read + n = packets[1].id
    <3>1. /\ Len(packets') = Len(packets) - 1
          /\ \A k \in 1 .. Len(packets) - 1 : packets'[k] = packets[k + 1]
      BY <1>8, <2>1
    <3>2. ASSUME NEW k \in DOMAIN packets'
          PROVE  packets'[k].id = replies - (Len(packets) - 1) + k /\ packets'[k].read = 0
      <4>1. k \in 1 .. Len(packets) - 1 /\ k + 1 \in DOMAIN packets /\ k + 1 > 1 /\ k \in Nat
        BY <1>9, <3>1
      <4>2. /\ packets[k + 1].id = replies - Len(packets) + (k + 1) /\ packets[k + 1].read = 0
            /\ packets'[k] = packets[k + 1]
        BY <1>7, <3>1, <4>1
      <4> QED
        BY <1>2, <1>9, <4>1, <4>2
    <3>3. NewestQueued'
      <4>1. Len(packets') <= replies'
        BY <1>1, <1>2, <1>9, <3>1 DEF NewestQueued
      <4> QED
        BY <1>1, <3>1, <3>2, <4>1 DEF NewestQueued
    <3>4. Confirmed' = TotalSize(packets[1].id)
      <4>1. replies' - Len(packets') = packets[1].id
        <5>1. replies' = replies /\ Len(packets') = Len(packets) - 1
          BY <1>1, <3>1
        <5>2. packets[1].id = replies - Len(packets) + 1 /\ Len(packets) \in Nat /\ replies \in Nat
          BY <1>2, <1>7, <1>9
        <5>3. replies - (Len(packets) - 1) = packets[1].id
          BY <5>2
        <5> QED
          BY <5>1, <5>3
      <4>2. packets' # <<>> => packets'[1].read = 0
        <5>1. packets' # <<>> => 1 \in DOMAIN packets'
          <6> HIDE DEF Q
          <6> QED
            BY <1>8
        <5> QED
          BY <3>2, <5>1
      <4>3. TotalSize(packets[1].id) \in Nat
        BY <1>7, TotalSizeStep
      <4> QED
        BY <4>1, <4>2, <4>3 DEF Confirmed
    <3>5. TotalSize(packets[1].id) = TotalSize(packets[1].id - 1) + packets[1].id
      <4>1. packets[1].id - 1 \in Nat /\ (packets[1].id - 1) + 1 = packets[1].id
        BY <1>7
      <4>2. /\ TotalSize(packets[1].id - 1) \in Nat
            /\ TotalSize((packets[1].id - 1) + 1)
                  = TotalSize(packets[1].id - 1) + (packets[1].id - 1) + 1
        BY <4>1, TotalSizeStep
      <4> QED
        BY <1>7, <4>1, <4>2
    <3>6. TotalSize(packets[1].id - 1) \in Nat
      <4>1. packets[1].id - 1 \in Nat
        BY <1>7
      <4> QED
        BY <4>1, TotalSizeStep
    <3> QED
      BY <1>1, <1>6, <1>7, <1>9, <2>1, <3>3, <3>4, <3>5, <3>6
  <2>2. CASE packets[1].read + n # packets[1].id
    <3>1. /\ Len(packets') = Len(packets)
          /\ packets'[1].id = packets[1].id /\ packets'[1].read = packets[1].read + n
          /\ \A k \in 2 .. Len(packets) : packets'[k] = packets[k]
      BY <1>8, <2>2
    <3>2. ASSUME NEW k \in DOMAIN packets'
          PROVE  packets'[k].id = replies - Len(packets) + k /\ (k > 1 => packets'[k].read = 0)
      <4>1. k \in DOMAIN packets /\ (k = 1 \/ k \in 2 .. Len(packets))
        BY <1>9, <3>1
      <4> QED
        BY <1>7, <3>1, <4>1
    <3>3. NewestQueued'
      BY <1>1, <3>1, <3>2 DEF NewestQueued
    <3>4. Confirmed' = TotalSize(packets[1].id - 1) + (packets[1].read + n)
      <4>1. replies' - Len(packets') = packets[1].id - 1
        <5>1. replies' = replies /\ Len(packets') = Len(packets)
          BY <1>1, <3>1
        <5>2. packets[1].id = replies - Len(packets) + 1 /\ Len(packets) \in Nat /\ replies \in Nat
          BY <1>2, <1>7, <1>9
        <5>3. replies - Len(packets) = packets[1].id - 1
          BY <5>2
        <5> QED
          BY <5>1, <5>3
      <4>2. packets' # <<>>
        BY <1>8, <1>9, <3>1
      <4> QED
        BY <3>1, <4>1, <4>2 DEF Confirmed
    <3>5. TotalSize(packets[1].id - 1) \in Nat
      <4>1. packets[1].id - 1 \in Nat
        BY <1>7
      <4> QED
        BY <4>1, TotalSizeStep
    <3> QED
      BY <1>1, <1>6, <1>7, <1>9, <3>3, <3>4, <3>5
  <2> QED
    BY <2>1, <2>2
<1>11. FrontIsOut' /\ OneWrite'
  <2>1. CASE packets' # <<>>
    <3>1. /\ Len(writes') = 1
          /\ writes'[1].packet = packets'[1].id
          /\ writes'[1].from = packets'[1].read
      BY <1>1, <1>2, <1>4, <2>1, AsyncWriteOfFront DEF WriteNext
    <3> QED
      BY <1>5, <2>1, <3>1 DEF FrontIsOut, OneWrite
  <2>2. CASE packets' = <<>>
    <3>1. writes' = <<>>
      BY <1>1, <1>4, <2>2 DEF WriteNext, NoWrite
    <3> QED
      BY <1>5, <3>1 DEF FrontIsOut, OneWrite
  <2> QED
    BY <2>1, <2>2
<1>12. ReceivedIsConfirmed' /\ InPlace'
  BY <1>1, <1>5, <1>10 DEF ReceivedIsConfirmed, InPlace
<1> QED
  BY <1>1, <1>10, <1>11, <1>12

\* As long as one write is out at a time, the handler of a write is never wrong
\* about the front of the queue.
LEMMA OnWrittenNeverFaults ==
    ASSUME TypeInv, Streaming, NEW i \in 1 .. Len(ready) PROVE ~OnWrittenFaults(i)
<1> SUFFICES ASSUME OnWrittenFaults(i) PROVE FALSE
  OBVIOUS
<1>1. i \in DOMAIN ready /\ IsWritten(i)
  <2>1. ready \in Seq(Completions)
    BY DEF TypeInv, TypeOK
  <2>2. i \in DOMAIN ready
    BY <2>1
  <2>3. ready[i].op = "written"
    BY DEF OnWrittenFaults
  <2> QED
    BY <2>2, <2>3 DEF IsWritten
<1>2. packets # <<>> /\ packets[1].read + ready[i].length <= packets[1].id
  BY <1>1 DEF Streaming, FrontIsOut
<1>3. /\ packets[1].read \in Nat /\ packets[1].id \in Nat
  BY <1>2, ConfirmedOfFront DEF Streaming
<1>4. ready[i].length \in Nat
  BY <1>1, WrittenTyped DEF TypeInv, TypeOK, IsWritten, Packets
<1>5. packets[1].read + ready[i].length > packets[1].id
  BY <1>2 DEF OnWrittenFaults, Size
<1> QED
  BY <1>2, <1>3, <1>4, <1>5

LEMMA OnFailedStreaming ==
    ASSUME TypeInv, Streaming, NEW i \in 1 .. Len(ready), OnFailed(i) PROVE Streaming'
<1> USE DEF Streaming
<1>1. /\ ready[i].op = "failed" /\ ready' = Pending(i)
      /\ UNCHANGED <<received, writes, packets, replies, fault>>
  BY DEF OnFailed
<1>2. ready \in Seq(Completions) /\ i \in DOMAIN ready
  BY DEF TypeInv, TypeOK
<1>3. \A k \in DOMAIN ready' :
          \E j \in DOMAIN ready : ready'[k] = ready[j] /\ j = IF k < i THEN k ELSE k + 1
  <2> HIDE DEF Streaming
  <2>1. PICK p : p = Pending(i)
    OBVIOUS
  <2>2. \A k \in DOMAIN p :
            \E j \in DOMAIN ready : j # i /\ p[k] = ready[j] /\ j = IF k < i THEN k ELSE k + 1
    <3>1. ready \in Seq(Completions)
      BY <1>2
    <3> QED
      BY <2>1, <3>1, LeftBehind
  <2> QED
    BY <1>1, <2>1, <2>2
<1>4. \A j \in DOMAIN ready : IsWritten(j) => \E k \in DOMAIN ready' : ready'[k] = ready[j]
  BY <1>1, <1>2, PendingIsAllTheRest DEF IsWritten
<1>5. OneWrite'
  <2>1. ASSUME NEW k \in DOMAIN ready', NEW l \in DOMAIN ready', IsWritten(k)', IsWritten(l)'
        PROVE  k = l
    <3>1. PICK j \in DOMAIN ready : ready'[k] = ready[j] /\ j = IF k < i THEN k ELSE k + 1
      BY <1>3
    <3>2. PICK m \in DOMAIN ready : ready'[l] = ready[m] /\ m = IF l < i THEN l ELSE l + 1
      BY <1>3
    <3>3. j = m
      BY <2>1, <3>1, <3>2 DEF OneWrite, IsWritten
    <3>4. ready' \in Seq(Completions)
      BY <1>1, <1>2, PendingIsLeft
    <3>5. k \in Nat /\ l \in Nat
      BY <3>4
    <3> QED
      BY <3>1, <3>2, <3>3, <3>5
  <2>2. \A k \in DOMAIN ready' : IsWritten(k)' => writes' = <<>>
    BY <1>1, <1>3 DEF OneWrite, IsWritten
  <2> QED
    BY <1>1, <2>1, <2>2 DEF OneWrite
<1>6. NewestQueued' /\ InPlace'
  BY <1>1 DEF NewestQueued, InPlace
<1>7. FrontIsOut'
  BY <1>1, <1>3 DEF FrontIsOut, IsWritten
<1>8. ReceivedIsConfirmed'
  <2>1. Confirmed' = Confirmed
    BY <1>1 DEF Confirmed
  <2>2. (\A k \in DOMAIN ready' : ~IsWritten(k)') => \A j \in DOMAIN ready : ~IsWritten(j)
    BY <1>4 DEF IsWritten
  <2>3. \A k \in DOMAIN ready' : IsWritten(k)' =>
            \E j \in DOMAIN ready : IsWritten(j) /\ ready[j].length = ready'[k].length
    BY <1>3 DEF IsWritten
  <2> QED
    BY <1>1, <2>1, <2>2, <2>3 DEF ReceivedIsConfirmed
<1> QED
  BY <1>1, <1>5, <1>6, <1>7, <1>8

LEMMA NextStreamInv == TypeInv /\ StreamInv /\ [Next]_vars => StreamInv'
<1> SUFFICES ASSUME TypeInv, StreamInv, [Next]_vars, ~overlapped' PROVE Streaming'
  BY DEF StreamInv
<1>1. CASE Request \/ Leave \/ Erase \/ UNCHANGED vars
  <2>1. ~overlapped
    BY <1>1 DEF Request, Leave, Erase, vars
  <2> QED
    BY <1>1, <2>1, QuietStreaming DEF StreamInv
<1>2. CASE ReadCompletes
  BY <1>2, ReadCompletesStreaming DEF StreamInv, ReadCompletes
<1>3. CASE WriteCompletes
  BY <1>3, WriteCompletesStreaming DEF StreamInv, WriteCompletes
<1>4. CASE Handle
  <2>1. PICK i \in 1 .. Len(ready) :
            OnRead(i) \/ OnWritten(i) \/ OnWrittenFaults(i) \/ OnFailed(i)
    BY <1>4 DEF Handle
  <2>2. ~overlapped
    BY <2>1 DEF OnRead, OnWritten, OnWrittenFaults, OnFailed, WriteNext, AsyncWrite, NoWrite
  <2> QED
    BY <2>1, <2>2, OnReadStreaming, OnWrittenStreaming, OnWrittenNeverFaults, OnFailedStreaming
       DEF StreamInv
<1> QED
  BY <1>1, <1>2, <1>3, <1>4 DEF Next, Server

LEMMA StreamInvariant == Spec => [](TypeInv /\ StreamInv)
<1>1. Init => TypeInv /\ StreamInv
  BY InitTypeInv, InitStreaming DEF StreamInv
<1>2. TypeInv /\ StreamInv /\ [Next]_vars => TypeInv' /\ StreamInv'
  BY NextTypeInv, NextStreamInv
<1> QED
  BY <1>1, <1>2, PTL DEF Spec

\* What is out is no more than the replies, and no less than the packets gone.
LEMMA ReceivedBounds ==
    ASSUME TypeInv, Streaming
    PROVE  /\ Len(received) <= TotalSize(replies)
           /\ Len(received) >= TotalSize(replies - Len(packets))
<1> USE DEF Streaming
<1> DEFINE sure == TotalSize(replies - Len(packets))
<1>1. /\ replies \in Nat /\ Len(packets) \in Nat /\ replies - Len(packets) \in Nat
      /\ Len(received) \in Nat
  BY DEF TypeInv, TypeOK, NewestQueued
<1>2. sure \in Nat
  BY <1>1, TotalSizeStep
<1>3. CASE packets = <<>>
  <2>1. replies - Len(packets) = replies /\ Confirmed = TotalSize(replies)
    <3>1. Len(packets) = 0
      BY <1>3
    <3>2. replies - Len(packets) = replies
      BY <1>1, <3>1
    <3> QED
      BY <1>2, <1>3, <3>2 DEF Confirmed
  <2>2. \A i \in DOMAIN ready : ~IsWritten(i)
    BY <1>3 DEF FrontIsOut
  <2>3. Len(received) = TotalSize(replies)
    BY <2>1, <2>2 DEF ReceivedIsConfirmed
  <2> QED
    BY <1>1, <1>2, <2>1, <2>3
<1>4. CASE packets # <<>>
  <2> DEFINE p == packets[1].id
  <2>1. /\ p \in Nat \ {0} /\ packets[1].read \in Nat /\ packets[1].read < p
        /\ p <= replies /\ Confirmed = TotalSize(p - 1) + packets[1].read
    BY <1>4, ConfirmedOfFront
  <2>2. p - 1 = replies - Len(packets)
    <3>1. p = replies - Len(packets) + 1
      BY <1>4 DEF NewestQueued, TypeInv, TypeOK
    <3> QED
      BY <1>1, <3>1
  <2>3. /\ TotalSize(p - 1) \in Nat
        /\ TotalSize(p) = TotalSize(p - 1) + p
    <3>1. p - 1 \in Nat /\ (p - 1) + 1 = p
      BY <2>1
    <3>2. TotalSize((p - 1) + 1) = TotalSize(p - 1) + (p - 1) + 1 /\ TotalSize(p - 1) \in Nat
      BY <3>1, TotalSizeStep
    <3> QED
      BY <2>1, <3>1, <3>2
  <2>4. TotalSize(p) <= TotalSize(replies) /\ TotalSize(replies) \in Nat
    BY <1>1, <2>1, TotalSizeMonotone, TotalSizeStep
  <2>5. /\ Len(received) >= TotalSize(p - 1)
        /\ Len(received) <= TotalSize(p - 1) + p
    <3>1. CASE \A i \in DOMAIN ready : ~IsWritten(i)
      <4>1. Len(received) = TotalSize(p - 1) + packets[1].read
        BY <2>1, <3>1 DEF ReceivedIsConfirmed
      <4> HIDE DEF p
      <4> QED
        BY <2>1, <2>3, <4>1
    <3>2. ASSUME NEW i \in DOMAIN ready, IsWritten(i)
          PROVE  /\ Len(received) >= TotalSize(p - 1)
                 /\ Len(received) <= TotalSize(p - 1) + p
      <4>1. ready[i].length \in Nat
        BY <3>2, WrittenTyped DEF TypeInv, TypeOK, IsWritten, Packets
      <4>2. packets[1].read + ready[i].length <= p
        BY <3>2 DEF FrontIsOut
      <4>3. Len(received) = TotalSize(p - 1) + packets[1].read + ready[i].length
        BY <2>1, <3>2 DEF ReceivedIsConfirmed
      <4> HIDE DEF p
      <4> QED
        BY <2>1, <2>3, <4>1, <4>2, <4>3
    <3> QED
      BY <3>1, <3>2
  <2>6. Len(received) >= sure
    BY <2>2, <2>5
  <2>7. Len(received) <= TotalSize(replies)
    <3> HIDE DEF p
    <3> QED
      BY <1>1, <2>1, <2>3, <2>4, <2>5
  <2> QED
    BY <2>6, <2>7
<1> QED
  BY <1>3, <1>4

\* The client gets the replies byte for byte and in order, and no handler meets
\* undefined behaviour, as long as no write is started beside another.
THEOREM StreamIsIntact == Spec => []StreamIntact
<1>1. TypeInv /\ StreamInv => StreamIntact
  <2> SUFFICES ASSUME TypeInv, Streaming PROVE fault = "none" /\ InOrder
    BY DEF StreamInv, StreamIntact
  <2> QED
    BY ReceivedBounds DEF Streaming, InPlace, InOrder
<1> QED
  BY <1>1, StreamInvariant, PTL

\* A packet leaves the queue only when the client has got all of it.
THEOREM NoReplyIsDropped == Spec => []NoReplyDropped
<1>1. TypeInv /\ StreamInv => NoReplyDropped
  <2> SUFFICES ASSUME TypeInv, Streaming, NEW p \in Packets, Gone(p)
               PROVE  Len(received) >= TotalSize(p)
    BY DEF StreamInv, NoReplyDropped
  <2>1. /\ replies \in Nat /\ Len(packets) \in Nat /\ p \in Nat /\ Len(received) \in Nat
        /\ DOMAIN packets = 1 .. Len(packets) /\ p \in 1 .. replies
    BY DEF TypeInv, TypeOK, Gone, Packets
  <2>2. p <= replies - Len(packets) /\ replies - Len(packets) \in Nat
    <3>1. CASE p <= replies - Len(packets)
      BY <2>1, <3>1
    <3>2. CASE ~(p <= replies - Len(packets))
      <4> DEFINE k == p - (replies - Len(packets))
      <4>1. k \in DOMAIN packets /\ replies - Len(packets) + k = p
        BY <2>1, <3>2
      <4>2. packets[k].id = p
        BY <4>1 DEF Streaming, NewestQueued
      <4> QED
        BY <4>1, <4>2 DEF Gone, Held
    <3> QED
      BY <3>1, <3>2
  <2>3. /\ TotalSize(p) <= TotalSize(replies - Len(packets))
        /\ TotalSize(p) \in Nat /\ TotalSize(replies - Len(packets)) \in Nat
    BY <2>1, <2>2, TotalSizeMonotone, TotalSizeStep
  <2>4. Len(received) >= TotalSize(replies - Len(packets))
    BY ReceivedBounds
  <2> QED
    BY <2>1, <2>3, <2>4
<1> QED
  BY <1>1, StreamInvariant, PTL

\* Of the completion that the overlapping writes confuse: while there are none,
\* a handler updates the packet that its write was of.
THEOREM NoOverlapUpdatesWhatItWrote == Spec => [](~overlapped => UpdatesWhatItWrote)
<1>1. TypeInv /\ StreamInv => (~overlapped => UpdatesWhatItWrote)
  <2> SUFFICES ASSUME TypeInv, Streaming PROVE UpdatesWhatItWrote
    BY DEF StreamInv
  <2>1. DOMAIN ready = 1 .. Len(ready)
    BY DEF TypeInv, TypeOK
  <2> QED
    BY <2>1 DEF Streaming, FrontIsOut, IsWritten, UpdatesWhatItWrote
<1> QED
  BY <1>1, StreamInvariant, PTL
==============================================================================
