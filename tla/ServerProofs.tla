----------------------------- MODULE ServerProofs -----------------------------
(***************************************************************************)
(* Proofs about Server and the queries in flight that it polls, for every  *)
(* number of clients, queries and continuations: its chain of updates, the *)
(* queries and their continuations as the vector moves them, and types.    *)
(***************************************************************************)
EXTENDS Server, TLAPS, FiniteSetTheorems, SequenceTheorems, WellFoundedInduction

Steps == {"idle", "update", "processing", "erasing", "emplacing", "adding", "asleep"}

\* The counters are natural numbers and every thread is at one step: all that
\* the chain of updates needs of the types.
ChainType == /\ armed \in Nat
             /\ fired \in Nat
             /\ pc \in [Threads -> Steps]

ChainInv == ChainType /\ OneTimerChain

\* The threads that renew the wait are a finite set.
LEMMA RenewingFinite ==
  ASSUME NEW S \in SUBSET Threads
  PROVE  IsFiniteSet(S) /\ Cardinality(S) \in Nat
<1>1. IsFiniteSet({Main}) /\ IsFiniteSet({Net})
  BY FS_Singleton
<1>2. IsFiniteSet({Main} \cup {Net})
  BY <1>1, FS_Union
<1>3. Threads = {Main} \cup {Net}
  BY DEF Threads
<1> QED BY <1>2, <1>3, FS_Subset, FS_CardinalityType

LEMMA ChainInit == ServerInit => ChainInv
<1> SUFFICES ASSUME ServerInit PROVE ChainInv
  OBVIOUS
<1>1. ChainType
  BY DEF ServerInit, ChainType, Steps
<1>2. Renewing = {}
  BY DEF ServerInit, Renewing
<1>3. Cardinality(Renewing) = 0
  BY <1>2, FS_EmptySet
<1> QED BY <1>1, <1>3 DEF ChainInv, OneTimerChain, ServerInit

\* A step that neither starts, ends nor begins to handle a wait.
LEMMA ChainQuiet ==
  ASSUME ChainInv, UNCHANGED timerVars, pc' \in [Threads -> Steps],
         \A t \in Threads : pc'[t] = "update" <=> pc[t] = "update"
  PROVE  ChainInv'
<1>1. Renewing' = Renewing
  BY DEF Renewing
<1> QED BY <1>1 DEF ChainInv, ChainType, OneTimerChain, timerVars

\* A handler takes the wait that has ended: it alone will renew it.
LEMMA ChainTakeTimer ==
  ASSUME ChainInv, NEW t \in Threads, TakeTimer(t)
  PROVE  ChainInv'
<1>1. /\ fired' = fired - 1 /\ fired > 0 /\ armed' = armed
      /\ pc' = [pc EXCEPT ![t] = "update"]
      /\ pc[t] = "idle"
  BY DEF TakeTimer, Goto
<1>2. Renewing \in SUBSET Threads /\ t \notin Renewing /\ Renewing' = Renewing \cup {t}
  BY <1>1 DEF Renewing, ChainInv, ChainType
<1>3. Cardinality(Renewing') = Cardinality(Renewing) + 1 /\ Cardinality(Renewing) \in Nat
  BY <1>2, RenewingFinite, FS_AddElement
<1> QED BY <1>1, <1>3 DEF ChainInv, ChainType, OneTimerChain, Steps

\* The handler renews the wait; expires_from_now finds none to cancel.
LEMMA ChainArm ==
  ASSUME ChainInv, NEW t \in Threads, Arm(t)
  PROVE  ChainInv'
<1>1. /\ armed' = 1 /\ fired' = fired + armed
      /\ pc' = [pc EXCEPT ![t] = "processing"]
      /\ pc[t] = "update"
  BY DEF Arm, Wait, Goto
<1>2. Renewing \in SUBSET Threads /\ t \in Renewing /\ Renewing' = Renewing \ {t}
  BY <1>1 DEF Renewing, ChainInv, ChainType
<1>3. /\ Cardinality(Renewing') = Cardinality(Renewing) - 1
      /\ Cardinality(Renewing) \in Nat /\ Cardinality(Renewing') \in Nat
  BY <1>2, RenewingFinite, FS_RemoveElement
<1> QED BY <1>1, <1>3 DEF ChainInv, ChainType, OneTimerChain, Steps

LEMMA ChainStep == ChainInv /\ [ServerNext]_allVars => ChainInv'
<1> SUFFICES ASSUME ChainInv, [ServerNext]_allVars PROVE ChainInv'
  OBVIOUS
<1> USE DEF ChainInv, ChainType
<1>1. CASE UNCHANGED allVars
  BY <1>1, ChainQuiet DEF allVars, serverVars, threadVars, timerVars
<1>2. CASE TimerFires
  <2>1. Renewing' = Renewing
    BY <1>2 DEF TimerFires, threadVars, Renewing
  <2> QED BY <1>2, <2>1 DEF TimerFires, threadVars, OneTimerChain
<1>3. CASE Environment /\ ~TimerFires
  <2>1. UNCHANGED <<threadVars, timerVars>>
    BY <1>3 DEF Environment, Leave, AcceptCompletes, serverVars
  <2> QED BY <2>1, ChainQuiet DEF threadVars
<1>4. ASSUME NEW t \in Threads, TakeTimer(t) PROVE ChainInv'
  BY <1>4, ChainTakeTimer
<1>5. ASSUME NEW t \in Threads, Arm(t) PROVE ChainInv'
  BY <1>5, ChainArm
<1>6. ASSUME NEW t \in Threads,
             Process(t) \/ Erase(t) \/ Emplace(t) \/ TestAsync(t) \/ WakeUp(t)
      PROVE  ChainInv'
  <2>1. UNCHANGED timerVars /\ pc[t] # "update"
    BY <1>6 DEF Process, Erase, Emplace, TestAsync, WakeUp
  <2>2. \E s \in Steps \ {"update"} : pc' = [pc EXCEPT ![t] = s]
    BY <1>6 DEF Process, Erase, Emplace, TestAsync, WakeUp, Goto, Throw, Steps
  <2> QED BY <2>1, <2>2, ChainQuiet DEF Steps
<1>7. ASSUME NEW t \in Threads, TakeAccept(t) \/ AcceptFails(t)
      PROVE  ChainInv'
  <2>1. UNCHANGED timerVars /\ pc[t] = "idle"
    BY <1>7 DEF TakeAccept, AcceptFails
  <2>2. pc' = pc \/ \E s \in Steps \ {"update"} : pc' = [pc EXCEPT ![t] = s]
    BY <1>7 DEF TakeAccept, AcceptFails, Goto, Throw, Steps
  <2> QED BY <2>1, <2>2, ChainQuiet DEF Steps
<1>8. ASSUME NEW t \in Threads, NEW c \in Clients, TakeRequest(t, c) \/ TakeEof(t, c)
      PROVE  ChainInv'
  <2>1. UNCHANGED timerVars /\ pc[t] = "idle"
    BY <1>8 DEF TakeRequest, TakeEof
  <2>2. pc' = pc \/ \E s \in Steps \ {"update"} : pc' = [pc EXCEPT ![t] = s]
    BY <1>8 DEF TakeRequest, TakeEof, Goto, threadVars, Steps
  <2> QED BY <2>1, <2>2, ChainQuiet DEF Steps
<1> QED BY <1>1, <1>2, <1>3, <1>4, <1>5, <1>6, <1>7, <1>8
        DEF ServerNext, GoOn, Update, Start

\* However many clients and queries there are, and wherever an exception leaves
\* an update, there is one chain of updates: one wait is outstanding, ended, or
\* handled and not yet renewed.
THEOREM OneChainOfUpdates == ServerSpec => []OneTimerChain
<1>1. ChainInv => OneTimerChain
  BY DEF ChainInv
<1> QED BY <1>1, ChainInit, ChainStep, PTL DEF ServerSpec

-----------------------------------------------------------------------------
(* The queries in flight.                                                  *)

USE BoundsAssumption

\* An element while remove_if works on it: a continuation may have been popped.
Shape == [query : Queries, valid : BOOLEAN, thens : Seq(Thens)]

LEMMA ElementsAreShaped ==
    ASSUME NEW e \in Elements
    PROVE  e \in Shape
<1>1. e.query \in Queries /\ e.valid \in BOOLEAN
  BY DEF Elements
<1>2. e.thens \in Seq(Thens)
  <2>1. CASE e.thens = <<>>
    BY <2>1
  <2>2. CASE \E n \in 1 .. MaxThens : e.thens \in [1 .. n -> Thens]
    BY <2>2
  <2> QED
    BY <2>1, <2>2 DEF Elements
<1>3. e = [query |-> e.query, valid |-> e.valid, thens |-> e.thens]
  BY DEF Elements
<1> QED
  BY <1>1, <1>2, <1>3 DEF Shape

\* The moves keep the query, and a moved element has no continuations.
LEMMA Moved ==
    ASSUME NEW e \in Shape
    PROVE  /\ MoveConstruct(e) \in Elements
           /\ MoveConstruct(e).query = e.query
           /\ MoveConstruct(e).thens = <<>>
  BY DEF Shape, Elements, MoveConstruct

LEMMA Assigned ==
    ASSUME NEW e \in Shape, NEW target \in Shape
    PROVE  MoveAssign(target, e) \in Shape /\ MoveAssign(target, e).query = e.query
  BY DEF Shape, MoveAssign

LEMMA Called ==
    ASSUME TypeOK, NEW i \in DOMAIN callbacks
    PROVE  AfterCall(i) \in Shape /\ AfterCall(i).query = callbacks[i].query
<1>1. callbacks[i] \in Elements
  BY DEF TypeOK
<1>2. callbacks[i] \in Shape
  BY <1>1, ElementsAreShaped
<1>3. CASE Invokes(callbacks[i])
  <2> DEFINE e == callbacks[i]
  <2>1. e.thens \in Seq(Thens) /\ e.thens # <<>>
    BY <1>2, <1>3 DEF Shape, Invokes
  <2>2. Tail(e.thens) \in Seq(Thens)
    BY <2>1
  <2> HIDE DEF e
  <2>3. Invoked(e) \in Shape /\ Invoked(e).query = e.query
    <3>1. e \in Shape
      BY <1>2 DEF e
    <3> QED
      BY <2>2, <3>1 DEF Shape, Invoked
  <2> QED
    BY <1>3, <2>3 DEF AfterCall, e
<1>4. CASE ~Invokes(callbacks[i])
  BY <1>2, <1>4 DEF AfterCall
<1> QED
  BY <1>3, <1>4

\* The elements that are kept take the places 1 .. Cardinality(Kept), each its own.
LEMMA PlacesAreTaken ==
    ASSUME TypeOK
    PROVE  /\ Cardinality(Kept) \in Nat
           /\ Cardinality(Kept) <= Len(callbacks)
           /\ \A i \in Kept : Place(i) \in 1 .. Cardinality(Kept)
           /\ \A i, m \in Kept : Place(i) = Place(m) => i = m
           /\ \A k \in 1 .. Cardinality(Kept) : \E i \in Kept : Place(i) = k
<1> DEFINE UpTo(i) == {j \in Kept : j <= i}
           n == Cardinality(Kept)
<1>1. Len(callbacks) \in Nat /\ Kept \in SUBSET (1 .. Len(callbacks))
  BY DEF TypeOK, Kept
<1>2. /\ IsFiniteSet(1 .. Len(callbacks))
      /\ Cardinality(1 .. Len(callbacks)) = Len(callbacks)
  <2>1. 0 \in Int /\ 1 \in Int /\ Len(callbacks) \in Int
    BY <1>1
  <2>2. /\ IsFiniteSet(1 .. Len(callbacks))
        /\ Cardinality(1 .. Len(callbacks))
              = IF 1 > Len(callbacks) THEN 0 ELSE Len(callbacks) - 1 + 1
    BY <2>1, FS_Interval
  <2> QED
    BY <1>1, <2>2
<1>3. IsFiniteSet(Kept) /\ n \in Nat /\ n <= Len(callbacks)
  BY <1>1, <1>2, FS_Subset, FS_CardinalityType
<1>4. \A i \in Kept : /\ IsFiniteSet(UpTo(i)) /\ Cardinality(UpTo(i)) \in Nat
                      /\ Cardinality(UpTo(i)) <= n
  BY <1>3, FS_Subset, FS_CardinalityType
<1>5. ASSUME NEW i \in Kept, NEW m \in Kept, i < m
      PROVE  Cardinality(UpTo(i)) < Cardinality(UpTo(m))
  <2>1. i \in Nat /\ m \in Nat
    BY <1>1
  <2>2. UpTo(i) \in SUBSET (UpTo(m) \ {m}) /\ m \in UpTo(m)
    <3>1. \A x \in Kept : x <= i => x <= m /\ x # m
      BY <1>1, <1>5, <2>1
    <3>2. m <= m
      BY <2>1
    <3> QED
      BY <3>1, <3>2
  <2>3. /\ IsFiniteSet(UpTo(m) \ {m})
        /\ Cardinality(UpTo(m) \ {m}) = Cardinality(UpTo(m)) - 1
    BY <1>4, <2>2, FS_RemoveElement
  <2>4. Cardinality(UpTo(i)) <= Cardinality(UpTo(m) \ {m})
    BY <2>2, <2>3, FS_Subset
  <2> HIDE DEF UpTo
  <2> QED
    BY <1>4, <2>3, <2>4
<1>6. \A i \in Kept : Cardinality(UpTo(i)) \in 1 .. n
  <2> SUFFICES ASSUME NEW i \in Kept PROVE Cardinality(UpTo(i)) \in 1 .. n
    OBVIOUS
  <2>1. i \in UpTo(i)
    BY <1>1
  <2>2. Cardinality(UpTo(i)) # 0
    BY <1>4, <2>1, FS_EmptySet
  <2> HIDE DEF UpTo
  <2> QED
    BY <1>3, <1>4, <2>2
<1>7. \A i \in Kept : Place(i) = Cardinality(UpTo(i))
  BY DEF Place
<1>8. \A i, m \in Kept : Place(i) = Place(m) => i = m
  <2> SUFFICES ASSUME NEW i \in Kept, NEW m \in Kept, i # m PROVE Place(i) # Place(m)
    OBVIOUS
  <2>1. i \in Nat /\ m \in Nat
    BY <1>1
  <2>2. i < m \/ m < i
    BY <2>1
  <2> HIDE DEF UpTo
  <2>3. Cardinality(UpTo(i)) \in Nat /\ Cardinality(UpTo(m)) \in Nat
    BY <1>4
  <2>4. Cardinality(UpTo(i)) < Cardinality(UpTo(m)) \/ Cardinality(UpTo(m)) < Cardinality(UpTo(i))
    BY <1>5, <2>2
  <2> QED
    BY <1>7, <2>3, <2>4
<1>9. \A k \in 1 .. n : \E i \in Kept : Place(i) = k
  <2> DEFINE f == [i \in Kept |-> Place(i)]
  <2>1. f \in Injection(Kept, 1 .. n)
    <3>1. f \in [Kept -> 1 .. n]
      BY <1>6, <1>7
    <3>2. \A a, b \in DOMAIN f : f[a] = f[b] => a = b
      BY <1>8
    <3> QED
      BY <3>1, <3>2 DEF Injection, IsInjective
  <2>2. IsFiniteSet(1 .. n) /\ Cardinality(1 .. n) = n
    <3>1. n \in Int /\ 1 \in Int
      BY <1>3
    <3>2. IsFiniteSet(1 .. n) /\ Cardinality(1 .. n) = IF 1 > n THEN 0 ELSE n - 1 + 1
      BY <3>1, FS_Interval
    <3> HIDE DEF n
    <3> QED
      BY <1>3, <3>2
  <2>3. f \in Surjection(Kept, 1 .. n)
    BY <2>1, <2>2, FS_Injection
  <2> QED
    BY <2>3 DEF Surjection
<1> HIDE DEF UpTo, n
<1> QED
  BY <1>3, <1>6, <1>7, <1>8, <1>9 DEF n

\* The survivors are the kept elements in their new places.
LEMMA SurvivorsAreTheKept ==
    ASSUME TypeOK
    PROVE  /\ \A k \in DOMAIN Survivors : /\ MovedTo(k) \in Kept
                                          /\ Survivors[k] \in Shape
                                          /\ Survivors[k].query = callbacks[MovedTo(k)].query
           /\ DOMAIN Survivors = 1 .. Cardinality(Kept)
           /\ \A i \in Kept : Place(i) \in DOMAIN Survivors /\ MovedTo(Place(i)) = i
<1>1. DOMAIN Survivors = 1 .. Cardinality(Kept)
  BY DEF Survivors
<1>2. \A k \in DOMAIN Survivors : MovedTo(k) \in Kept /\ Place(MovedTo(k)) = k
  BY <1>1, PlacesAreTaken DEF MovedTo
<1>3. \A i \in Kept : Place(i) \in DOMAIN Survivors /\ MovedTo(Place(i)) = i
  BY <1>1, <1>2, PlacesAreTaken
<1>4. ASSUME NEW k \in DOMAIN Survivors
      PROVE  /\ Survivors[k] \in Shape
             /\ Survivors[k].query = callbacks[MovedTo(k)].query
  <2>1. MovedTo(k) \in DOMAIN callbacks
    BY <1>2 DEF Kept
  <2>2. AfterCall(MovedTo(k)) \in Shape
        /\ AfterCall(MovedTo(k)).query = callbacks[MovedTo(k)].query
    BY <2>1, Called
  <2>3. k \in DOMAIN callbacks
    <3>1. Cardinality(Kept) \in Nat /\ Cardinality(Kept) <= Len(callbacks)
      BY PlacesAreTaken
    <3>2. DOMAIN callbacks = 1 .. Len(callbacks) /\ Len(callbacks) \in Nat
      BY DEF TypeOK
    <3> QED
      BY <1>1, <3>1, <3>2
  <2>4. AfterCall(k) \in Shape
    BY <2>3, Called
  <2>5. Survivor(k) \in Shape /\ Survivor(k).query = callbacks[MovedTo(k)].query
    BY <2>2, <2>4, Assigned DEF Survivor
  <2> QED
    BY <1>1, <2>5 DEF Survivors
<1> QED
  BY <1>1, <1>2, <1>3, <1>4

\* What ProcessReadyCallbacks leaves in the vector when nothing stops it.
LEMMA SurvivorsTyped ==
    ASSUME TypeOK, callbacks' = [k \in DOMAIN Survivors |-> MoveConstruct(Survivors[k])]
    PROVE  /\ callbacks' \in Seq(Elements)
           /\ Len(callbacks') = Len(Survivors)
           /\ Len(Survivors) \in Nat
           /\ \A k \in DOMAIN callbacks' : callbacks'[k].thens = <<>>
           /\ \A i \in Kept : \E k \in DOMAIN callbacks' :
                                  callbacks'[k].query = callbacks[i].query
<1> DEFINE n == Cardinality(Kept)
<1>1. n \in Nat /\ DOMAIN Survivors = 1 .. n
  BY PlacesAreTaken, SurvivorsAreTheKept
<1>2. \A k \in 1 .. n : /\ MoveConstruct(Survivors[k]) \in Elements
                        /\ MoveConstruct(Survivors[k]).query = callbacks[MovedTo(k)].query
                        /\ MoveConstruct(Survivors[k]).thens = <<>>
  BY <1>1, SurvivorsAreTheKept, Moved
<1> HIDE DEF n
<1>3. callbacks' = [k \in 1 .. n |-> MoveConstruct(Survivors[k])]
  BY <1>1
<1>4. callbacks' \in Seq(Elements) /\ Len(callbacks') = n /\ DOMAIN callbacks' = 1 .. n
  BY <1>1, <1>2, <1>3
<1>5. Len(Survivors) = n
  BY <1>1 DEF Survivors, n
<1>6. \A k \in 1 .. n : callbacks'[k].thens = <<>>
                        /\ callbacks'[k].query = callbacks[MovedTo(k)].query
  BY <1>2, <1>3
<1>7. \A i \in Kept : Place(i) \in 1 .. n /\ MovedTo(Place(i)) = i
  BY <1>1, SurvivorsAreTheKept
<1> QED
  BY <1>1, <1>4, <1>5, <1>6, <1>7

-----------------------------------------------------------------------------
(* Whose continuations an element holds.  A moved element holds none, and  *)
(* one that was not moved yet holds its own, so that the place it had in   *)
(* the vector cannot matter.                                               *)

OwnThens == \A i \in DOMAIN callbacks : \A t \in DOMAIN callbacks[i].thens :
                callbacks[i].thens[t][1] = callbacks[i].query

QueryInv == TypeOK /\ OwnThens /\ NoForeignResult /\ NoQueryForgotten

LEMMA InitQueryInv == Init => QueryInv
<1> SUFFICES ASSUME Init PROVE QueryInv
  OBVIOUS
<1>1. TypeOK
  <2>1. callbacks \in Seq(Elements) /\ Len(callbacks) = 0
    BY EmptySeq DEF Init
  <2>2. promise \in [Queries -> {"unborn", "pending", "value", "broken"}]
    BY DEF Init
  <2>3. capacity = 0 /\ thrown \in BOOLEAN /\ crashed \in BOOLEAN
    BY DEF Init
  <2>4. deliveries \subseteq [then : Thens, query : Queries]
    BY DEF Init
  <2> QED
    BY <2>1, <2>2, <2>3, <2>4 DEF TypeOK
<1>2. OwnThens /\ NoForeignResult /\ NoQueryForgotten
  BY DEF Init, OwnThens, NoForeignResult, NoQueryForgotten
<1> QED
  BY <1>1, <1>2 DEF QueryInv

LEMMA ResolveQueryInv ==
    ASSUME QueryInv, NEW q \in Queries, Resolve(q) PROVE QueryInv'
<1>1. /\ promise[q] = "pending"
      /\ \E outcome \in {"value", "broken"} : promise' = [promise EXCEPT ![q] = outcome]
      /\ UNCHANGED <<callbacks, capacity, deliveries, thrown, crashed>>
  BY DEF Resolve
<1>2. TypeOK'
  BY <1>1 DEF QueryInv, TypeOK
<1>3. OwnThens' /\ NoForeignResult'
  BY <1>1 DEF QueryInv, OwnThens, NoForeignResult
<1>4. \A p \in Queries : promise'[p] = "unborn" <=> promise[p] = "unborn"
  BY <1>1 DEF QueryInv, TypeOK
<1>5. NoQueryForgotten'
  BY <1>1, <1>4 DEF QueryInv, NoQueryForgotten, InFlight, WasServed
<1> QED
  BY <1>2, <1>3, <1>5 DEF QueryInv

LEMMA AddCallbackQueryInv ==
    ASSUME QueryInv, NEW q \in Queries, AddCallback(q) PROVE QueryInv'
<1> DEFINE moved == [i \in DOMAIN callbacks |-> MoveConstruct(callbacks[i])]
<1>1. PICK n \in 1 .. MaxThens :
          LET new == [query |-> q, valid |-> TRUE, thens |-> [i \in 1 .. n |-> <<q, i>>]]
          IN  \/ /\ Len(callbacks) < capacity
                 /\ callbacks' = Append(callbacks, new)
                 /\ UNCHANGED capacity
              \/ /\ callbacks' = Append(moved, new)
                 /\ capacity' \in Grown(Len(callbacks))
  BY DEF AddCallback
<1> DEFINE new == [query |-> q, valid |-> TRUE, thens |-> [i \in 1 .. n |-> <<q, i>>]]
<1>2. /\ promise' = [promise EXCEPT ![q] = "pending"]
      /\ UNCHANGED <<deliveries, thrown, crashed>>
  BY DEF AddCallback
<1>3. /\ new \in Elements /\ new.query = q
      /\ \A t \in DOMAIN new.thens : new.thens[t][1] = new.query
  <2>1. [i \in 1 .. n |-> <<q, i>>] \in [1 .. n -> Thens]
    BY DEF Thens
  <2> QED
    BY <2>1 DEF Elements
<1>4. callbacks \in Seq(Elements) /\ Len(callbacks) \in Nat /\ capacity \in Nat
      /\ Len(callbacks) <= capacity /\ DOMAIN callbacks = 1 .. Len(callbacks)
  BY DEF QueryInv, TypeOK
<1>5. /\ moved \in Seq(Elements) /\ Len(moved) = Len(callbacks)
      /\ \A i \in DOMAIN callbacks : moved[i].thens = <<>> /\ moved[i].query = callbacks[i].query
  <2>1. \A i \in DOMAIN callbacks :
            /\ MoveConstruct(callbacks[i]) \in Elements
            /\ MoveConstruct(callbacks[i]).query = callbacks[i].query
            /\ MoveConstruct(callbacks[i]).thens = <<>>
    BY <1>4, ElementsAreShaped, Moved
  <2> QED
    BY <1>4, <2>1
<1> HIDE DEF moved, new
<1>6. /\ callbacks' \in Seq(Elements) /\ Len(callbacks') = Len(callbacks) + 1
      /\ callbacks'[Len(callbacks) + 1] = new
      /\ \A i \in 1 .. Len(callbacks) : \/ callbacks'[i] = callbacks[i]
                                        \/ callbacks'[i] = moved[i]
  <2>1. callbacks' = Append(callbacks, new) \/ callbacks' = Append(moved, new)
    BY <1>1 DEF new
  <2>2. CASE callbacks' = Append(callbacks, new)
    BY <1>3, <1>4, <2>2
  <2>3. CASE callbacks' = Append(moved, new)
    BY <1>3, <1>4, <1>5, <2>3
  <2> QED
    BY <2>1, <2>2, <2>3
<1>7. capacity' \in Nat /\ Len(callbacks') <= capacity'
  <2>1. CASE Len(callbacks) < capacity /\ capacity' = capacity
    BY <1>4, <1>6, <2>1
  <2>2. CASE capacity' \in Grown(Len(callbacks))
    BY <1>4, <1>6, <2>2 DEF Grown
  <2> QED
    BY <1>1, <2>1, <2>2
<1>8. TypeOK'
  BY <1>2, <1>6, <1>7 DEF QueryInv, TypeOK
<1>9. \A i \in DOMAIN callbacks' : i \in 1 .. Len(callbacks) \/ callbacks'[i] = new
  BY <1>4, <1>6
<1>10. OwnThens'
  <2> SUFFICES ASSUME NEW i \in DOMAIN callbacks', NEW t \in DOMAIN callbacks'[i].thens
               PROVE  callbacks'[i].thens[t][1] = callbacks'[i].query
    BY DEF OwnThens
  <2>1. CASE callbacks'[i] = new
    BY <1>3, <2>1
  <2>2. CASE i \in 1 .. Len(callbacks) /\ callbacks'[i] = callbacks[i]
    BY <1>4, <2>2 DEF QueryInv, OwnThens
  <2>3. CASE i \in 1 .. Len(callbacks) /\ callbacks'[i] = moved[i]
    BY <1>4, <1>5, <2>3
  <2> QED
    BY <1>6, <1>9, <2>1, <2>2, <2>3
<1>11. NoForeignResult'
  BY <1>2 DEF QueryInv, NoForeignResult
<1>12. NoQueryForgotten'
  <2> SUFFICES ASSUME NEW p \in Queries
               PROVE  promise'[p] = "unborn" \/ InFlight(p)' \/ WasServed(p)' \/ thrown' \/ crashed'
    BY DEF NoQueryForgotten
  <2>1. CASE p = q
    <3>1. Len(callbacks) + 1 \in DOMAIN callbacks'
      BY <1>4, <1>6
    <3> QED
      BY <1>3, <1>6, <2>1, <3>1 DEF InFlight
  <2>2. CASE p # q /\ InFlight(p)
    <3>1. PICK i \in DOMAIN callbacks : callbacks[i].query = p
      BY <2>2 DEF InFlight
    <3>2. i \in DOMAIN callbacks' /\ callbacks'[i].query = p
      BY <1>4, <1>5, <1>6, <3>1
    <3> QED
      BY <3>2 DEF InFlight
  <2>3. CASE p # q /\ ~InFlight(p)
    BY <1>2, <2>3 DEF QueryInv, NoQueryForgotten, WasServed, TypeOK
  <2> QED
    BY <2>1, <2>2, <2>3
<1> QED
  BY <1>8, <1>10, <1>11, <1>12 DEF QueryInv

\* Every set of naturals that is not empty has a least element.
LEMMA LeastNatural ==
    ASSUME NEW S \in SUBSET Nat, S # {}
    PROVE  \E x \in S : \A y \in S : x <= y
<1>1. PICK x \in S : \A y \in S : ~ (<<y, x>> \in OpToRel(<, Nat))
  BY NatLessThanWellFounded, WFMin
<1>2. \A y \in S : y < x => <<y, x>> \in OpToRel(<, Nat)
  BY DEF OpToRel
<1>3. \A y \in S : ~ (y < x)
  BY <1>1, <1>2, Zenon
<1>4. \A y \in S : y \in Nat
  OBVIOUS
<1> QED
  BY <1>3, <1>4

\* remove_if reaches every element unless it stops at one.
LEMMA AllAreReached ==
    ASSUME callbacks \in Seq(Elements), \A i \in Reached : ~Stops(i)
    PROVE  Reached = DOMAIN callbacks
<1> DEFINE S == {i \in DOMAIN callbacks : Stops(i)}
<1>1. DOMAIN callbacks = 1 .. Len(callbacks) /\ Len(callbacks) \in Nat
  OBVIOUS
<1>2. S = {}
  <2> SUFFICES ASSUME S # {} PROVE FALSE
    OBVIOUS
  <2>1. S \in SUBSET Nat
    BY <1>1
  <2>2. PICK x \in S : \A y \in S : x <= y
    BY <2>1, LeastNatural
  <2>3. x \in DOMAIN callbacks /\ Stops(x)
    BY <2>2
  <2>4. \A j \in 1 .. (x - 1) : j \in DOMAIN callbacks /\ ~(x <= j)
    BY <1>1, <2>3
  <2>5. \A j \in 1 .. (x - 1) : ~Stops(j)
    BY <2>2, <2>4
  <2> QED
    BY <2>3, <2>5 DEF Reached
<1>3. \A i \in DOMAIN callbacks : \A j \in 1 .. (i - 1) : j \in DOMAIN callbacks
  BY <1>1
<1> QED
  BY <1>2, <1>3 DEF Reached

LEMMA ProcessQueryInv == QueryInv /\ ProcessReadyCallbacks => QueryInv'
<1> SUFFICES ASSUME QueryInv, ProcessReadyCallbacks PROVE QueryInv'
  OBVIOUS
<1> USE DEF QueryInv
<1>1. /\ deliveries' = deliveries \cup Delivered
      /\ crashed' = \E i \in Reached : FrontOfNothing(callbacks[i])
      /\ thrown' = (thrown \/ \E i \in Reached : Throws(callbacks[i]))
      /\ UNCHANGED promise
      /\ ~crashed
  BY DEF ProcessReadyCallbacks
<1>2. /\ callbacks' \in Seq(Elements) /\ capacity' \in Nat /\ Len(callbacks') <= capacity'
      /\ \A k \in DOMAIN callbacks' : callbacks'[k].thens = <<>>
  <2>1. CASE callbacks' = <<>> /\ capacity' = 0
    BY <2>1
  <2>2. CASE /\ callbacks' = [k \in DOMAIN Survivors |-> MoveConstruct(Survivors[k])]
             /\ capacity' = Len(Survivors)
    BY <2>2, SurvivorsTyped
  <2> QED
    BY <2>1, <2>2 DEF ProcessReadyCallbacks
<1>3. \A i \in DOMAIN callbacks :
          Invokes(callbacks[i]) => /\ Head(callbacks[i].thens) \in Thens
                                   /\ Head(callbacks[i].thens)[1] = callbacks[i].query
                                   /\ callbacks[i].query \in Queries
  <2> SUFFICES ASSUME NEW i \in DOMAIN callbacks, Invokes(callbacks[i])
               PROVE  /\ Head(callbacks[i].thens) \in Thens
                      /\ Head(callbacks[i].thens)[1] = callbacks[i].query
                      /\ callbacks[i].query \in Queries
    OBVIOUS
  <2>1. callbacks[i] \in Elements
    BY DEF TypeOK
  <2>2. callbacks[i] \in Shape
    BY <2>1, ElementsAreShaped
  <2>3. /\ callbacks[i].thens \in Seq(Thens) /\ callbacks[i].thens # <<>>
        /\ callbacks[i].query \in Queries
    BY <2>2 DEF Shape, Invokes
  <2>4. 1 \in DOMAIN callbacks[i].thens /\ Head(callbacks[i].thens) = callbacks[i].thens[1]
    BY <2>3
  <2> QED
    BY <2>3, <2>4 DEF OwnThens
<1>4. \A d \in Delivered : d \in [then : Thens, query : Queries] /\ d.then[1] = d.query
  BY <1>3 DEF Delivered, Reached
<1>5. TypeOK'
  BY <1>1, <1>2, <1>4 DEF TypeOK
<1>6. OwnThens'
  BY <1>2 DEF OwnThens
<1>7. NoForeignResult'
  BY <1>1, <1>4 DEF NoForeignResult
<1>8. NoQueryForgotten'
  <2> SUFFICES ASSUME NEW q \in Queries, promise[q] # "unborn", ~thrown', ~crashed'
               PROVE  InFlight(q)' \/ WasServed(q)'
    BY <1>1 DEF NoQueryForgotten
  <2>1. \A i \in Reached : ~Stops(i)
    BY <1>1 DEF Stops
  <2>2. CASE InFlight(q)
    <3>1. PICK i \in DOMAIN callbacks : callbacks[i].query = q
      BY <2>2 DEF InFlight
    <3>2. CASE i \in Kept
      <4>1. callbacks' = [k \in DOMAIN Survivors |-> MoveConstruct(Survivors[k])]
        BY <2>1 DEF ProcessReadyCallbacks
      <4> QED
        BY <3>1, <3>2, <4>1, SurvivorsTyped DEF InFlight
    <3>3. CASE i \notin Kept
      <4>1. Invokes(callbacks[i])
        BY <3>3 DEF Kept, Completes
      <4>2. i \in Reached
        BY <2>1, AllAreReached DEF TypeOK
      <4>3. [then |-> Head(callbacks[i].thens), query |-> q] \in Delivered
        BY <3>1, <4>1, <4>2 DEF Delivered
      <4> QED
        BY <1>1, <4>3 DEF WasServed
    <3> QED
      BY <3>2, <3>3
  <2>3. CASE ~InFlight(q)
    BY <1>1, <2>3 DEF NoQueryForgotten, WasServed
  <2> QED
    BY <2>2, <2>3
<1> QED
  BY <1>5, <1>6, <1>7, <1>8

LEMMA NextQueryInv == QueryInv /\ [Next]_vars => QueryInv'
<1> SUFFICES ASSUME QueryInv, [Next]_vars PROVE QueryInv'
  OBVIOUS
<1>1. CASE ProcessReadyCallbacks
  BY <1>1, ProcessQueryInv
<1>2. ASSUME NEW q \in Queries, AddCallback(q) PROVE QueryInv'
  BY <1>2, AddCallbackQueryInv
<1>3. ASSUME NEW q \in Queries, Resolve(q) PROVE QueryInv'
  BY <1>3, ResolveQueryInv
<1>4. CASE UNCHANGED vars
  <2>1. TypeOK'
    BY <1>4 DEF vars, QueryInv, TypeOK
  <2>2. OwnThens' /\ NoForeignResult' /\ NoQueryForgotten'
    BY <1>4 DEF vars, QueryInv, OwnThens, NoForeignResult, NoQueryForgotten, InFlight, WasServed
  <2> QED
    BY <2>1, <2>2 DEF QueryInv
<1> QED
  BY <1>1, <1>2, <1>3, <1>4 DEF Next

LEMMA QueriesInvariant == Spec => []QueryInv
  BY InitQueryInv, NextQueryInv, PTL DEF Spec

\* Whatever the vector moves over what, a continuation is called with the result
\* of the query it was given to.
THEOREM NoForeignResults == Spec => []NoForeignResult
<1>1. QueryInv => NoForeignResult
  BY DEF QueryInv
<1> QED
  BY <1>1, QueriesInvariant, PTL

\* A query that was added is in flight until a continuation of it was called,
\* unless an exception or a crash has emptied the processor.
THEOREM NoQueryIsForgotten == Spec => []NoQueryForgotten
<1>1. QueryInv => NoQueryForgotten
  BY DEF QueryInv
<1> QED
  BY <1>1, QueriesInvariant, PTL

-----------------------------------------------------------------------------
(* The types of the queries hold in the server too.                       *)

\* What the server does with the queries is a step of the processor or nothing.
LEMMA ServerStepsAreQuerySteps == [ServerNext]_allVars => [Next]_vars
<1> SUFFICES ASSUME [ServerNext]_allVars PROVE [Next]_vars
  OBVIOUS
<1>1. CASE UNCHANGED allVars
  BY <1>1 DEF allVars
<1>2. CASE Environment
  BY <1>2 DEF Environment, TimerFires, Leave, AcceptCompletes, Next
<1>3. ASSUME NEW t \in Threads, GoOn(t) PROVE [Next]_vars
  <2>1. CASE Process(t)
    BY <2>1 DEF Process, Next
  <2>2. CASE TestAsync(t)
    BY <2>2 DEF TestAsync, Next
  <2>3. CASE Arm(t) \/ Erase(t) \/ Emplace(t) \/ WakeUp(t)
    BY <2>3 DEF Arm, Erase, Emplace, WakeUp
  <2> QED
    BY <1>3, <2>1, <2>2, <2>3 DEF GoOn, Update
<1>4. ASSUME NEW t \in Threads, Start(t) PROVE [Next]_vars
  BY <1>4 DEF Start, TakeTimer, TakeAccept, AcceptFails, TakeRequest, TakeEof
<1> QED
  BY <1>1, <1>2, <1>3, <1>4 DEF ServerNext

LEMMA QueryInvInServer == ServerSpec => []QueryInv
<1>1. ServerInit => Init
  BY DEF ServerInit
<1> QED
  BY <1>1, ServerStepsAreQuerySteps, QueriesInvariant, PTL DEF ServerSpec, Spec

-----------------------------------------------------------------------------
(* Types of the server.                                                    *)

\* The types but those of the queries and of the timer: the wait counters stay
\* within 0 .. 1 because there is one chain of updates.
ServerOwnTypes ==
    /\ pc \in [Threads -> Steps]
    /\ serving \in [Threads -> Clients \cup {Nobody}]
    /\ accepting \in {"armed", "ready", "failed", "off"}
    /\ peer \in [Clients -> {"waiting", "present", "left"}]
    /\ session \in [Clients -> {"none", "listed", "erased"}]
    /\ reading \in [Clients -> BOOLEAN]
    /\ closed \in [Clients -> BOOLEAN]
    /\ accepted \in Clients \cup {Nobody}
    /\ acceptEnded \in BOOLEAN /\ raced \in BOOLEAN /\ terminated \in BOOLEAN

LEMMA InitServerOwnTypes == ServerInit => ServerOwnTypes
<1> SUFFICES ASSUME ServerInit PROVE ServerOwnTypes
  OBVIOUS
<1>1. pc \in [Threads -> Steps] /\ serving \in [Threads -> Clients \cup {Nobody}]
  BY DEF ServerInit, Steps
<1>2. /\ peer \in [Clients -> {"waiting", "present", "left"}]
      /\ session \in [Clients -> {"none", "listed", "erased"}]
      /\ reading \in [Clients -> BOOLEAN] /\ closed \in [Clients -> BOOLEAN]
  BY DEF ServerInit
<1>3. /\ accepting \in {"armed", "ready", "failed", "off"}
      /\ accepted \in Clients \cup {Nobody}
      /\ acceptEnded \in BOOLEAN /\ raced \in BOOLEAN /\ terminated \in BOOLEAN
  BY DEF ServerInit
<1> QED
  BY <1>1, <1>2, <1>3 DEF ServerOwnTypes

LEMMA NextServerOwnTypes == ServerOwnTypes /\ [ServerNext]_allVars => ServerOwnTypes'
<1> SUFFICES ASSUME ServerOwnTypes, [ServerNext]_allVars PROVE ServerOwnTypes'
  OBVIOUS
<1>1. CASE UNCHANGED allVars
  BY <1>1 DEF allVars, serverVars, threadVars, acceptVars, sessionVars, faultVars, ServerOwnTypes
<1>2. CASE Environment
  <2>1. CASE TimerFires \/ UNCHANGED serverVars
    BY <2>1 DEF TimerFires, serverVars, threadVars, acceptVars, sessionVars, faultVars,
                ServerOwnTypes
  <2>2. ASSUME NEW c \in Clients, Leave(c) PROVE ServerOwnTypes'
    BY <2>2 DEF Leave, threadVars, acceptVars, sessionVars, faultVars, ServerOwnTypes
  <2>3. ASSUME NEW c \in Clients, AcceptCompletes(c) PROVE ServerOwnTypes'
    BY <2>3 DEF AcceptCompletes, threadVars, sessionVars, faultVars, ServerOwnTypes
  <2>4. \/ TimerFires
        \/ \E c \in Clients : Leave(c) \/ AcceptCompletes(c)
        \/ (\E q \in Queries : Resolve(q)) /\ UNCHANGED serverVars
    BY <1>2 DEF Environment
  <2> QED
    BY <2>1, <2>2, <2>3, <2>4
<1>3. ASSUME NEW t \in Threads, Arm(t) PROVE ServerOwnTypes'
  BY <1>3 DEF Arm, Goto, acceptVars, sessionVars, ServerOwnTypes, Steps
<1>4. ASSUME NEW t \in Threads, Process(t) PROVE ServerOwnTypes'
  <2>1. /\ \E s \in Steps : pc' = [pc EXCEPT ![t] = s]
        /\ raced' \in BOOLEAN /\ terminated' \in BOOLEAN
        /\ UNCHANGED <<serving, acceptVars, peer, sessionVars>>
    BY <1>4 DEF Process, Goto, Throw, Steps, ServerOwnTypes
  <2> QED
    BY <2>1 DEF acceptVars, sessionVars, ServerOwnTypes
<1>5. ASSUME NEW t \in Threads, Erase(t) PROVE ServerOwnTypes'
  BY <1>5 DEF Erase, Goto, acceptVars, ServerOwnTypes, Steps
<1>6. ASSUME NEW t \in Threads, Emplace(t) PROVE ServerOwnTypes'
  BY <1>6 DEF Emplace, DoAccept, Goto, ServerOwnTypes, Steps
<1>7. ASSUME NEW t \in Threads, TestAsync(t) PROVE ServerOwnTypes'
  BY <1>7 DEF TestAsync, Goto, acceptVars, sessionVars, ServerOwnTypes, Steps
<1>8. ASSUME NEW t \in Threads, WakeUp(t) PROVE ServerOwnTypes'
  BY <1>8 DEF WakeUp, Goto, acceptVars, ServerOwnTypes, Steps
<1>9. ASSUME NEW t \in Threads, TakeTimer(t) PROVE ServerOwnTypes'
  BY <1>9 DEF TakeTimer, Goto, acceptVars, sessionVars, ServerOwnTypes, Steps
<1>10. ASSUME NEW t \in Threads, TakeAccept(t) PROVE ServerOwnTypes'
  BY <1>10 DEF TakeAccept, Goto, sessionVars, ServerOwnTypes, Steps
<1>11. ASSUME NEW t \in Threads, AcceptFails(t) PROVE ServerOwnTypes'
  <2>1. /\ pc' = pc \/ pc' = [pc EXCEPT ![t] = "idle"]
        /\ raced' \in BOOLEAN /\ terminated' \in BOOLEAN
        /\ accepting' = "off" /\ acceptEnded' = TRUE
        /\ UNCHANGED <<serving, accepted, peer, sessionVars>>
    BY <1>11 DEF AcceptFails, Throw, faultVars, ServerOwnTypes
  <2> QED
    BY <2>1 DEF sessionVars, ServerOwnTypes, Steps
<1>12. ASSUME NEW t \in Threads, NEW c \in Clients, TakeRequest(t, c) PROVE ServerOwnTypes'
  BY <1>12 DEF TakeRequest, Goto, acceptVars, ServerOwnTypes, Steps
<1>13. ASSUME NEW t \in Threads, NEW c \in Clients, TakeEof(t, c) PROVE ServerOwnTypes'
  BY <1>13 DEF TakeEof, threadVars, acceptVars, faultVars, ServerOwnTypes
<1> QED
  BY <1>1, <1>2, <1>3, <1>4, <1>5, <1>6, <1>7, <1>8, <1>9, <1>10, <1>11, <1>12, <1>13
     DEF ServerNext, GoOn, Update, Start

\* The state of the server and of the queries stays within its types; that a wait
\* is outstanding or ended at most once is the one chain of updates.
THEOREM ServerTypeCorrect == ServerSpec => []ServerTypeOK
<1>1. QueryInv /\ ChainInv /\ ServerOwnTypes => ServerTypeOK
  <2> SUFFICES ASSUME QueryInv, ChainInv, ServerOwnTypes PROVE ServerTypeOK
    OBVIOUS
  <2>1. armed \in 0 .. 1 /\ fired \in 0 .. 1
    <3>1. Cardinality(Renewing) \in Nat
      BY RenewingFinite DEF Renewing
    <3>2. armed \in Nat /\ fired \in Nat /\ armed + fired + Cardinality(Renewing) = 1
      BY DEF ChainInv, ChainType, OneTimerChain
    <3> QED
      BY <3>1, <3>2
  <2>2. pc \in [Threads -> {"idle", "update", "processing", "erasing", "emplacing",
                            "adding", "asleep"}]
    BY DEF ServerOwnTypes, Steps
  <2> QED
    BY <2>1, <2>2 DEF QueryInv, ServerOwnTypes, ServerTypeOK
<1>2. ServerSpec => []ChainInv
  BY ChainInit, ChainStep, PTL DEF ServerSpec
<1>3. ServerSpec => []ServerOwnTypes
  BY InitServerOwnTypes, NextServerOwnTypes, PTL DEF ServerSpec
<1> QED
  BY <1>1, <1>2, <1>3, QueryInvInServer, PTL
==============================================================================
