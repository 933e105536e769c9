---------------------------- MODULE QueryCallback ----------------------------
(***************************************************************************)
(* QueryCallback and the AsyncCallbackProcessor<QueryCallback> that the    *)
(* server's Update() runs on every tick of its timer: a query in flight is *)
(* a future and the continuations given to Then, kept in a std::vector     *)
(* until the future is ready.                                              *)
(*                                                                         *)
(* A vector moves its elements, when it grows, when remove_if closes a gap *)
(* and when the survivors are inserted back.  The move constructor and the *)
(* move assignment of QueryCallback move the future and leave the          *)
(* continuations behind, so where a continuation is after a move is part   *)
(* of the model.                                                           *)
(***************************************************************************)
EXTENDS Naturals, Sequences, FiniteSets

CONSTANTS
    MaxQueries,   \* bound: how many queries are handed to the processor
    MaxThens      \* bound: how many continuations Then adds to one query

ASSUME BoundsAssumption == MaxQueries \in Nat \ {0} /\ MaxThens \in Nat \ {0}

Queries == 1 .. MaxQueries
Thens   == Queries \X (1 .. MaxThens)

VARIABLES
    callbacks,    \* _callbacks: the queries in flight
    capacity,     \* the capacity of that vector
    promise,      \* what the database worker did with each query's promise
    deliveries,   \* which continuation got the result of which query
    thrown,       \* future.get() has thrown out of ProcessReadyCallbacks
    crashed       \* a callback was taken from an empty std::queue and called

vars == <<callbacks, capacity, promise, deliveries, thrown, crashed>>

Init == /\ callbacks  = <<>>
        /\ capacity   = 0
        /\ promise    = [q \in Queries |-> "unborn"]
        /\ deliveries = {}
        /\ thrown     = FALSE
        /\ crashed    = FALSE

-----------------------------------------------------------------------------
(* QueryCallback.                                                          *)

MoveAll(e)           == e
MoveConstruct(e)     == [e EXCEPT !.thens = <<>>]
MoveAssign(target, e) == [e EXCEPT !.thens = target.thens]

\* pFuture->valid() && pFuture->wait_for(0) == ready
Ready(e) == e.valid /\ promise[e.query] \in {"value", "broken"}

\* InvokeIfReady takes the front of an empty queue of continuations, or
\* future.get() throws broken_promise.
FrontOfNothing(e) == Ready(e) /\ e.thens = <<>>
Throws(e)         == Ready(e) /\ e.thens # <<>> /\ promise[e.query] = "broken"
Invokes(e)        == Ready(e) /\ e.thens # <<>> /\ promise[e.query] = "value"

\* The future has been moved out and the front continuation called and popped.
\* The query is complete when no continuation is left; with one left it stays,
\* with a future that will never be valid again.
Invoked(e)   == [e EXCEPT !.valid = FALSE, !.thens = Tail(e.thens)]
Completes(e) == Invokes(e) /\ Len(e.thens) = 1

-----------------------------------------------------------------------------
(* AsyncCallbackProcessor.                                                 *)

\* AddCallback moves the new query into the vector, and the vector into a
\* larger one when it is full; Then is called on the reference it returns.
Grown(size)    == (size + 1) .. (IF size = 0 THEN 1 ELSE 2 * size)

AddCallback(q) ==
    /\ ~crashed
    /\ promise[q] = "unborn"
    /\ \A p \in Queries : p < q => promise[p] # "unborn"
    /\ promise' = [promise EXCEPT ![q] = "pending"]
    /\ \E n \in 1 .. MaxThens :
           LET new   == [query |-> q, valid |-> TRUE,
                         thens |-> [i \in 1 .. n |-> <<q, i>>]]
               moved == [i \in DOMAIN callbacks |-> MoveConstruct(callbacks[i])]
           IN  IF Len(callbacks) < capacity
               THEN /\ callbacks' = Append(callbacks, new)
                    /\ UNCHANGED capacity
               ELSE /\ callbacks' = Append(moved, new)
                    /\ capacity' \in Grown(Len(callbacks))
    /\ UNCHANGED <<deliveries, thrown, crashed>>

\* The worker sets the promise, or deletes the task with the promise unset.
Resolve(q) == /\ ~crashed
              /\ promise[q] = "pending"
              /\ \E outcome \in {"value", "broken"} :
                     promise' = [promise EXCEPT ![q] = outcome]
              /\ UNCHANGED <<callbacks, capacity, deliveries, thrown, crashed>>

\* remove_if calls InvokeIfReady on each element in turn, up to the first that
\* throws or crashes.
Stops(i)    == FrontOfNothing(callbacks[i]) \/ Throws(callbacks[i])
Reached     == {i \in DOMAIN callbacks : \A j \in 1 .. (i - 1) : ~Stops(j)}
Delivered   == {[then |-> Head(callbacks[i].thens), query |-> callbacks[i].query] :
                    i \in {j \in Reached : Invokes(callbacks[j])}}

\* What remove_if and erase leave: the elements that are not complete, in their
\* order, each behind a gap move-assigned to the element in whose place it comes
\* to stand.
BeforeGap    == {i \in DOMAIN callbacks : \A j \in 1 .. i : ~Completes(callbacks[j])}
Kept         == {i \in DOMAIN callbacks : ~Completes(callbacks[i])}
Place(i)     == Cardinality({j \in Kept : j <= i})
AfterCall(i) == IF Invokes(callbacks[i]) THEN Invoked(callbacks[i]) ELSE callbacks[i]
MovedTo(k)   == CHOOSE i \in Kept : Place(i) = k
Survivor(k)  == IF MovedTo(k) = k THEN AfterCall(k)
                                  ELSE MoveAssign(AfterCall(k), AfterCall(MovedTo(k)))
Survivors    == [k \in 1 .. Cardinality(Kept) |-> Survivor(k)]

ProcessReadyCallbacks ==
    /\ ~crashed
    /\ callbacks # <<>>
    /\ deliveries' = deliveries \cup Delivered
    /\ crashed'    = \E i \in Reached : FrontOfNothing(callbacks[i])
    /\ thrown'     = (thrown \/ \E i \in Reached : Throws(callbacks[i]))
    /\ IF \E i \in Reached : Stops(i)
       THEN callbacks' = <<>> /\ capacity' = 0
       ELSE /\ callbacks' = [k \in DOMAIN Survivors |-> MoveConstruct(Survivors[k])]
            /\ capacity'  = Len(Survivors)
    /\ UNCHANGED promise

Next == \/ ProcessReadyCallbacks
        \/ \E q \in Queries : AddCallback(q) \/ Resolve(q)

Spec == Init /\ [][Next]_vars

-----------------------------------------------------------------------------
(* Properties.                                                             *)

Elements == [query : Queries, valid : BOOLEAN,
             thens : {<<>>} \cup UNION {[1 .. n -> Thens] : n \in 1 .. MaxThens}]

TypeOK == /\ callbacks \in Seq(Elements)
          /\ capacity \in Nat
          /\ Len(callbacks) <= capacity
          /\ promise \in [Queries -> {"unborn", "pending", "value", "broken"}]
          /\ deliveries \subseteq [then : Thens, query : Queries]
          /\ thrown \in BOOLEAN
          /\ crashed \in BOOLEAN

\* A continuation is called with the result of the query it was given to, never
\* with that of another, whatever the vector has moved over what in between.
NoForeignResult == \A d \in deliveries : d.then[1] = d.query

\* A query leaves the processor only by having a continuation called, unless an
\* exception has emptied the processor.
InFlight(q)   == \E i \in DOMAIN callbacks : callbacks[i].query = q
WasServed(q)  == \E d \in deliveries : d.query = q
NoQueryForgotten ==
    \A q \in Queries :
        promise[q] = "unborn" \/ InFlight(q) \/ WasServed(q) \/ thrown \/ crashed
=============================================================================
