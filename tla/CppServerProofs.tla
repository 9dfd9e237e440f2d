--------------------------- MODULE CppServerProofs --------------------------
(* The counter of connections and the drained stop of CppServer, for any      *)
(* number of clients and any limit.                                           *)
EXTENDS CppServer, FiniteSetTheorems, TLAPS

\* What the counter says of the accept loop: it accepts only below the limit,
\* and done_timer is cancelled, and server_run over, only at zero.
LoopAgrees == /\ main = "accepting" => active < MaxConnections
              /\ woken => main = "waiting"
              /\ woken \/ main = "stopped" => active = 0

IInv == TypeOK /\ ActiveCounts /\ LoopAgrees /\ DoneTimerWatched

LEMMA HandlersFinite ==
    /\ IsFiniteSet(Handlers)
    /\ Cardinality(Handlers) \in Nat
  BY CppServerAssumption, FS_Subset, FS_CardinalityType
  DEF CppServerAssumption, Handlers

LEMMA SameHandlers ==
    ASSUME TypeOK, NEW c \in Clients, NEW to, conn' = [conn EXCEPT ![c] = to],
           conn[c] \in Alive <=> to \in Alive
    PROVE  Handlers' = Handlers
  BY DEF TypeOK, Handlers

LEMMA OneMoreHandler ==
    ASSUME TypeOK, NEW c \in Clients, NEW to, conn' = [conn EXCEPT ![c] = to],
           conn[c] \notin Alive, to \in Alive
    PROVE  Cardinality(Handlers') = Cardinality(Handlers) + 1
<1>1. Handlers' = Handlers \cup {c} /\ c \notin Handlers
  BY DEF TypeOK, Handlers
<1> QED BY <1>1, HandlersFinite, FS_AddElement

LEMMA OneLessHandler ==
    ASSUME TypeOK, NEW c \in Clients, NEW to, conn' = [conn EXCEPT ![c] = to],
           conn[c] \in Alive, to \notin Alive
    PROVE  /\ Cardinality(Handlers') = Cardinality(Handlers) - 1
           /\ Cardinality(Handlers') \in Nat
<1>1. Handlers' = Handlers \ {c} /\ c \in Handlers
  BY DEF TypeOK, Handlers
<1>2. IsFiniteSet(Handlers \ {c})
  BY HandlersFinite, FS_RemoveElement
<1> QED BY <1>1, <1>2, HandlersFinite, FS_RemoveElement, FS_CardinalityType

LEMMA InitIInv == Init => IInv
<1> SUFFICES ASSUME Init PROVE IInv
  OBVIOUS
<1>1. TypeOK
  BY DEF Init, TypeOK
<1>2. Handlers = {}
  BY DEF Init, Handlers, Alive
<1>3. ActiveCounts /\ LoopAgrees
  BY <1>2, FS_EmptySet, CppServerAssumption
  DEF Init, ActiveCounts, LoopAgrees, CppServerAssumption
<1> QED BY <1>1, <1>3 DEF Init, IInv, DoneTimerWatched

-----------------------------------------------------------------------------
\* The steps that start or end no handler.

LEMMA ConnectIInv ==
    ASSUME IInv, NEW c \in Clients, Connect(c) \/ Close(c)
    PROVE  IInv'
<1> USE DEF IInv
<1>1. Handlers' = Handlers
  <2>1. CASE Connect(c)
    BY <2>1, SameHandlers DEF Connect, Alive
  <2>2. CASE Close(c)
    BY <2>2 DEF Close, Handlers
  <2> QED BY <2>1, <2>2
<1>2. TypeOK'
  BY DEF Connect, Close, TypeOK
<1> QED
  BY <1>1, <1>2 DEF Connect, Close, ActiveCounts, LoopAgrees, DoneTimerWatched

LEMMA LoopIInv ==
    ASSUME IInv, \/ AcceptAborted \/ AcceptFails \/ BackoffElapses
                 \/ LimitElapses \/ DoneTimerFires \/ Trigger \/ CloseAcceptor
    PROVE  IInv'
<1> USE DEF IInv
<1>1. Handlers' = Handlers /\ active' = active
  BY DEF AcceptAborted, AcceptFails, BackoffElapses, LimitElapses,
         DoneTimerFires, Trigger, CloseAcceptor, Handlers
<1>2. ActiveCounts'
  BY <1>1 DEF ActiveCounts
<1>3. CASE \/ AcceptAborted \/ AcceptFails \/ BackoffElapses \/ LimitElapses
  <2>1. TypeOK'
    BY <1>3 DEF AcceptAborted, AcceptFails, BackoffElapses, LimitElapses,
                LoopWith, Drain, TypeOK
  <2>2. ~woken /\ ~woken'
    BY <1>3 DEF AcceptAborted, AcceptFails, BackoffElapses, LimitElapses, LoopAgrees
  <2>3. /\ main' = "accepting" => active < MaxConnections
        /\ main' = "stopped" => active = 0
        /\ main' = "waiting" => active > 0
    BY <1>3, CppServerAssumption
    DEF AcceptAborted, AcceptFails, BackoffElapses, LimitElapses,
                LoopWith, Drain, TypeOK, CppServerAssumption
  <2> QED BY <1>1, <1>2, <2>1, <2>2, <2>3 DEF LoopAgrees, DoneTimerWatched
<1>4. CASE DoneTimerFires
  BY <1>2, <1>4 DEF DoneTimerFires, TypeOK, LoopAgrees, DoneTimerWatched
<1>5. CASE Trigger \/ CloseAcceptor
  <2>1. UNCHANGED <<main, backoff, active, woken, conn, closed>>
    BY <1>5 DEF Trigger, CloseAcceptor
  <2>2. TypeOK'
    BY <1>5 DEF Trigger, CloseAcceptor, TypeOK
  <2>3. LoopAgrees' /\ DoneTimerWatched'
    BY <2>1 DEF LoopAgrees, DoneTimerWatched
  <2> QED BY <1>2, <2>2, <2>3
<1> QED BY <1>3, <1>4, <1>5

-----------------------------------------------------------------------------
\* A handler starts: the counter was below the limit, as the loop was accepting.
LEMMA AcceptedIInv ==
    ASSUME IInv, NEW c \in Clients, Accepted(c)
    PROVE  IInv'
<1> USE DEF IInv
<1>1. conn[c] = "backlog" /\ conn' = [conn EXCEPT ![c] = "spawned"]
  BY DEF Accepted
<1>2. Cardinality(Handlers') = Cardinality(Handlers) + 1
  BY <1>1, OneMoreHandler DEF Alive
<1>3. active < MaxConnections /\ active' = active + 1 /\ active' > 0 /\ ~woken'
  BY DEF Accepted, LoopAgrees, TypeOK
<1>4. ActiveCounts'
  BY <1>2, <1>3, CppServerAssumption
  DEF ActiveCounts, TypeOK, CppServerAssumption
<1>5. TypeOK'
  BY DEF Accepted, LoopWith, Drain, TypeOK, Alive
<1>6. LoopAgrees' /\ DoneTimerWatched'
  BY <1>3, <1>5, CppServerAssumption
  DEF Accepted, LoopWith, Drain, LoopAgrees, DoneTimerWatched, TypeOK,
      CppServerAssumption
<1> QED BY <1>4, <1>5, <1>6

\* A handler ends: there was one, so the counter was positive, and the last one
\* wakes a server_run that waits.
LEMMA EndsIInv ==
    ASSUME IInv, NEW c \in Clients, conn[c] \in Alive,
           Moves(c, conn[c], "gone"), Ends
    PROVE  IInv'
<1> USE DEF IInv
<1>1. /\ Cardinality(Handlers') = Cardinality(Handlers) - 1
      /\ Cardinality(Handlers') \in Nat
  BY OneLessHandler DEF Moves, Alive
<1>2. active' = active - 1 /\ active' \in Nat /\ active > 0
  BY <1>1, HandlersFinite DEF Ends, ActiveCounts, TypeOK
<1>3. TypeOK'
  BY <1>2 DEF Ends, Moves, TypeOK
<1>4. ActiveCounts'
  BY <1>1, <1>2, CppServerAssumption
  DEF ActiveCounts, TypeOK, CppServerAssumption
<1>5. ~woken /\ main # "stopped" /\ main' = main
  BY <1>2 DEF LoopAgrees, Moves
<1>6. woken' <=> active = 1 /\ main = "waiting"
  BY <1>5 DEF Ends
<1>7. active' = 0 <=> active = 1
  BY <1>2 DEF TypeOK
<1>8. main' = "accepting" => active' < MaxConnections
  BY <1>2, <1>5, CppServerAssumption DEF LoopAgrees, TypeOK, CppServerAssumption
<1>9. LoopAgrees'
  BY <1>5, <1>6, <1>7, <1>8 DEF LoopAgrees
<1>10. active = 1 \/ active' > 0
  BY <1>2 DEF TypeOK
<1>11. DoneTimerWatched'
  BY <1>5, <1>6, <1>7, <1>10 DEF DoneTimerWatched
<1> QED BY <1>3, <1>4, <1>9, <1>11

\* A handler goes on.
LEMMA GoesOnIInv ==
    ASSUME IInv, NEW c \in Clients, NEW to \in Alive, conn[c] \in Alive,
           Moves(c, conn[c], to), UNCHANGED <<active, woken>>
    PROVE  IInv'
<1> USE DEF IInv
<1>1. Handlers' = Handlers
  BY SameHandlers DEF Moves
<1> QED
  BY <1>1 DEF Moves, TypeOK, ActiveCounts, LoopAgrees, DoneTimerWatched

LEMMA HandlerIInv ==
    ASSUME IInv, NEW c \in Clients, Handler(c)
    PROVE  IInv'
<1>1. CASE \/ Start(c) \/ Written(c) \/ SubscribeDisconnected(c)
           \/ \E to \in {"writing", "subscribed"} : TakeFrame(c, to)
  <2>1. PICK to \in Alive : /\ conn[c] \in Alive /\ Moves(c, conn[c], to)
                            /\ UNCHANGED <<active, woken>>
    BY <1>1 DEF Start, Written, SubscribeDisconnected, TakeFrame, Moves, Alive
  <2> QED BY <2>1, GoesOnIInv
<1>2. CASE \/ StartLate(c) \/ ReadFails(c) \/ WrittenLast(c) \/ WriteFails(c)
           \/ SubscribeShutdown(c) \/ SubscribeFails(c)
  <2>1. conn[c] \in Alive /\ Moves(c, conn[c], "gone") /\ Ends
    BY <1>2 DEF StartLate, ReadFails, WrittenLast, WriteFails,
                SubscribeShutdown, SubscribeFails, Moves, Alive
  <2> QED BY <2>1, EndsIInv
<1> QED BY <1>1, <1>2 DEF Handler

LEMMA NextIInv == IInv /\ [Next]_vars => IInv'
<1> SUFFICES ASSUME IInv, [Next]_vars PROVE IInv'
  OBVIOUS
<1>1. CASE UNCHANGED vars
  BY <1>1 DEF vars, IInv, TypeOK, ActiveCounts, LoopAgrees, DoneTimerWatched,
              Handlers
<1>2. CASE \E c \in Clients : Connect(c) \/ Close(c) \/ Accepted(c) \/ Handler(c)
  BY <1>2, ConnectIInv, AcceptedIInv, HandlerIInv
<1>3. CASE \/ AcceptAborted \/ AcceptFails \/ BackoffElapses \/ LimitElapses
           \/ DoneTimerFires \/ Trigger \/ CloseAcceptor
  BY <1>3, LoopIInv
<1> QED BY <1>1, <1>2, <1>3 DEF Next

\* C++ server, server.cpp:94-230: the inductive invariant holds of every run.
THEOREM Inductive == Spec => []IInv
<1> QED BY InitIInv, NextIInv, PTL DEF Spec

\* The state keeps its types; the counter never goes below zero.
THEOREM TypeCorrect == Spec => []TypeOK
<1>1. IInv => TypeOK
  BY DEF IInv
<1> QED BY <1>1, Inductive, PTL

\* The counter is the number of handlers and stays within the limit, although
\* the limit is tested before the accept is awaited (server.cpp:100, 135, 147).
THEOREM AlwaysCounted == Spec => []ActiveCounts
<1>1. IInv => ActiveCounts
  BY DEF IInv
<1> QED BY <1>1, Inductive, PTL

\* A server_run that waits for done_timer has a handler left, or was woken
\* (server.cpp:147-159).
THEOREM NeverWaitsInVain == Spec => []DoneTimerWatched
<1>1. IInv => DoneTimerWatched
  BY DEF IInv
<1> QED BY <1>1, Inductive, PTL

\* server_run is over only when the last handler ended (server.cpp:147-165).
THEOREM StopsDrained == Spec => []StoppedMeansDrained
<1>1. IInv => StoppedMeansDrained
  BY HandlersFinite, FS_EmptySet
  DEF IInv, ActiveCounts, LoopAgrees, StoppedMeansDrained
<1> QED BY <1>1, Inductive, PTL
=============================================================================
