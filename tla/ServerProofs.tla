---------------------------- MODULE ServerProofs ----------------------------
(* The permits and the drained stop of Server, for any number of clients and  *)
(* of permits.                                                                *)
EXTENDS Server, FiniteSetTheorems, TLAPS

\* A server that left its select! has dropped the listener, which is why no
\* handler starts once they are drained.
NoListenerAfterRun == server # "running" => listener = "dropped"

IInv == TypeOK /\ PermitsConserved /\ NoListenerAfterRun /\ StoppedMeansDrained

\* The handlers with a permit can be counted.
LEMMA PermittedFinite ==
    /\ IsFiniteSet(Handlers(Permitted))
    /\ Cardinality(Handlers(Permitted)) \in Nat
  BY ServerAssumption, FS_Subset, FS_CardinalityType
  DEF ServerAssumption, Handlers

\* A connection that neither takes nor returns a permit leaves the count.
LEMMA SamePermitted ==
    ASSUME TypeOK, NEW c \in Clients, NEW to,
           conn' = [conn EXCEPT ![c] = to],
           conn[c] \in Permitted <=> to \in Permitted
    PROVE  Handlers(Permitted)' = Handlers(Permitted)
  BY DEF TypeOK, Handlers

LEMMA OneMorePermitted ==
    ASSUME TypeOK, NEW c \in Clients, NEW to,
           conn' = [conn EXCEPT ![c] = to],
           conn[c] \notin Permitted, to \in Permitted
    PROVE  Cardinality(Handlers(Permitted)') = Cardinality(Handlers(Permitted)) + 1
<1>1. Handlers(Permitted)' = Handlers(Permitted) \cup {c} /\ c \notin Handlers(Permitted)
  BY DEF TypeOK, Handlers
<1> QED BY <1>1, PermittedFinite, FS_AddElement

LEMMA OneLessPermitted ==
    ASSUME TypeOK, NEW c \in Clients, NEW to,
           conn' = [conn EXCEPT ![c] = to],
           conn[c] \in Permitted, to \notin Permitted
    PROVE  Cardinality(Handlers(Permitted)') = Cardinality(Handlers(Permitted)) - 1
<1>1. Handlers(Permitted)' = Handlers(Permitted) \ {c} /\ c \in Handlers(Permitted)
  BY DEF TypeOK, Handlers
<1> QED BY <1>1, PermittedFinite, FS_RemoveElement

LEMMA InitIInv == Init => IInv
<1> SUFFICES ASSUME Init PROVE IInv
  OBVIOUS
<1> USE DEF Init
<1>1. TypeOK
  BY ServerAssumption DEF TypeOK, ServerAssumption
<1>2. Handlers(Permitted) = {}
  BY DEF Handlers, Permitted
<1>3. PermitsConserved
  BY <1>2, FS_EmptySet, ServerAssumption DEF PermitsConserved, ServerAssumption
<1> QED BY <1>1, <1>3 DEF IInv, NoListenerAfterRun, StoppedMeansDrained

-----------------------------------------------------------------------------
\* The steps that move no connection.
LEMMA ListenerStep ==
    ASSUME IInv, AcquirePermit \/ AcceptFails \/ BackoffElapses \/ StopListening
    PROVE  permits' \in Nat /\ PermitsConserved'
<1> USE DEF IInv, TypeOK
<1>1. Handlers(Permitted)' = Handlers(Permitted)
  BY DEF AcquirePermit, AcceptFails, BackoffElapses, StopListening, Handlers
<1>2. Cardinality(Handlers(Permitted)) \in Nat
  BY PermittedFinite
<1>3. CASE AcquirePermit
  BY <1>1, <1>2, <1>3 DEF AcquirePermit, PermitsConserved
<1>4. CASE AcceptFails
  BY <1>1, <1>2, <1>4 DEF AcceptFails, PermitsConserved
<1>5. CASE BackoffElapses
  BY <1>1, <1>2, <1>5 DEF BackoffElapses, PermitsConserved
<1>6. CASE StopListening
  BY <1>1, <1>2, <1>6, ServerAssumption
  DEF StopListening, PermitsConserved, ServerAssumption
<1> QED BY <1>3, <1>4, <1>5, <1>6

LEMMA RunIInv ==
    ASSUME IInv, \/ AcquirePermit \/ AcceptFails \/ BackoffElapses
                 \/ ShutdownSignal \/ ListenerFailed \/ Stop
    PROVE  IInv'
<1> USE DEF IInv
<1>1. CASE Stop
  <2>1. Handlers(Alive)' = Handlers(Alive) /\ Handlers(Permitted)' = Handlers(Permitted)
    BY <1>1 DEF Stop, Handlers
  <2>2. TypeOK' /\ PermitsConserved' /\ NoListenerAfterRun'
    BY <1>1, <2>1 DEF Stop, accepting, TypeOK, PermitsConserved, NoListenerAfterRun
  <2>3. StoppedMeansDrained'
    BY <1>1, <2>1 DEF Stop, StoppedMeansDrained
  <2> QED BY <2>2, <2>3
<1>2. CASE ~Stop
  <2>1. AcquirePermit \/ AcceptFails \/ BackoffElapses \/ StopListening
    BY <1>2 DEF ShutdownSignal, ListenerFailed
  <2>2. permits' \in Nat /\ PermitsConserved'
    BY <2>1, ListenerStep
  <2>3. permits' \in 0..MaxConnections
    <3>1. Cardinality(Handlers(Permitted)') \in Nat
      BY <2>1, PermittedFinite
      DEF AcquirePermit, AcceptFails, BackoffElapses, StopListening, Handlers
    <3> QED
      BY <2>2, <3>1, ServerAssumption DEF PermitsConserved, ServerAssumption
  <2>4. TypeOK'
    BY <2>1, <2>3
    DEF TypeOK, AcquirePermit, AcceptFails, BackoffElapses, StopListening
  <2>5. NoListenerAfterRun'
    BY <1>2 DEF NoListenerAfterRun, AcquirePermit, AcceptFails, BackoffElapses,
                ShutdownSignal, ListenerFailed, StopListening
  <2>6. StoppedMeansDrained'
    BY <2>1 DEF StoppedMeansDrained, Handlers, AcquirePermit, AcceptFails,
                BackoffElapses, StopListening
  <2> QED BY <2>2, <2>4, <2>5, <2>6
<1> QED BY <1>1, <1>2

-----------------------------------------------------------------------------
\* The steps of a connection.

LEMMA ConnectIInv ==
    ASSUME IInv, NEW c \in Clients, Connect(c)
    PROVE  IInv'
<1> USE DEF IInv
<1>1. conn[c] = "none" /\ conn' = [conn EXCEPT ![c] = "backlog"]
  BY DEF Connect
<1>2. Handlers(Permitted)' = Handlers(Permitted)
  BY <1>1, SamePermitted DEF Permitted
<1>3. TypeOK' /\ PermitsConserved' /\ NoListenerAfterRun'
  BY <1>2 DEF Connect, accepting, TypeOK, PermitsConserved, NoListenerAfterRun
<1>4. StoppedMeansDrained'
  BY <1>1 DEF Connect, StoppedMeansDrained, Handlers, Alive, Permitted, TypeOK
<1> QED BY <1>3, <1>4

LEMMA CloseIInv ==
    ASSUME IInv, NEW c \in Clients, Close(c)
    PROVE  IInv'
  BY DEF IInv, Close, accepting, TypeOK, PermitsConserved, NoListenerAfterRun,
         StoppedMeansDrained, Handlers

\* The permit goes from the listener to the handler.
LEMMA AcceptIInv ==
    ASSUME IInv, NEW c \in Clients, Accept(c)
    PROVE  IInv'
<1> USE DEF IInv
<1>1. conn[c] = "backlog" /\ conn' = [conn EXCEPT ![c] = "check"]
  BY DEF Accept
<1>2. Cardinality(Handlers(Permitted)') = Cardinality(Handlers(Permitted)) + 1
  BY <1>1, OneMorePermitted DEF Permitted
<1>3. Cardinality(Handlers(Permitted)) \in Nat
  BY PermittedFinite
<1>4. PermitsConserved'
  BY <1>2, <1>3 DEF Accept, PermitsConserved, TypeOK
<1>5. TypeOK' /\ NoListenerAfterRun' /\ StoppedMeansDrained'
  BY DEF Accept, TypeOK, Alive, Permitted, NoListenerAfterRun, StoppedMeansDrained
<1> QED BY <1>4, <1>5

\* A handler's own step: only DropPermit changes the count, and the permits with
\* it; no step takes a connection that is not alive back to life.
LEMMA HandlerIInv ==
    ASSUME IInv, NEW c \in Clients, Handler(c)
    PROVE  IInv'
<1> USE DEF IInv
<1>1. CASE DropPermit(c)
  <2>1. conn[c] = "ended" /\ conn' = [conn EXCEPT ![c] = "released"]
    BY <1>1 DEF DropPermit, Moves
  <2>2. Cardinality(Handlers(Permitted)') = Cardinality(Handlers(Permitted)) - 1
    BY <2>1, OneLessPermitted DEF Permitted
  <2>3. /\ Cardinality(Handlers(Permitted)) \in Nat
        /\ Cardinality(Handlers(Permitted)') \in Nat
    <3>1. IsFiniteSet(Handlers(Permitted)')
      BY ServerAssumption, FS_Subset DEF ServerAssumption, Handlers
    <3> QED BY <3>1, PermittedFinite, FS_CardinalityType
  <2>4. permits' = permits + 1 /\ listener' = listener
    BY <1>1 DEF DropPermit, Moves, accepting
  <2>5. PermitsConserved'
    BY <2>2, <2>3, <2>4 DEF PermitsConserved, TypeOK
  <2>6. permits' \in 0..MaxConnections
    BY <2>3, <2>4, <2>5, ServerAssumption
    DEF PermitsConserved, ServerAssumption, TypeOK
  <2>7. TypeOK' /\ NoListenerAfterRun'
    BY <1>1, <2>6
    DEF DropPermit, Moves, accepting, TypeOK, Alive, NoListenerAfterRun
  <2>8. StoppedMeansDrained'
    BY <1>1, <2>1
    DEF DropPermit, Moves, StoppedMeansDrained, Handlers, Alive, Permitted, TypeOK
  <2> QED BY <2>5, <2>7, <2>8
<1>2. CASE ~DropPermit(c)
  <2>1. PICK to \in Alive \cup {"gone"} :
          /\ Moves(c, conn[c], to)
          /\ conn[c] \in Alive
          /\ conn[c] \in Permitted <=> to \in Permitted
          /\ isShutdown' \in [Clients -> BOOLEAN]
          /\ UNCHANGED permits
    <3>1. CASE CheckShutdown(c)
      BY <3>1 DEF CheckShutdown, Moves, Alive, Permitted, TypeOK
    <3>2. CASE \E to \in {"applying", "subscribed", "ended"} : TakeFrame(c, to)
      BY <3>2 DEF TakeFrame, Moves, Alive, Permitted, TypeOK
    <3>3. CASE PeerClosed(c) \/ ShutdownReceived(c)
      BY <3>3 DEF PeerClosed, ShutdownReceived, Moves, Alive, Permitted, TypeOK
    <3>4. CASE AppliedOk(c) \/ ApplyFails(c)
      BY <3>4 DEF AppliedOk, ApplyFails, Moves, Alive, Permitted, TypeOK
    <3>5. CASE \/ SubscribeShutdown(c) \/ SubscribeDisconnected(c)
               \/ SubscribeFails(c)
      BY <3>5 DEF SubscribeShutdown, SubscribeDisconnected, SubscribeFails,
                  Moves, Alive, Permitted, TypeOK
    <3>6. CASE DropHandler(c)
      BY <3>6 DEF DropHandler, Moves, Alive, Permitted, TypeOK
    <3> QED BY <1>2, <3>1, <3>2, <3>3, <3>4, <3>5, <3>6 DEF Handler
  <2>2. Handlers(Permitted)' = Handlers(Permitted)
    BY <2>1, SamePermitted DEF Moves
  <2>3. TypeOK' /\ PermitsConserved' /\ NoListenerAfterRun'
    BY <2>1, <2>2
    DEF Moves, accepting, TypeOK, PermitsConserved, NoListenerAfterRun
  <2>4. StoppedMeansDrained'
    BY <2>1 DEF Moves, StoppedMeansDrained, Handlers
  <2> QED BY <2>3, <2>4
<1> QED BY <1>1, <1>2

LEMMA NextIInv == IInv /\ [Next]_vars => IInv'
<1> SUFFICES ASSUME IInv, [Next]_vars PROVE IInv'
  OBVIOUS
<1>1. CASE UNCHANGED vars
  BY <1>1 DEF vars, accepting, IInv, TypeOK, PermitsConserved, NoListenerAfterRun,
              StoppedMeansDrained, Handlers
<1>2. CASE \E c \in Clients : Connect(c) \/ Close(c) \/ Accept(c) \/ Handler(c)
  BY <1>2, ConnectIInv, CloseIInv, AcceptIInv, HandlerIInv
<1>3. CASE \/ AcquirePermit \/ AcceptFails \/ BackoffElapses
           \/ ShutdownSignal \/ ListenerFailed \/ Stop
  BY <1>3, RunIInv
<1> QED BY <1>1, <1>2, <1>3 DEF Next

\* Rust server, server.rs:31-266: the inductive invariant holds of every run,
\* whatever the scheduling (fairness is not used).
THEOREM Inductive == Spec => []IInv
<1> QED BY InitIInv, NextIInv, PTL DEF Spec

\* The state keeps its types; permits stay between zero and MaxConnections.
THEOREM TypeCorrect == Spec => []TypeOK
<1>1. IInv => TypeOK
  BY DEF IInv
<1> QED BY <1>1, Inductive, PTL

\* No permit is lost or made on any path that ends an accept, a connection or
\* the server (server.rs:226-266).
THEOREM PermitsAlwaysConserved == Spec => []PermitsConserved
<1>1. IInv => PermitsConserved
  BY DEF IInv
<1> QED BY <1>1, Inductive, PTL

\* At most MaxConnections handlers hold a connection at any time
\* (server.rs:31-39).
THEOREM ConnectionLimit ==
    Spec => [](Cardinality(Handlers(Permitted)) <= MaxConnections)
<1>1. IInv => Cardinality(Handlers(Permitted)) <= MaxConnections
  BY PermittedFinite, ServerAssumption
  DEF IInv, TypeOK, PermitsConserved, ServerAssumption
<1> QED BY <1>1, Inductive, PTL

\* The server, and the Db's guard with it, goes only when no handler is left
\* (server.rs:178-198).
THEOREM StopsDrained == Spec => []StoppedMeansDrained
<1>1. IInv => StoppedMeansDrained
  BY DEF IInv
<1> QED BY <1>1, Inductive, PTL

\* Where a handler can be once it received the shutdown: at the head of its
\* loop, which it then leaves (server.rs:86-94), or past it.
ShutdownHandlersLeave ==
    \A c \in Clients : isShutdown[c] => conn[c] \in {"check", "ended", "released", "gone"}

LEMMA ShutdownLeavesStep ==
    TypeOK /\ ShutdownHandlersLeave /\ [Next]_vars => ShutdownHandlersLeave'
<1> SUFFICES ASSUME TypeOK, ShutdownHandlersLeave, [Next]_vars
             PROVE  ShutdownHandlersLeave'
  OBVIOUS
<1> USE DEF ShutdownHandlersLeave, TypeOK
<1>1. CASE UNCHANGED vars
  BY <1>1 DEF vars
<1>2. ASSUME NEW c \in Clients, Connect(c) \/ Close(c) \/ Accept(c)
      PROVE  ShutdownHandlersLeave'
  BY <1>2 DEF Connect, Close, Accept
<1>3. ASSUME NEW c \in Clients, Handler(c)
      PROVE  ShutdownHandlersLeave'
  <2>1. CASE CheckShutdown(c) \/ \E to \in {"applying", "subscribed", "ended"} : TakeFrame(c, to)
    BY <2>1 DEF CheckShutdown, TakeFrame, Moves
  <2>2. CASE PeerClosed(c) \/ ShutdownReceived(c) \/ AppliedOk(c) \/ ApplyFails(c)
    BY <2>2 DEF PeerClosed, ShutdownReceived, AppliedOk, ApplyFails, Moves
  <2>3. CASE SubscribeShutdown(c) \/ SubscribeDisconnected(c) \/ SubscribeFails(c)
    BY <2>3 DEF SubscribeShutdown, SubscribeDisconnected, SubscribeFails, Moves
  <2>4. CASE DropPermit(c) \/ DropHandler(c)
    BY <2>4 DEF DropPermit, DropHandler, Moves
  <2> QED BY <1>3, <2>1, <2>2, <2>3, <2>4 DEF Handler
<1>4. CASE \/ AcquirePermit \/ AcceptFails \/ BackoffElapses
           \/ ShutdownSignal \/ ListenerFailed \/ Stop
  BY <1>4 DEF AcquirePermit, AcceptFails, BackoffElapses, ShutdownSignal,
              ListenerFailed, StopListening, Stop
<1> QED BY <1>1, <1>2, <1>3, <1>4 DEF Next

\* A handler that received the shutdown takes no further command, for it is
\* never seen before a read or in one again (server.rs:86-94, 321).
THEOREM NoLateCommand == Spec => NoCommandAfterShutdown
<1>1. Init => ShutdownHandlersLeave
  BY DEF Init, ShutdownHandlersLeave
<1>2. ASSUME TypeOK, ShutdownHandlersLeave, [Next]_vars, NEW c \in Clients,
             isShutdown[c], isShutdown'[c], ShutdownHandlersLeave'
      PROVE  conn'[c] \notin {"applying", "subscribed"}
  BY <1>2 DEF ShutdownHandlersLeave
<1>3. ASSUME TypeOK, [Next]_vars, NEW c \in Clients, isShutdown[c]
      PROVE  isShutdown'[c]
  BY <1>3 DEF Next, vars, TypeOK, Connect, Close, Accept, AcquirePermit, AcceptFails,
              BackoffElapses, ShutdownSignal, ListenerFailed, StopListening, Stop,
              Handler, CheckShutdown, TakeFrame, PeerClosed, ShutdownReceived,
              AppliedOk, ApplyFails, SubscribeShutdown, SubscribeDisconnected,
              SubscribeFails, DropPermit, DropHandler, Moves
<1>4. TypeOK /\ ShutdownHandlersLeave /\ [Next]_vars
        => [\A c \in Clients :
              isShutdown[c] => conn'[c] \notin {"applying", "subscribed"}]_vars
  BY <1>2, <1>3, ShutdownLeavesStep
<1> QED
  BY <1>1, <1>4, ShutdownLeavesStep, TypeCorrect, PTL DEF Spec, NoCommandAfterShutdown
=============================================================================
