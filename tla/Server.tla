------------------------------- MODULE Server -------------------------------
(* `run`, Listener and Handler of original-rust/src/server.rs: connection     *)
(* permits, accept with back-off, and graceful shutdown.  The commands of a   *)
(* connection are opaque here, except that one of them may be a SUBSCRIBE,    *)
(* which keeps the handler in its own loop.                                   *)
EXTENDS Naturals, FiniteSets

CONSTANTS Clients,
          MaxConnections, \* permits of the semaphore: MAX_CONNECTIONS, 250
          MaxBackoff      \* accept gives up above this pause: 64 seconds

ASSUME ServerAssumption == /\ MaxConnections \in Nat \ {0}
                           /\ MaxBackoff \in Nat
                           /\ IsFiniteSet(Clients)

VARIABLES
    server,      \* run: "running", "draining" its connections, "stopped"
    listener,    \* Listener::run: "acquire", "accept", "sleep", "failed",
                 \* "dropped" with the select! that ran it
    backoff,     \* accept's next pause, in seconds
    permits,     \* available permits of limit_connections
    conn,        \* where the connection of each client is
    isShutdown,  \* the handler's Shutdown.is_shutdown
    closed       \* clients that closed their end

vars == <<server, listener, backoff, permits, conn, isShutdown, closed>>

accepting == <<listener, backoff>>

\* A handler that has not returned its permit, one that still holds its
\* shutdown_complete sender.
Permitted == {"check", "reading", "applying", "subscribed", "ended"}
Alive == Permitted \cup {"released"}

Handlers(S) == {c \in Clients : conn[c] \in S}

Init == /\ server = "running"
        /\ listener = "acquire"
        /\ backoff = 1
        /\ permits = MaxConnections
        /\ conn = [c \in Clients |-> "none"]
        /\ isShutdown = [c \in Clients |-> FALSE]
        /\ closed = {}

-----------------------------------------------------------------------------
\* Clients

Connect(c) ==
    /\ conn[c] = "none"
    /\ conn' = [conn EXCEPT ![c] = "backlog"]
    /\ UNCHANGED <<server, accepting, permits, isShutdown, closed>>

Close(c) ==
    /\ conn[c] # "none"
    /\ c \notin closed
    /\ closed' = closed \cup {c}
    /\ UNCHANGED <<server, accepting, permits, conn, isShutdown>>

-----------------------------------------------------------------------------
\* Listener::run and accept

AcquirePermit ==
    /\ listener = "acquire"
    /\ permits > 0
    /\ permits' = permits - 1
    /\ listener' = "accept"
    /\ backoff' = 1
    /\ UNCHANGED <<server, conn, isShutdown, closed>>

\* The socket, its handler with a subscribed Shutdown, and the spawned task.
Accept(c) ==
    /\ listener = "accept"
    /\ conn[c] = "backlog"
    /\ conn' = [conn EXCEPT ![c] = "check"]
    /\ listener' = "acquire"
    /\ UNCHANGED <<server, backoff, permits, isShutdown, closed>>

AcceptFails ==
    /\ listener = "accept"
    /\ listener' = IF backoff > MaxBackoff THEN "failed" ELSE "sleep"
    /\ UNCHANGED <<server, backoff, permits, conn, isShutdown, closed>>

BackoffElapses ==
    /\ listener = "sleep"
    /\ backoff' = backoff * 2
    /\ listener' = "accept"
    /\ UNCHANGED <<server, permits, conn, isShutdown, closed>>

-----------------------------------------------------------------------------
\* run: the select! ends with the shutdown future or with server.run(), whose
\* future it drops; then notify_shutdown and shutdown_complete_tx go.

StopListening ==
    /\ server' = "draining"
    /\ listener' = "dropped"
    /\ permits' = IF listener \in {"accept", "sleep", "failed"}
                  THEN permits + 1 ELSE permits
    /\ UNCHANGED <<backoff, conn, isShutdown, closed>>

ShutdownSignal == server = "running" /\ StopListening

ListenerFailed == server = "running" /\ listener = "failed" /\ StopListening

\* shutdown_complete_rx.recv() returns None; the DbDropGuard goes with run.
StopAtOnce ==
    /\ server = "draining"
    /\ Handlers(Permitted) = {}
    /\ server' = "stopped"
    /\ UNCHANGED <<accepting, permits, conn, isShutdown, closed>>
Stop ==
    /\ server = "draining"
    /\ Handlers(Alive) = {}
    /\ server' = "stopped"
    /\ UNCHANGED <<accepting, permits, conn, isShutdown, closed>>

-----------------------------------------------------------------------------
\* Handler::run

ShuttingDown == server # "running"

Moves(c, from, to) ==
    /\ conn[c] = from
    /\ conn' = [conn EXCEPT ![c] = to]
    /\ UNCHANGED <<server, accepting, closed>>

\* while !self.shutdown.is_shutdown()
CheckNothing(c) ==
    /\ Moves(c, "check", "reading")
    /\ UNCHANGED <<permits, isShutdown>>
CheckShutdown(c) ==
    /\ Moves(c, "check", IF isShutdown[c] THEN "ended" ELSE "reading")
    /\ UNCHANGED <<permits, isShutdown>>

\* read_frame wins the select!: a command, a SUBSCRIBE, or a frame that is
\* no command.  What the client sent before it closed is still read.
TakeFrame(c, to) ==
    /\ Moves(c, "reading", to)
    /\ to \in {"applying", "subscribed", "ended"}
    /\ UNCHANGED <<permits, isShutdown>>

PeerClosedRetries(c) ==
    /\ Moves(c, "reading", "check")
    /\ c \in closed
    /\ UNCHANGED <<permits, isShutdown>>
PeerClosed(c) ==
    /\ Moves(c, "reading", "ended")
    /\ c \in closed
    /\ UNCHANGED <<permits, isShutdown>>

\* shutdown.recv() wins.
ShutdownWhenClosed(c) ==
    /\ Moves(c, "reading", "ended")
    /\ ShuttingDown /\ c \in closed
    /\ isShutdown' = [isShutdown EXCEPT ![c] = TRUE]
    /\ UNCHANGED permits
ShutdownReceived(c) ==
    /\ Moves(c, "reading", "ended")
    /\ ShuttingDown
    /\ isShutdown' = [isShutdown EXCEPT ![c] = TRUE]
    /\ UNCHANGED permits

\* The answer is written, or the write fails.
AppliedOk(c) ==
    /\ Moves(c, "applying", "check")
    /\ UNCHANGED <<permits, isShutdown>>

ApplyFails(c) ==
    /\ Moves(c, "applying", "ended")
    /\ c \in closed
    /\ UNCHANGED <<permits, isShutdown>>

\* Subscribe::apply returns once it received the shutdown, when the client is
\* gone, or with an error.
SubscribeShutdown(c) ==
    /\ Moves(c, "subscribed", "check")
    /\ ShuttingDown
    /\ isShutdown' = [isShutdown EXCEPT ![c] = TRUE]
    /\ UNCHANGED permits

SubscribeDisconnected(c) ==
    /\ Moves(c, "subscribed", "check")
    /\ c \in closed
    /\ UNCHANGED <<permits, isShutdown>>

SubscribeFails(c) ==
    /\ Moves(c, "subscribed", "ended")
    /\ UNCHANGED <<permits, isShutdown>>

\* The spawned task drops the permit, then, as it ends, the handler.
ForgetPermit(c) ==
    /\ Moves(c, "ended", "released")
    /\ UNCHANGED <<permits, isShutdown>>
DropPermit(c) ==
    /\ Moves(c, "ended", "released")
    /\ permits' = permits + 1
    /\ UNCHANGED isShutdown

DropHandler(c) ==
    /\ Moves(c, "released", "gone")
    /\ UNCHANGED <<permits, isShutdown>>

Handler(c) == \/ CheckShutdown(c)
              \/ \E to \in {"applying", "subscribed", "ended"} : TakeFrame(c, to)
              \/ PeerClosed(c) \/ ShutdownReceived(c)
              \/ AppliedOk(c) \/ ApplyFails(c)
              \/ SubscribeShutdown(c) \/ SubscribeDisconnected(c)
              \/ SubscribeFails(c)
              \/ DropPermit(c) \/ DropHandler(c)

Next == \/ \E c \in Clients : Connect(c) \/ Close(c) \/ Accept(c) \/ Handler(c)
        \/ AcquirePermit \/ AcceptFails \/ BackoffElapses
        \/ ShutdownSignal \/ ListenerFailed \/ Stop

\* Tasks that are ready run, clients read the answers to their commands, and
\* select!, which polls its branches in random order, does not pass over a
\* branch that stays ready for ever.  Clients need not send or close.
Fairness == /\ WF_vars(Stop) /\ WF_vars(ListenerFailed)
            /\ WF_vars(AcquirePermit) /\ WF_vars(BackoffElapses)
            /\ \A c \in Clients :
                  /\ WF_vars(CheckShutdown(c))
                  /\ WF_vars(AppliedOk(c) \/ ApplyFails(c))
                  /\ SF_vars(ShutdownReceived(c))
                  /\ SF_vars(PeerClosed(c))
                  /\ WF_vars(SubscribeShutdown(c))
                  /\ WF_vars(SubscribeDisconnected(c))
                  /\ WF_vars(DropPermit(c)) /\ WF_vars(DropHandler(c))

Spec == Init /\ [][Next]_vars /\ Fairness

-----------------------------------------------------------------------------
\* Types of the state.
TypeOK ==
    /\ server \in {"running", "draining", "stopped"}
    /\ listener \in {"acquire", "accept", "sleep", "failed", "dropped"}
    /\ backoff \in Nat
    /\ permits \in 0..MaxConnections
    /\ conn \in [Clients -> {"none", "backlog", "gone"} \cup Alive]
    /\ isShutdown \in [Clients -> BOOLEAN]
    /\ closed \in SUBSET Clients

\* Every permit is available, held by the listener or held by one handler:
\* none is lost on the paths that end a connection or an accept, so that the
\* server never runs more than MaxConnections handlers, nor fewer than it may
\* (server.rs:31-39, 226-266).
PermitsConserved ==
    permits + Cardinality(Handlers(Permitted))
            + (IF listener \in {"accept", "sleep", "failed"} THEN 1 ELSE 0)
        = MaxConnections

\* The server stops, and the Db's guard with it, only when no handler is left
\* that could use the Db (server.rs:178-198).
StoppedMeansDrained == server = "stopped" => Handlers(Alive) = {}

\* A handler that received the shutdown takes no further command
\* (server.rs:86-94, 321).
NoCommandAfterShutdown ==
    [][\A c \in Clients :
          isShutdown[c] => conn'[c] \notin {"applying", "subscribed"}]_vars

\* Graceful shutdown completes, however idle its clients are, and so does a
\* listener's failure (server.rs:160-198).
ShutdownCompletes == (server = "draining") ~> (server = "stopped")

\* A connection its client closed goes away and gives its permit back.
ClosedConnectionsEnd ==
    \A c \in Clients :
        (c \in closed /\ conn[c] \in Alive) ~> (conn[c] = "gone")
=============================================================================
