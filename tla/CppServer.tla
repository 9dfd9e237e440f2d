------------------------------ MODULE CppServer ------------------------------
(* server_run and handle_connection of translated-cpp/src/server.cpp with the *)
(* ShutdownSignal of shutdown.hpp, on the single thread of the io_context:    *)
(* each action is a coroutine's run from one co_await to the next.            *)
EXTENDS Naturals, FiniteSets

CONSTANTS Clients,
          MaxConnections, \* MAX_CONNECTIONS: 250
          MaxBackoff      \* the accept loop ends above this pause: 64 seconds

ASSUME CppServerAssumption == /\ MaxConnections \in Nat \ {0}
                              /\ MaxBackoff \in Nat
                              /\ IsFiniteSet(Clients)

VARIABLES
    main,       \* what server_run is suspended in: "accepting", "limited" (the
                \* 10 ms pause at the limit), "sleep" (the back-off), "waiting"
                \* (for done_timer); or "stopped"
    backoff,    \* the next pause after a failed accept, in seconds
    active,     \* the counter of active connections
    woken,      \* done_timer was cancelled while server_run waited on it
    triggered,  \* ShutdownSignal.triggered
    closer,     \* the coroutine that closes the acceptor
    conn,       \* where the connection of each client is
    closed      \* clients that closed their end

vars == <<main, backoff, active, woken, triggered, closer, conn, closed>>

\* Where a handle_connection coroutine can be suspended.
Alive == {"spawned", "reading", "writing", "subscribed"}

Handlers == {c \in Clients : conn[c] \in Alive}

Init == /\ main = "accepting"
        /\ backoff = 1
        /\ active = 0
        /\ woken = FALSE
        /\ triggered = FALSE
        /\ closer = "waiting"
        /\ conn = [c \in Clients |-> "none"]
        /\ closed = {}

-----------------------------------------------------------------------------
\* Clients

Connect(c) ==
    /\ conn[c] = "none"
    /\ conn' = [conn EXCEPT ![c] = "backlog"]
    /\ UNCHANGED <<main, backoff, active, woken, triggered, closer, closed>>

Close(c) ==
    /\ conn[c] # "none"
    /\ c \notin closed
    /\ closed' = closed \cup {c}
    /\ UNCHANGED <<main, backoff, active, woken, triggered, closer, conn>>

-----------------------------------------------------------------------------
\* server_run

\* After the accept loop: wait for done_timer unless nothing is active.
StopsAtOne(n) == IF n > 1 THEN "waiting" ELSE "stopped"
AlwaysWaits(n) == "waiting"
Drain(n) == IF n > 0 THEN "waiting" ELSE "stopped"

\* From the head of the accept loop to its next co_await.
LoopOverLimit(n) == IF triggered THEN Drain(n)
                    ELSE IF n > MaxConnections THEN "limited"
                    ELSE "accepting"
LoopWith(n) == IF triggered THEN Drain(n)
               ELSE IF n >= MaxConnections THEN "limited"
               ELSE "accepting"

Accepted(c) ==
    /\ main = "accepting"
    /\ conn[c] = "backlog"
    /\ conn' = [conn EXCEPT ![c] = "spawned"]
    /\ active' = active + 1
    /\ backoff' = 1
    /\ main' = LoopWith(active')
    /\ UNCHANGED <<woken, triggered, closer, closed>>

\* The closed acceptor aborts the accept.
AcceptAborted ==
    /\ main = "accepting"
    /\ closer = "done"
    /\ main' = Drain(active)
    /\ UNCHANGED <<backoff, active, woken, triggered, closer, conn, closed>>

AcceptFails ==
    /\ main = "accepting"
    /\ main' = IF triggered \/ backoff > MaxBackoff THEN Drain(active) ELSE "sleep"
    /\ UNCHANGED <<backoff, active, woken, triggered, closer, conn, closed>>

BackoffElapses ==
    /\ main = "sleep"
    /\ backoff' = backoff * 2
    /\ main' = LoopWith(active)
    /\ UNCHANGED <<active, woken, triggered, closer, conn, closed>>

LimitElapses ==
    /\ main = "limited"
    /\ main' = LoopWith(active)
    /\ UNCHANGED <<backoff, active, woken, triggered, closer, conn, closed>>

DoneTimerFires ==
    /\ main = "waiting"
    /\ woken
    /\ main' = "stopped"
    /\ woken' = FALSE
    /\ UNCHANGED <<backoff, active, triggered, closer, conn, closed>>

\* ShutdownSignal::trigger, and the coroutine it lets close the acceptor.
Trigger ==
    /\ ~triggered
    /\ triggered' = TRUE
    /\ closer' = "ready"
    /\ UNCHANGED <<main, backoff, active, woken, conn, closed>>

CloseAcceptor ==
    /\ closer = "ready"
    /\ closer' = "done"
    /\ UNCHANGED <<main, backoff, active, woken, triggered, conn, closed>>

-----------------------------------------------------------------------------
\* handle_connection

Moves(c, from, to) ==
    /\ conn[c] = from
    /\ conn' = [conn EXCEPT ![c] = to]
    /\ UNCHANGED <<main, backoff, triggered, closer, closed>>

\* The coroutine returns; the last one out cancels done_timer.
EndsUncounted == UNCHANGED <<active, woken>>
EndsSilently ==
    /\ active' = active - 1
    /\ UNCHANGED woken
Ends == /\ active' = active - 1
        /\ woken' = (woken \/ (active = 1 /\ main = "waiting"))

\* The coroutine starts: after the shutdown it ends before its first read.
Start(c) ==
    /\ ~triggered
    /\ Moves(c, "spawned", "reading")
    /\ UNCHANGED <<active, woken>>

StartLate(c) ==
    /\ triggered
    /\ Moves(c, "spawned", "gone")
    /\ Ends

\* A frame is read: a command is applied and its answer being written, a
\* SUBSCRIBE enters its loop.  What the client sent before it closed is read.
TakeFrame(c, to) ==
    /\ Moves(c, "reading", to)
    /\ to \in {"writing", "subscribed"}
    /\ UNCHANGED <<active, woken>>

\* A protocol error, or the client is gone.
ReadFails(c) == Moves(c, "reading", "gone") /\ Ends

\* The answer is written; the loop ends there after the shutdown.
Written(c) ==
    /\ conn[c] = "writing"
    /\ ~triggered
    /\ Moves(c, "writing", "reading")
    /\ UNCHANGED <<active, woken>>

WrittenLast(c) ==
    /\ triggered
    /\ Moves(c, "writing", "gone")
    /\ Ends

WriteFails(c) ==
    /\ c \in closed
    /\ Moves(c, "writing", "gone")
    /\ Ends

\* CmdSubscribe::apply returns at the shutdown or when the client is gone.
SubscribeShutdown(c) ==
    /\ triggered
    /\ Moves(c, "subscribed", "gone")
    /\ Ends

SubscribeDisconnected(c) ==
    /\ c \in closed
    /\ ~triggered
    /\ Moves(c, "subscribed", "reading")
    /\ UNCHANGED <<active, woken>>

SubscribeFails(c) == Moves(c, "subscribed", "gone") /\ Ends

PeerGone(c) == c \in closed /\ ReadFails(c)

Handler(c) == \/ Start(c) \/ StartLate(c)
              \/ \E to \in {"writing", "subscribed"} : TakeFrame(c, to)
              \/ ReadFails(c) \/ Written(c) \/ WrittenLast(c) \/ WriteFails(c)
              \/ SubscribeShutdown(c) \/ SubscribeDisconnected(c)
              \/ SubscribeFails(c)

Next == \/ \E c \in Clients : Connect(c) \/ Close(c) \/ Accepted(c) \/ Handler(c)
        \/ AcceptAborted \/ AcceptFails \/ BackoffElapses \/ LimitElapses
        \/ DoneTimerFires \/ Trigger \/ CloseAcceptor

\* The io_context runs what is ready, timers expire, clients read what they
\* are answered, and what a client sent before it closed is read up.  Clients
\* need not send or close.
Fairness == /\ WF_vars(AcceptAborted) /\ WF_vars(BackoffElapses)
            /\ WF_vars(LimitElapses) /\ WF_vars(DoneTimerFires)
            /\ WF_vars(CloseAcceptor)
            /\ \A c \in Clients :
                  /\ WF_vars(Start(c) \/ StartLate(c))
                  /\ SF_vars(PeerGone(c))
                  /\ WF_vars(Written(c) \/ WrittenLast(c) \/ WriteFails(c))
                  /\ WF_vars(SubscribeShutdown(c) \/ SubscribeDisconnected(c))

Spec == Init /\ [][Next]_vars /\ Fairness

-----------------------------------------------------------------------------
\* Types of the state.
TypeOK ==
    /\ main \in {"accepting", "limited", "sleep", "waiting", "stopped"}
    /\ backoff \in Nat
    /\ active \in Nat
    /\ woken \in BOOLEAN /\ triggered \in BOOLEAN
    /\ closer \in {"waiting", "ready", "done"}
    /\ conn \in [Clients -> {"none", "backlog", "gone"} \cup Alive]
    /\ closed \in SUBSET Clients

\* The counter is the number of handlers, whichever way they end, and stays
\* within the limit (server.cpp:100, 135, 147).
ActiveCounts == active = Cardinality(Handlers) /\ active <= MaxConnections

\* The accept loop is not re-entered and done_timer not waited for in vain:
\* a server_run that waits has a handler left to end its wait, or was woken
\* (server.cpp:147-159).
DoneTimerWatched == main = "waiting" => active > 0 \/ woken

\* The guard of the Db is destroyed after the last handler ended.
StoppedMeansDrained == main = "stopped" => Handlers = {}

\* Once every client is gone a shutdown completes, whatever the accept loop was
\* waiting for, a back-off included.
ShutdownCompletesWithoutClients ==
    (triggered /\ closed = Clients) ~> main = "stopped"
=============================================================================
