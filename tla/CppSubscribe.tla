---------------------------- MODULE CppSubscribe ----------------------------
(* CmdSubscribe::apply of translated-cpp/src/command.cpp for one client, with *)
(* the broadcast channels of db.hpp that feed it.  One thread runs every      *)
(* handler: the loop gives way only where it is suspended, in write_frame and *)
(* in the wait on wake_timer, and the labels in between belong to one step of *)
(* the scheduler.  Publishers, the shutdown watcher and the readability       *)
(* callback run while the loop is suspended.                                  *)
EXTENDS SubscriberFrames, SequencesExt

CONSTANTS Initial,      \* the channels of the SUBSCRIBE that starts the loop
          Commands,     \* the commands the client may send afterwards
          MaxCommands,  \* bound on how many it sends
          MaxMessages   \* bound on what others publish

\* "malformed" is refused by command_from_frame, "garbage" is no frame.
Command ==
    [kind : {"subscribe", "unsubscribe", "other", "malformed", "garbage"},
     chans : Seq(Channels)]

Subscription == [chan : Channels, pending : Seq(Nat)]

ASSUME CppSubscribeAssumption ==
    Initial \in Seq(Channels) /\ Commands \subseteq Command

VARIABLES
    pc,         \* where the loop is
    back,       \* where it goes on after the write under way
    todo,       \* channels left in the command being applied
    at,         \* the subscription the drain has got to
    subs,       \* subscriptions: each with the messages pending for it
    inbox,      \* commands in the socket
    buf,        \* commands in the Connection's read buffer
    sent,       \* how many commands the client sent
    closed,     \* the client closed its end
    out,        \* every frame written so far
    published,  \* how many messages were published
    woken,      \* the wait on wake_timer has been completed
    armed,      \* an async_wait(wait_read) is outstanding
    callbacks,  \* its completed callbacks that have not run yet
    triggered,  \* ShutdownSignal.triggered
    watcher     \* the spawned shutdown watcher

client == <<inbox, sent, closed>>
wake == <<woken, armed, callbacks>>
signal == <<triggered, watcher>>
vars == <<pc, back, todo, at, subs, inbox, buf, sent, closed, out, published,
          woken, armed, callbacks, triggered, watcher>>

Suspended == pc \in {"writing", "waiting", "done"}

\* wake_timer->cancel() completes the wait under way, if there is one.
Cancel == woken' = (woken \/ pc = "waiting")

Write(frame, label) ==
    /\ out' = Append(out, frame)
    /\ pc' = "writing"
    /\ back' = label

Init == /\ pc = "initial"
        /\ back = "loop"
        /\ todo = Initial
        /\ at = 1
        /\ subs = <<>>
        /\ inbox = <<>> /\ buf = <<>> /\ sent = 0 /\ closed = FALSE
        /\ out = <<>>
        /\ published = 0
        /\ woken = FALSE /\ armed = FALSE /\ callbacks = 0
        /\ triggered = FALSE /\ watcher = "start"

-----------------------------------------------------------------------------
\* The loop

\* Subscribe to the next channel and confirm; label is where this for loop is.
SubscribeNext(label) ==
    /\ pc = label
    /\ todo # <<>>
    /\ subs' = Append(subs, [chan |-> Head(todo), pending |-> <<>>])
    /\ todo' = Tail(todo)
    /\ Write(SubscribeFrame(Head(todo), Len(subs')), label)
    /\ UNCHANGED <<at, buf, published, client, wake, signal>>

SubscribeDone(label, next) ==
    /\ pc = label
    /\ todo = <<>>
    /\ pc' = next
    /\ UNCHANGED <<back, todo, at, subs, buf, out, published, client, wake,
                   signal>>

\* while (!shutdown.is_shutdown())
Loop ==
    /\ pc = "loop"
    /\ pc' = IF triggered THEN "done" ELSE "drain"
    /\ at' = 1
    /\ UNCHANGED <<back, todo, subs, buf, out, published, client, wake, signal>>

\* The next message of the drain: the loop does not look back at a
\* subscription it has passed.
DrainNext ==
    /\ pc = "drain"
    /\ \E i \in at..Len(subs) :
        /\ subs[i].pending # <<>>
        /\ \A j \in at..i-1 : subs[j].pending = <<>>
        /\ at' = i
        /\ subs' = [subs EXCEPT ![i].pending = Tail(@)]
        /\ Write(MessageFrame(subs[i].chan, Head(subs[i].pending)), "drain")
    /\ UNCHANGED <<todo, buf, published, client, wake, signal>>

\* The drain is over: read what the socket holds, without waiting.
ReadAvailable ==
    /\ pc = "drain"
    /\ \A i \in at..Len(subs) : subs[i].pending = <<>>
    /\ IF inbox = <<>> /\ closed
       THEN pc' = "done" /\ UNCHANGED <<inbox, buf>>
       ELSE pc' = "parse" /\ buf' = buf \o inbox /\ inbox' = <<>>
    /\ at' = 1
    /\ UNCHANGED <<back, todo, subs, sent, closed, out, published, wake,
                   signal>>

ApplySubscribe ==
    /\ pc = "parse"
    /\ buf # <<>> /\ Head(buf).kind = "subscribe"
    /\ buf' = Tail(buf)
    /\ todo' = Head(buf).chans
    /\ pc' = "subscribe"
    /\ UNCHANGED <<back, at, subs, out, published, client, wake, signal>>

\* An UNSUBSCRIBE without channels is one from every subscription.
ApplyUnsubscribe ==
    /\ pc = "parse"
    /\ buf # <<>> /\ Head(buf).kind = "unsubscribe"
    /\ buf' = Tail(buf)
    /\ todo' = IF Head(buf).chans = <<>>
               THEN [i \in 1..Len(subs) |-> subs[i].chan]
               ELSE Head(buf).chans
    /\ pc' = "unsubscribe"
    /\ UNCHANGED <<back, at, subs, out, published, client, wake, signal>>

WithoutFirst(ch) ==
    LET i == SelectInSeq(subs, LAMBDA s : s.chan = ch)
    IN  IF i = 0 THEN subs ELSE RemoveAt(subs, i)
Without(ch) == AtPlaces(subs, {i \in DOMAIN subs : subs[i].chan # ch})

UnsubscribeNext ==
    /\ pc = "unsubscribe"
    /\ todo # <<>>
    /\ subs' = Without(Head(todo))
    /\ todo' = Tail(todo)
    /\ Write(UnsubscribeFrame(Head(todo), Len(subs')), "unsubscribe")
    /\ UNCHANGED <<at, buf, published, client, wake, signal>>

\* Any other command is answered with an error.
RejectCommand ==
    /\ pc = "parse"
    /\ buf # <<>> /\ Head(buf).kind = "other"
    /\ buf' = Tail(buf)
    /\ Write(ErrorFrame, "parse")
    /\ UNCHANGED <<todo, at, subs, published, client, wake, signal>>

\* One that command_from_frame refuses is dropped without an answer.
SkipCommand ==
    /\ pc = "parse"
    /\ buf # <<>> /\ Head(buf).kind = "malformed"
    /\ buf' = Tail(buf)
    /\ UNCHANGED <<pc, back, todo, at, subs, out, published, client, wake,
                   signal>>

\* Bytes that are no frame: try_parse_buffered throws out of apply.
ParseFails ==
    /\ pc = "parse"
    /\ buf # <<>> /\ Head(buf).kind = "garbage"
    /\ pc' = "done"
    /\ UNCHANGED <<back, todo, at, subs, buf, out, published, client, wake,
                   signal>>

\* Nothing left to do: arm the three wake-ups and wait.
WaitDeaf ==
    /\ pc = "parse"
    /\ buf = <<>>
    /\ pc' = "waiting"
    /\ woken' = FALSE
    /\ armed' = TRUE
    /\ UNCHANGED <<back, todo, at, subs, buf, out, published, client,
                   callbacks, signal>>
WaitUnarmed ==
    /\ pc = "parse"
    /\ buf = <<>>
    /\ IF triggered
       THEN pc' = "done" /\ UNCHANGED <<woken, armed>>
       ELSE pc' = "waiting" /\ woken' = FALSE /\ UNCHANGED armed
    /\ UNCHANGED <<back, todo, at, subs, buf, out, published, client,
                   callbacks, signal>>
Wait ==
    /\ pc = "parse"
    /\ buf = <<>>
    /\ IF triggered
       THEN pc' = "done" /\ UNCHANGED <<woken, armed>>
       ELSE pc' = "waiting" /\ woken' = FALSE /\ armed' = TRUE
    /\ UNCHANGED <<back, todo, at, subs, buf, out, published, client,
                   callbacks, signal>>

\* The wait is over: socket().cancel() completes the readability wait that is
\* still outstanding, whose callback will cancel the timer once more.
Resume ==
    /\ pc = "waiting"
    /\ woken
    /\ pc' = "loop"
    /\ woken' = FALSE
    /\ armed' = FALSE
    /\ callbacks' = IF armed THEN callbacks + 1 ELSE callbacks
    /\ UNCHANGED <<back, todo, at, subs, buf, out, published, client, signal>>

\* A write completes.  Callbacks queued before it was started run first.
WriteCompletes ==
    /\ pc = "writing"
    /\ callbacks = 0
    /\ pc' = back
    /\ UNCHANGED <<back, todo, at, subs, buf, out, published, client, wake,
                   signal>>

\* A write to a client that is gone throws: out of apply, or, while a command
\* is being applied, into the catch that goes on with the next command.
WriteFails ==
    /\ pc = "writing"
    /\ callbacks = 0
    /\ closed
    /\ pc' = IF back \in {"initial", "drain"} THEN "done" ELSE "parse"
    /\ todo' = <<>>
    /\ UNCHANGED <<back, at, subs, buf, out, published, client, wake, signal>>

-----------------------------------------------------------------------------
\* What runs while the loop is suspended

\* BroadcastSender::send: the receivers of ch get the message and their
\* external_notify is cancelled.
Publish(ch) ==
    /\ Suspended
    /\ published < MaxMessages
    /\ published' = published + 1
    /\ IF pc = "done" THEN UNCHANGED <<subs, woken>>
       ELSE /\ subs' = [i \in 1..Len(subs) |->
                          IF subs[i].chan = ch
                          THEN [subs[i] EXCEPT !.pending = Append(@, published')]
                          ELSE subs[i]]
            /\ IF \E i \in 1..Len(subs) : subs[i].chan = ch
               THEN Cancel ELSE UNCHANGED woken
    /\ UNCHANGED <<pc, back, todo, at, buf, out, client, armed, callbacks,
                   signal>>

\* The socket is readable: the outstanding wait completes.
ReadReady ==
    /\ armed
    /\ inbox # <<>> \/ closed
    /\ armed' = FALSE
    /\ callbacks' = callbacks + 1
    /\ UNCHANGED <<pc, back, todo, at, subs, buf, out, published, client,
                   woken, signal>>

ReadCallback ==
    /\ Suspended
    /\ callbacks > 0
    /\ callbacks' = callbacks - 1
    /\ Cancel
    /\ UNCHANGED <<pc, back, todo, at, subs, buf, out, published, client,
                   armed, signal>>

\* ShutdownSignal::trigger from the signal handler.
Trigger ==
    /\ Suspended
    /\ ~triggered
    /\ triggered' = TRUE
    /\ watcher' = IF watcher = "waiting" THEN "ready" ELSE watcher
    /\ UNCHANGED <<pc, back, todo, at, subs, buf, out, published, client, wake>>

\* The spawned watcher: it looks at the flag, then waits for the signal.
WatcherStarts ==
    /\ Suspended
    /\ watcher = "start"
    /\ IF triggered THEN watcher' = "done" /\ Cancel
                    ELSE watcher' = "waiting" /\ UNCHANGED woken
    /\ UNCHANGED <<pc, back, todo, at, subs, buf, out, published, client,
                   armed, callbacks, triggered>>

WatcherWakes ==
    /\ Suspended
    /\ watcher = "ready"
    /\ watcher' = "done"
    /\ Cancel
    /\ UNCHANGED <<pc, back, todo, at, subs, buf, out, published, client,
                   armed, callbacks, triggered>>

ClientSends(cmd) ==
    /\ ~closed
    /\ sent < MaxCommands
    /\ sent' = sent + 1
    /\ inbox' = Append(inbox, cmd)
    /\ UNCHANGED <<pc, back, todo, at, subs, buf, closed, out, published, wake,
                   signal>>

ClientCloses ==
    /\ ~closed
    /\ closed' = TRUE
    /\ UNCHANGED <<pc, back, todo, at, subs, inbox, buf, sent, out, published,
                   wake, signal>>

-----------------------------------------------------------------------------
Server == \/ SubscribeNext("initial") \/ SubscribeDone("initial", "loop")
          \/ SubscribeNext("subscribe") \/ SubscribeDone("subscribe", "parse")
          \/ Loop \/ DrainNext \/ ReadAvailable
          \/ ApplySubscribe
          \/ ApplyUnsubscribe \/ UnsubscribeNext
          \/ SubscribeDone("unsubscribe", "parse")
          \/ RejectCommand \/ SkipCommand \/ ParseFails
          \/ Wait \/ Resume \/ WriteCompletes \/ WriteFails

Next == \/ Server
        \/ \E ch \in Channels : Publish(ch)
        \/ ReadReady \/ ReadCallback
        \/ Trigger \/ WatcherStarts \/ WatcherWakes
        \/ \E cmd \in Commands : ClientSends(cmd)
        \/ ClientCloses

\* The io_context runs what is ready, and the client reads what it is sent.
Fairness == /\ WF_vars(Server)
            /\ WF_vars(ReadReady)
            /\ WF_vars(ReadCallback)
            /\ WF_vars(WatcherStarts)
            /\ WF_vars(WatcherWakes)

Spec == Init /\ [][Next]_vars /\ Fairness

-----------------------------------------------------------------------------
\* Types of the state.
StateOK ==
    /\ pc \in {"initial", "loop", "drain", "parse", "subscribe", "unsubscribe",
              "writing", "waiting", "done"}
    /\ back \in {"loop", "initial", "drain", "parse", "subscribe",
                 "unsubscribe"}
    /\ todo \in Seq(Channels)
    /\ at \in Nat \ {0}
    /\ subs \in Seq(Subscription)
    /\ inbox \in Seq(Command) /\ buf \in Seq(Command)
    /\ sent \in Nat /\ published \in Nat /\ callbacks \in Nat
    /\ out \in Seq(Frame)
    /\ watcher \in {"start", "waiting", "ready", "done"}
FlagsOK == /\ closed \in BOOLEAN /\ woken \in BOOLEAN /\ armed \in BOOLEAN
           /\ triggered \in BOOLEAN
TypeOK == StateOK /\ FlagsOK

\* The client never reads a message of a channel it has no confirmed
\* subscription to, whatever is pending when it leaves (command.cpp:340-395).
MessagesWithinSubscriptions == WithinSubscriptions(out)

\* A wait that nothing will end is not entered, nor kept, with input unread
\* or after the shutdown: the readability callback or the watcher is on its
\* way (command.cpp:313-326, 406-426).
SocketAndShutdownWatched ==
    pc = "waiting" /\ ~woken =>
        /\ armed \/ callbacks > 0
        /\ triggered => watcher \in {"start", "ready"}

\* Shutdown ends the loop (command.cpp:311-326, 338, 406), and so does the
\* client's disconnection (command.cpp:349).
LoopEnds == (triggered \/ closed) ~> pc = "done"

\* A command is taken from the socket and applied, or the loop ends.
CommandsApplied == (inbox # <<>> \/ buf # <<>>) ~>
                       (inbox = <<>> /\ buf = <<>>) \/ pc = "done"

\* "each consumer receives every message sent after it subscribes"
\* (db.hpp:36-37): what is pending for a subscription is written, unless the
\* subscription or the loop ends.
MessagesWritten ==
    \A ch \in Channels :
        (\E i \in 1..Len(subs) : subs[i].chan = ch /\ subs[i].pending # <<>>) ~>
        (pc = "done" \/
         ~\E i \in 1..Len(subs) : subs[i].chan = ch /\ subs[i].pending # <<>>)
=============================================================================
