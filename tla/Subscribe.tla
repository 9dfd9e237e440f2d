------------------------------ MODULE Subscribe ------------------------------
(* Subscribe::apply of original-rust/src/cmd/subscribe.rs for one client,     *)
(* with the tokio broadcast channels that feed it.  The runtime has several   *)
(* threads, so others publish between any two steps of the task; select! is   *)
(* level triggered and takes any branch that is ready.                        *)
EXTENDS SubscriberFrames, SequencesExt

CONSTANTS Initial,      \* the channels of the SUBSCRIBE that starts the loop
          Commands,     \* the commands the client may send afterwards
          MaxCommands,  \* bound on how many it sends
          MaxMessages,  \* bound on what others publish
          Capacity,     \* messages a broadcast channel keeps: 1024
          NoStream      \* no entry in the StreamMap

\* "malformed" is refused by Command::from_frame.
Command == [kind : {"subscribe", "unsubscribe", "other", "malformed"},
            chans : Seq(Channels)]

ASSUME SubscribeAssumption ==
    /\ Initial \in Seq(Channels)
    /\ Commands \subseteq Command
    /\ Capacity \in Nat \ {0}
    /\ NoStream \notin Seq(Nat)

VARIABLES
    pc,         \* "channels": apply's for loop; "select"; "unsubscribe": the
                \* for loop of handle_command; "writing"; "done"
    back,       \* where the task goes on after the write under way
    todo,       \* self.channels, or the channels left to unsubscribe from
    subs,       \* the StreamMap: what each channel's receiver has yet to yield
    inbox,      \* commands the client sent that are not read
    sent,       \* how many it sent
    closed,     \* the client closed its end
    out,        \* every frame written so far
    published,  \* how many messages were published
    triggered   \* the shutdown broadcast channel is closed

client == <<inbox, sent, closed>>
vars == <<pc, back, todo, subs, inbox, sent, closed, out, published, triggered>>

Keys == {ch \in Channels : subs[ch] # NoStream}

Write(frame, label) ==
    /\ out' = Append(out, frame)
    /\ pc' = "writing"
    /\ back' = label

Init == /\ pc = "channels"
        /\ back = "channels"
        /\ todo = Initial
        /\ subs = [ch \in Channels |-> NoStream]
        /\ inbox = <<>> /\ sent = 0 /\ closed = FALSE
        /\ out = <<>>
        /\ published = 0
        /\ triggered = FALSE

\* subscribe_to_channel: the new receiver replaces the channel's old one.
SubscribeToChannel ==
    /\ pc = "channels"
    /\ todo # <<>>
    /\ subs' = [subs EXCEPT ![Head(todo)] = <<>>]
    /\ todo' = Tail(todo)
    /\ Write(SubscribeFrame(Head(todo), Cardinality(Keys')), "channels")
    /\ UNCHANGED <<published, triggered, client>>

EnterSelect ==
    /\ pc = "channels"
    /\ todo = <<>>
    /\ pc' = "select"
    /\ UNCHANGED <<back, todo, subs, out, published, triggered, client>>

NewestFirst(q) == q[Len(q)]
SelectNewest(ch) ==
    /\ pc = "select"
    /\ subs[ch] \notin {NoStream, <<>>}
    /\ subs' = [subs EXCEPT ![ch] = SubSeq(@, 1, Len(@) - 1)]
    /\ Write(MessageFrame(ch, NewestFirst(subs[ch])), "select")
    /\ UNCHANGED <<todo, published, triggered, client>>
SelectUnlessBehind(ch) ==
    /\ pc = "select"
    /\ subs[ch] \notin {NoStream, <<>>} /\ Len(subs[ch]) < Capacity
    /\ subs' = [subs EXCEPT ![ch] = Tail(@)]
    /\ Write(MessageFrame(ch, Head(subs[ch])), "select")
    /\ UNCHANGED <<todo, published, triggered, client>>
SelectMessage(ch) ==
    /\ pc = "select"
    /\ subs[ch] \notin {NoStream, <<>>}
    /\ subs' = [subs EXCEPT ![ch] = Tail(@)]
    /\ Write(MessageFrame(ch, Head(subs[ch])), "select")
    /\ UNCHANGED <<todo, published, triggered, client>>

\* res = dst.read_frame(), then handle_command

TakesCommand(kind) ==
    /\ pc = "select"
    /\ inbox # <<>> /\ Head(inbox).kind = kind
    /\ inbox' = Tail(inbox)

HandleSubscribe ==
    /\ TakesCommand("subscribe")
    /\ todo' = Head(inbox).chans
    /\ pc' = "channels"
    /\ UNCHANGED <<back, subs, sent, closed, out, published, triggered>>

\* keys() of the StreamMap come in some order.
Orders(S) == {s \in [1..Cardinality(S) -> S] :
                 \A i, j \in 1..Cardinality(S) : s[i] = s[j] => i = j}

HandleUnsubscribe ==
    /\ TakesCommand("unsubscribe")
    /\ IF Head(inbox).chans = <<>> THEN todo' \in Orders(Keys)
                                   ELSE todo' = Head(inbox).chans
    /\ pc' = "unsubscribe"
    /\ UNCHANGED <<back, subs, sent, closed, out, published, triggered>>

KeepStream ==
    /\ pc = "unsubscribe"
    /\ todo # <<>>
    /\ UNCHANGED subs
    /\ todo' = Tail(todo)
    /\ Write(UnsubscribeFrame(Head(todo), Cardinality(Keys)), "unsubscribe")
    /\ UNCHANGED <<published, triggered, client>>
UnsubscribeFromChannel ==
    /\ pc = "unsubscribe"
    /\ todo # <<>>
    /\ subs' = [subs EXCEPT ![Head(todo)] = NoStream]
    /\ todo' = Tail(todo)
    /\ Write(UnsubscribeFrame(Head(todo), Cardinality(Keys')), "unsubscribe")
    /\ UNCHANGED <<published, triggered, client>>

UnsubscribeDone ==
    /\ pc = "unsubscribe"
    /\ todo = <<>>
    /\ pc' = "channels"
    /\ UNCHANGED <<back, todo, subs, out, published, triggered, client>>

HandleUnknown ==
    /\ TakesCommand("other")
    /\ Write(ErrorFrame, "channels")
    /\ UNCHANGED <<todo, subs, sent, closed, published, triggered>>

\* Leaving apply drops every receiver.
Leave == /\ pc' = "done"
         /\ subs' = [ch \in Channels |-> NoStream]
         /\ UNCHANGED <<back, todo, out, published, triggered>>

HandleMalformed ==
    /\ TakesCommand("malformed")
    /\ Leave
    /\ UNCHANGED <<sent, closed>>

Disconnected ==
    /\ pc = "select"
    /\ inbox = <<>> /\ closed
    /\ Leave
    /\ UNCHANGED client

\* _ = shutdown.recv()
ShutdownUnsubscribed ==
    /\ pc = "select"
    /\ triggered /\ Keys = {}
    /\ Leave
    /\ UNCHANGED client
ShutdownReceived ==
    /\ pc = "select"
    /\ triggered
    /\ Leave
    /\ UNCHANGED client

WriteCompletes ==
    /\ pc = "writing"
    /\ pc' = back
    /\ UNCHANGED <<back, todo, subs, out, published, triggered, client>>

WriteFails ==
    /\ pc = "writing"
    /\ closed
    /\ Leave
    /\ UNCHANGED client

-----------------------------------------------------------------------------
\* What others do

\* tx.send: a receiver that is Capacity messages behind loses the oldest, and
\* its stream resumes after a Lagged error with what is left.
Publish(ch) ==
    /\ published < MaxMessages
    /\ published' = published + 1
    /\ subs' = IF subs[ch] = NoStream THEN subs
               ELSE [subs EXCEPT ![ch] =
                        Append(IF Len(@) = Capacity THEN Tail(@) ELSE @,
                               published')]
    /\ UNCHANGED <<pc, back, todo, out, triggered, client>>

ClientSends(cmd) ==
    /\ ~closed
    /\ sent < MaxCommands
    /\ sent' = sent + 1
    /\ inbox' = Append(inbox, cmd)
    /\ UNCHANGED <<pc, back, todo, subs, closed, out, published, triggered>>

ClientCloses ==
    /\ ~closed
    /\ closed' = TRUE
    /\ UNCHANGED <<pc, back, todo, subs, inbox, sent, out, published, triggered>>

Trigger ==
    /\ ~triggered
    /\ triggered' = TRUE
    /\ UNCHANGED <<pc, back, todo, subs, out, published, client>>

HandleCommand == \/ HandleSubscribe \/ HandleUnsubscribe
                 \/ HandleUnknown \/ HandleMalformed

Next == \/ SubscribeToChannel \/ EnterSelect
        \/ \E ch \in Channels : SelectMessage(ch)
        \/ HandleCommand
        \/ UnsubscribeFromChannel \/ UnsubscribeDone
        \/ Disconnected \/ ShutdownReceived
        \/ WriteCompletes \/ WriteFails
        \/ \E ch \in Channels : Publish(ch)
        \/ \E cmd \in Commands : ClientSends(cmd)
        \/ ClientCloses \/ Trigger

\* The runtime polls a task that is ready, and the client reads what it is
\* sent; select! picks among its ready branches, and StreamMap among its ready
\* streams, at random, so none that stays ready is passed over for ever.
Fairness == /\ WF_vars(SubscribeToChannel \/ EnterSelect)
            /\ WF_vars(UnsubscribeFromChannel \/ UnsubscribeDone)
            /\ WF_vars(WriteCompletes)
            /\ \A ch \in Channels : SF_vars(SelectMessage(ch))
            /\ SF_vars(HandleCommand)
            /\ SF_vars(Disconnected)
            /\ SF_vars(ShutdownReceived)

Spec == Init /\ [][Next]_vars /\ Fairness

-----------------------------------------------------------------------------
\* Types of the state.
TypeOK ==
    /\ pc \in {"channels", "select", "unsubscribe", "writing", "done"}
    /\ back \in {"channels", "select", "unsubscribe"}
    /\ todo \in Seq(Channels)
    /\ subs \in [Channels -> Seq(Nat) \cup {NoStream}] /\ IsFiniteSet(Keys)
    /\ inbox \in Seq(Command)
    /\ out \in Seq(Frame)
    /\ sent \in Nat /\ published \in Nat
    /\ closed \in BOOLEAN /\ triggered \in BOOLEAN

\* The client never reads a message of a channel it has no confirmed
\* subscription to (subscribe.rs:190-196, 233-238).
MessagesWithinSubscriptions == WithinSubscriptions(out)

\* Through lag, resubscription and unsubscription no message is written twice
\* or after a later one of its channel (subscribe.rs:132-134, 176-191).
MessagesOnceInOrder == EachOnceInOrder(out)

\* A message pending for a subscription is written, unless the loop ends, the
\* client leaves the channel or subscribes to it again, or Capacity later
\* messages of the channel come before it is (subscribe.rs:131-134, 191).  The
\* third is an exception to "each subscriber receives every message sent after
\* subscribing" (articles/03-concurrency.md:46).
Pending(ch, msg) == subs[ch] # NoStream /\ msg \in ToSet(subs[ch])
Written(ch, msg) == MessageFrame(ch, msg) \in ToSet(out)
Lost(ch, msg) == /\ subs[ch] # NoStream
                 /\ Len(subs[ch]) = Capacity /\ msg < Head(subs[ch])
JustConfirmed(kind, ch) ==
    /\ pc = "writing" /\ subs[ch] \in {NoStream, <<>>}
    /\ Last(out).kind = kind /\ Last(out).chan = ch
MessagesWritten ==
    \A ch \in Channels, msg \in 1..MaxMessages :
        Pending(ch, msg) ~>
            \/ Written(ch, msg)
            \/ pc = "done" \/ Lost(ch, msg)
            \/ \E kind \in {"subscribe", "unsubscribe"} : JustConfirmed(kind, ch)

\* Shutdown ends the loop (subscribe.rs:149-151), and so does the client's
\* disconnection (subscribe.rs:136-140).
LoopEnds == (triggered \/ closed) ~> pc = "done"
=============================================================================
