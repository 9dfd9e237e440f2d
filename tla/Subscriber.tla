----------------------------- MODULE Subscriber -----------------------------
(* A Subscriber of original-rust/src/clients/client.rs talking to the loop of *)
(* module Subscribe: what it writes is read there in order, and it reads the  *)
(* frames written there in order.  Another program, which sends what it likes *)
(* and reads everything, may be at its place (user = "any").                  *)
EXTENDS Subscribe

CONSTANTS Calls,     \* the channel lists a program may pass to the methods
          MaxWhile   \* bound on what is published to a Subscriber

ASSUME SubscriberAssumption == Calls \subseteq Seq(Channels)

VARIABLES user,   \* "Subscriber" or "any"
          call,   \* the call under way, or the last one
          list,   \* subscribed_channels
          read,   \* how many of the frames were read
          astray  \* a call before this one failed

callVars == <<call, list, read, astray>>
sessionVars == <<vars, user, callVars>>

\* pc is "waiting" for a response, "returned" or "failed"; before is what list
\* was, and left how many responses are still to come.
Call(method, asked, before, left) ==
    [method |-> method, asked |-> asked, before |-> before, left |-> left,
     pc |-> "waiting"]

\* Client::subscribe has sent the SUBSCRIBE that starts the loop.
InitSession == /\ Init
               /\ user \in {"Subscriber", "any"}
               /\ call = Call("subscribe", Initial, <<>>, Len(Initial))
               /\ list = <<>>
               /\ read = 0
               /\ astray = FALSE

Waits == user = "Subscriber" /\ call.pc = "waiting" /\ call.left > 0

\* The methods take &mut self, so that the program may call again after a call
\* that failed, until it drops the Subscriber.
Rests == user = "Subscriber" /\ call.pc # "waiting" /\ ~closed
CallsAgain == Rests /\ astray' = (astray \/ call.pc = "failed")

\* write_frame(Subscribe); parse_frames rejects it without a channel.
StartSubscribe(chans) ==
    /\ CallsAgain
    /\ ClientSends([kind |-> IF chans = <<>> THEN "malformed" ELSE "subscribe",
                    chans |-> chans])
    /\ call' = Call("subscribe", chans, list, Len(chans))
    /\ UNCHANGED <<user, list, read>>

\* How many channels an unsubscribe expects to leave; the first at least one.
OneAtLeast(chans) == IF chans = <<>> THEN Max({1, Len(list)}) ELSE Len(chans)
Leaving(chans) == IF chans = <<>> THEN Len(list) ELSE Len(chans)

StartUnsubscribe(chans) ==
    /\ CallsAgain
    /\ ClientSends([kind |-> "unsubscribe", chans |-> chans])
    /\ call' = Call("unsubscribe", chans, list, Leaving(chans))
    /\ UNCHANGED <<user, list, read>>

Available == read < Len(out)
NextFrame == out[read + 1]

\* The response is the one the call expects; the channels of an unsubscribe may
\* come in any order.
ConfirmsInOrder(frame) ==
    LET asked == IF call.asked = <<>> THEN call.before ELSE call.asked
    IN  frame.kind = call.method /\ frame.chan = asked[Len(asked) - call.left + 1]
Confirms(frame) ==
    /\ frame.kind = call.method
    /\ call.method = "subscribe" =>
          frame.chan = call.asked[Len(call.asked) - call.left + 1]

\* subscribed_channels.retain; the C++ erases one entry.
EraseOne(chans, ch) ==
    IF ch \in ToSet(chans) THEN RemoveFirst(chans, ch) ELSE chans
Retain(chans, ch) == AtPlaces(chans, {i \in DOMAIN chans : chans[i] # ch})

Confirmed ==
    /\ Waits /\ Available
    /\ Confirms(NextFrame)
    /\ LET kept == IF call.method = "subscribe" THEN list
                   ELSE Retain(list, NextFrame.chan)
           removed == Len(list) - Len(kept)
       IN  /\ list' = kept
           /\ call' = IF call.method = "unsubscribe" /\ removed # 1
                      THEN [call EXCEPT !.pc = "failed"]
                      ELSE [call EXCEPT !.left = @ - 1]
    /\ read' = read + 1
    /\ UNCHANGED <<vars, user, astray>>

\* to_error, or an Error frame
Unexpected ==
    /\ Waits /\ Available
    /\ ~Confirms(NextFrame)
    /\ read' = read + 1
    /\ call' = [call EXCEPT !.pc = "failed"]
    /\ UNCHANGED <<vars, user, list, astray>>

\* read_frame returns None: connection reset by server
Reset ==
    /\ Waits /\ ~Available /\ pc = "done"
    /\ call' = [call EXCEPT !.pc = "failed"]
    /\ UNCHANGED <<vars, user, list, read, astray>>

\* The list of a subscribe is extended once every response has come.
Return ==
    /\ user = "Subscriber" /\ call.pc = "waiting" /\ call.left = 0
    /\ call' = [call EXCEPT !.pc = "returned"]
    /\ list' = IF call.method = "subscribe" THEN list \o call.asked ELSE list
    /\ UNCHANGED <<vars, user, read, astray>>

NextMessage ==
    /\ CallsAgain /\ Available
    /\ read' = read + 1
    /\ call' = IF IsMessage(NextFrame) THEN call
               ELSE [call EXCEPT !.method = "next_message", !.pc = "failed"]
    /\ UNCHANGED <<vars, user, list>>

\* The program drops the Subscriber: when it likes between two calls, and a
\* call it no longer waits for with it.
Drop ==
    /\ user = "Subscriber"
    /\ ClientCloses
    /\ call' = [call EXCEPT !.pc = "failed"]
    /\ UNCHANGED <<user, list, read, astray>>

Method == \/ Confirmed \/ Unexpected \/ Reset \/ Return \/ NextMessage
SubscriberActs == \/ Method \/ Drop
                  \/ \E chans \in Calls : \/ StartSubscribe(chans)
                                          \/ StartUnsubscribe(chans)

AnyUserActs ==
    /\ user = "any"
    /\ (\E cmd \in Commands : ClientSends(cmd)) \/ ClientCloses
    /\ UNCHANGED <<user, callVars>>

LoopActs == \/ SubscribeToChannel \/ EnterSelect
            \/ \E ch \in Channels : SelectMessage(ch)
            \/ HandleCommand
            \/ UnsubscribeFromChannel \/ UnsubscribeDone
            \/ Disconnected \/ ShutdownReceived
            \/ WriteCompletes \/ WriteFails

OthersAct == \/ \E ch \in Channels : Publish(ch) /\ (user = "any" \/ published < MaxWhile)
             \/ Trigger

NextSession == \/ SubscriberActs \/ AnyUserActs
               \/ (LoopActs \/ OthersAct) /\ UNCHANGED <<user, callVars>>

\* The program polls the call it is in.
SpecSession == /\ InitSession /\ [][NextSession]_sessionVars
               /\ Fairness
               /\ WF_sessionVars(Confirmed \/ Unexpected \/ Reset \/ Return)

-----------------------------------------------------------------------------
\* Types of the state of the session.
TypeOKSession ==
    /\ TypeOK
    /\ user \in {"Subscriber", "any"}
    /\ call \in [method : {"subscribe", "unsubscribe", "next_message"},
                 asked : Seq(Channels), before : Seq(Channels), left : Nat,
                 pc : {"waiting", "returned", "failed"}]
    /\ list \in Seq(Channels)
    /\ read \in 0..Len(out)
    /\ astray \in BOOLEAN

\* subscribed_channels names exactly the channels the frames read so far leave
\* the client subscribed to, with those the subscribe under way has confirmed,
\* until a call fails: also through doubled channels and calls that name
\* channels twice (client.rs:349-505).
ListAgrees ==
    call.pc # "failed" /\ ~astray =>
        LET confirmed == IF call.method = "subscribe" /\ call.pc = "waiting"
                         THEN SubSeq(call.asked, 1, Len(call.asked) - call.left)
                         ELSE <<>>
        IN  \A ch \in Channels : user = "Subscriber" =>
               (ch \in ToSet(list \o confirmed) <=> SubscribedAt(out, read, ch))

\* A call fails only if a message came between it and its response, the
\* connection ended, or it leaves a channel that the list does not hold, or
\* holds more than once, or that the call has left already; or if a call before
\* it failed, which leaves confirmations unread and the list as it was
\* (client.rs:349-369, 474-503).
FailsOnlyFor ==
    LET asked == IF call.asked = <<>> THEN call.before ELSE call.asked
        once(seq, ch) == Cardinality({i \in DOMAIN seq : seq[i] = ch}) = 1
        legal == call.method = "unsubscribe" =>
                    \A ch \in ToSet(asked) : once(asked, ch) /\ once(call.before, ch)
    IN  (call.pc = "failed" /\ legal) =>
           \/ read > 0 /\ IsMessage(out[read])
           \/ pc = "done" \/ closed
           \/ astray

\* A call returns: as many responses come as it waits for, or one it does not
\* expect, or the connection ends.  After a call that failed that is not so of an
\* unsubscribe from all, which counts on its list (client.rs:469-473).
LeavesAll == call.method = "unsubscribe" /\ call.asked = <<>>
CallsReturn ==
    (user = "Subscriber" /\ call.pc = "waiting" /\ ~(astray /\ LeavesAll))
        ~> call.pc # "waiting"

\* An unsubscribe from all waits for as many confirmations as the server sends:
\* "server acknowledges as unsubscribing from all subscribed channels, so we
\* assert that the unsubscribe list received matches the client subscribed one"
\* (client.rs:466-468).
UnsubscribeAllReturns ==
    (user = "Subscriber" /\ call.pc = "waiting" /\ LeavesAll)
        ~> call.pc # "waiting"
=============================================================================
