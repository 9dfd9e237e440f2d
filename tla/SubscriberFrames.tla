-------------------------- MODULE SubscriberFrames --------------------------
(* The frames a server writes to a client in subscriber mode, and what a      *)
(* client may expect of the sequence of frames it reads.                      *)
EXTENDS Naturals, Sequences, FiniteSets

CONSTANTS Channels,
          Other      \* the channel field of a frame that has none

SubscribeFrame(ch, n)   == [kind |-> "subscribe", chan |-> ch, val |-> n]
UnsubscribeFrame(ch, n) == [kind |-> "unsubscribe", chan |-> ch, val |-> n]
MessageFrame(ch, msg)   == [kind |-> "message", chan |-> ch, val |-> msg]
ErrorFrame              == [kind |-> "error", chan |-> Other, val |-> 0]

Frame == [kind : {"subscribe", "unsubscribe", "message", "error"},
          chan : Channels \cup {Other}, val : Nat]

IsMessage(f) == f.kind = "message"

\* The elements of seq at the places in I, in their order.
AtPlaces(seq, I) ==
    [n \in 1..Cardinality(I) |->
        seq[CHOOSE i \in I : Cardinality({j \in I : j <= i}) = n]]

\* The client considers itself subscribed to ch after the first n frames.
SubscribedAt(out, n, ch) ==
    \E i \in 1..n :
        /\ out[i].kind = "subscribe" /\ out[i].chan = ch
        /\ \A j \in i+1..n :
              ~(out[j].kind = "unsubscribe" /\ out[j].chan = ch)

\* A message comes after the confirmation of its subscription and before
\* that of its unsubscription.
WithinSubscriptions(out) ==
    \A i \in 1..Len(out) :
        IsMessage(out[i]) => SubscribedAt(out, i - 1, out[i].chan)

\* No message of a channel twice, none after a later one.
EachOnceInOrder(out) ==
    \A i, j \in 1..Len(out) :
        /\ i < j
        /\ IsMessage(out[i]) /\ IsMessage(out[j])
        /\ out[i].chan = out[j].chan
        => out[i].val < out[j].val
=============================================================================
