---------------------------- MODULE MCSubscriber ----------------------------
(* Subscriber with two channels and calls of up to two.                      *)
EXTENDS Subscriber

CONSTANTS a, b

OneChannel == <<a>>
SomeCalls == {<<>>, <<b>>, <<b, a>>, <<a, a>>}

SubA == [kind |-> "subscribe", chans |-> <<a>>]
SubB == [kind |-> "subscribe", chans |-> <<b>>]
UnsubA == [kind |-> "unsubscribe", chans |-> <<a>>]
Ping == [kind |-> "other", chans |-> <<>>]

NoCommands == {}
SomeCommands == {SubA, SubB, UnsubA, Ping}
=============================================================================
