--------------------------- MODULE MCCppSubscribe ---------------------------
(* CppSubscribe with two channels.                                           *)
EXTENDS CppSubscribe

CONSTANTS a, b

OneChannel == <<a>>
TwoChannels == <<a, b>>

SubA == [kind |-> "subscribe", chans |-> <<a>>]
SubB == [kind |-> "subscribe", chans |-> <<b>>]
UnsubA == [kind |-> "unsubscribe", chans |-> <<a>>]
UnsubAll == [kind |-> "unsubscribe", chans |-> <<>>]
Ping == [kind |-> "other", chans |-> <<>>]
Bad == [kind |-> "malformed", chans |-> <<>>]

Garbage == [kind |-> "garbage", chans |-> <<>>]

AllCommands == {SubA, SubB, UnsubA, UnsubAll, Ping, Bad, Garbage}
NoCommands == {}
=============================================================================
