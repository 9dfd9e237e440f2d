----------------------------- MODULE MCBuffered -----------------------------
(* BufferedClient with a few callers that set and get one key.               *)
EXTENDS BufferedClient

SomeRequests == {Command(<<"get">>, << <<"k">> >>, {}),
                 Command(<<"set">>, << <<"k">>, <<"x">> >>, {})}
=============================================================================
