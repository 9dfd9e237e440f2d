----------------------------- MODULE Connection -----------------------------
(* Connection::read_frame of original-rust/src/connection.rs (job.v = "rust") *)
(* and translated-cpp/src/connection.cpp ("cpp"), called again and again until*)
(* it returns no frame.                                                       *)
EXTENDS Reading, Commands

CONSTANT Subscribers  \* how many receive what is published
ASSUME SubscribersAssumption == Subscribers \in Nat

Reads(label) == job.tool = "connection" /\ st.pc = label

Opened == [pc |-> "parse", buffer |-> <<>>, out |-> <<>>, status |-> "open"]

\* parse_frame: the frame and what it leaves of the buffer, or that more is to
\* be read, or that the connection is invalid.  What parse finds incomplete is
\* an error of the connection in Rust, and read again in C++.
Checked(v, check, parse) ==
    CASE check.st # "ok" -> check
      [] check.st = "ok" /\ parse.st = "incomplete" /\ v = "rust" -> Invalid
      [] OTHER -> [parse EXCEPT !.pos = check.pos]
ParseFrame(v, buffer) == Checked(v, Check(v, buffer), Parse(v, buffer))

TakeFrame ==
    /\ Reads("parse")
    /\ \E r \in {ParseFrame(job.v, st.buffer)} :
          /\ r.st = "ok"
          /\ st' = [st EXCEPT !.out = @ \o r.got,
                              !.buffer = SubSeq(@, r.pos, Len(@))]
    /\ Stay

NeedsMore ==
    /\ Reads("parse")
    /\ ParseFrame(job.v, st.buffer).st = "incomplete"
    /\ st' = [st EXCEPT !.pc = "reading"]
    /\ Stay

Malformed ==
    /\ Reads("parse")
    /\ ParseFrame(job.v, st.buffer).st = "invalid"
    /\ st' = [st EXCEPT !.pc = "done", !.status = "error"]
    /\ Stay

ReceivePiece(k) ==
    /\ Reads("reading")
    /\ Consume(k)
    /\ st' = [st EXCEPT !.pc = "parse", !.buffer = @ \o Piece(k)]

\* select! takes another branch and drops read_frame, which is then called
\* again; what was read is in the Connection.
CancelLosesRead ==
    /\ Reads("reading") /\ job.v = "rust"
    /\ st' = [st EXCEPT !.pc = "parse", !.buffer = <<>>]
    /\ Stay
Cancel ==
    /\ Reads("reading") /\ job.v = "rust"
    /\ st' = [st EXCEPT !.pc = "parse"]
    /\ Stay

\* asio reports the end as an error, so C++ never returns nullopt.
AtEnd(v, buffer) == IF v = "rust" /\ buffer = <<>> THEN "closed" ELSE "error"
EndOfStream ==
    /\ Reads("reading") /\ left = <<>>
    /\ st' = [st EXCEPT !.pc = "done", !.status = AtEnd(job.v, st.buffer)]
    /\ Stay

NextConnection == \/ TakeFrame \/ NeedsMore \/ Malformed
                  \/ \E k \in 1..Len(left) : ReceivePiece(k)
                  \/ Cancel \/ EndOfStream

\* A connection that any bytes come over.
InitConnection == /\ job.tool = "connection" /\ job.input \in Seq(Octets)
                  /\ left = job.input
                  /\ st = Opened
SpecConnection == InitConnection /\ [][NextConnection]_vars

-----------------------------------------------------------------------------
\* The frames of the whole input and how it ends.
Whole(v, input) ==
    LET read[p \in 1..(Len(input) + 1)] ==
          LET rest == SubSeq(input, p, Len(input))
              r == ParseFrame(v, rest)
              more == read[p + r.pos - 1]
          IN  IF r.st = "ok" THEN [more EXCEPT !.out = r.got \o @]
              ELSE [out |-> <<>>, status |-> AtEnd(v, rest)]
    IN  read[1]

\* Wherever the reads stop and however often select! gives the read up, the
\* frames are those of the whole input, and so is the error if there is one
\* (connection.rs:56-81, 110-145).
FramesIndependentOfReads ==
    job.tool = "connection" =>
        LET whole == Whole(job.v, job.input)
        IN  /\ IsPrefix(st.out, whole.out)
            /\ st.pc = "done" => st.out = whole.out /\ st.status = whole.status

\* read_frame throws away as many bytes as check counted: exactly those parse
\* read, and check lets through every frame parse can read (frame.rs:65-168).
CheckCountsWhatParseReads ==
    job.tool = "connection" =>
        LET parse == Parse(job.v, st.buffer)
            check == Check(job.v, st.buffer)
        IN  parse.st = "ok" => check.st = "ok" /\ check.pos = parse.pos

\* The stores that each of the calls, run in order, begins with.
Stores(calls) ==
    LET stores[n \in 1..(Len(calls) + 1)] ==
          IF n = 1 THEN <<>> ELSE Stored(calls[n - 1], stores[n - 1])
    IN  stores

\* What the calls of a client would return if they were made on the store.
Returns(cmd, store) ==
    CASE cmd.name = <<"get">> -> IF cmd.words[1] \in DOMAIN store
                                 THEN Ok(<<store[cmd.words[1]]>>) ELSE Ok(<<>>)
      [] cmd.name = <<"set">> -> Ok(<<>>)
      [] cmd.name = <<"publish">> -> Ok(<<Subscribers>>)
      [] cmd.name = <<"ping">> -> Ok(IF cmd.words = <<>> THEN << <<"PONG">> >>
                                                         ELSE cmd.words)

-----------------------------------------------------------------------------
\* A Rust server refuses a key or a channel that is not UTF-8 and ends the
\* connection.
KeysOf(cmd) == CASE cmd.name \in {<<"get">>, <<"set">>, <<"publish">>} -> {cmd.words[1]}
                 [] cmd.name = <<"ping">> -> {}
                 [] OTHER -> ToSet(cmd.words)
Refused(v, cmd) == v = "rust" /\ \E key \in KeysOf(cmd) : ~Utf8(key)

\* The calls before the first that a server of version w refuses.
Served(w, calls) ==
    LET refused == {i \in DOMAIN calls : Refused(w, calls[i])}
    IN  SubSeq(calls, 1, IF refused = {} THEN Len(calls) ELSE Min(refused) - 1)

\* What a client of version w writes to make its calls, and a server of version
\* w to answer them; then a connection that reads just that.
Stream(frames) == FlattenSeq([i \in DOMAIN frames |-> WriteFrame(frames[i])])
Asked(w, calls) == Stream([i \in DOMAIN calls |-> IntoFrame(w, calls[i])])
Answered(w, calls) ==
    Stream([i \in DOMAIN calls |->
               CHOOSE f \in Answers(w, calls[i], Stores(calls)[i], Subscribers) : TRUE])

\* The calls of a client and those of its Subscriber.  A key and a channel are a
\* String or &str in Rust and any bytes in C++, a value and a message any bytes;
\* an expiration is a Duration in Rust and whole milliseconds in C++, not
\* negative and of less than 2^63 nanoseconds, which is what a C++ client or
\* server keeps it in (db.hpp:32).
Text(w) == {text \in Seq(Octets) : w = "rust" => Utf8(text)}
Micros(w) == {us \in 0..(2^63 \div 1000) : w = "cpp" => us % 1000 = 0}
ClientCalls(w) ==
    {Command(<<"get">>, <<k>>, {}) : k \in Text(w)}
    \cup {Command(<<"set">>, <<k, value>>, expire) :
             k \in Text(w), value \in Seq(Octets),
             expire \in {{}} \cup {{us} : us \in Micros(w)}}
    \cup {Command(<<"publish">>, <<channel, message>>, {}) :
             channel \in Text(w), message \in Seq(Octets)}
    \cup {Command(<<"ping">>, words, {}) :
             words \in {<<>>} \cup {<<message>> : message \in Seq(Octets)}}
SubscriberCalls(w) ==
    {Command(<<"subscribe">>, channels, {}) : channels \in Seq(Text(w)) \ {<<>>}}
    \cup {Command(<<"unsubscribe">>, channels, {}) : channels \in Seq(Text(w))}

\* job.peer is the version at the other end of the connection.
InitCalls ==
    /\ job.tool = "connection"
    /\ job.v \in {"rust", "cpp"} /\ job.peer \in {"rust", "cpp"}
    /\ \/ /\ job.side = "server"
          /\ job.calls \in Seq(ClientCalls(job.peer) \cup SubscriberCalls(job.peer))
          /\ job.input = Asked(job.peer, job.calls)
       \/ /\ job.side = "client"
          /\ job.calls \in Seq(ClientCalls(job.v))
          /\ job.input = Answered(job.peer, Served(job.peer, job.calls))
    /\ left = job.input
    /\ st = Opened
SpecCalls == InitCalls /\ [][NextConnection]_vars

\* What a server of version v is to make of a call: the very command, with the
\* part of its expiration below a millisecond cut off.
CutOff(expire) == {us - (us % 1000) : us \in expire}
Received(v, cmd) ==
    IF Refused(v, cmd) THEN {}
    ELSE {Command(cmd.name, cmd.words, CutOff(cmd.expire))}

\* The server reads the very commands a client's calls are, but for what is
\* below a millisecond of an expiration (set.rs:157) and for the keys and
\* channels that a Rust server refuses (parse.rs:64); the calls up to the first
\* refused return what they would on a store that runs them in order, and those
\* after get no answer.  So it is whichever of the two versions writes and
\* whichever reads (cmd/, clients/client.rs:113-309).
CallsRoundTrip ==
    (job.tool = "connection" /\ st.pc = "done") =>
        CASE job.side = "server" ->
               [i \in DOMAIN st.out |-> FromFrame(job.v, st.out[i])]
                  = [i \in DOMAIN job.calls |-> Received(job.v, job.calls[i])]
          [] job.side = "client" ->
               LET served == Served(job.peer, job.calls)
               IN  /\ Len(st.out) = Len(served)
                   /\ \A i \in DOMAIN served :
                         Result(served[i], st.out[i])
                            = Returns(served[i], Stores(served)[i])
          [] OTHER -> TRUE
=============================================================================
