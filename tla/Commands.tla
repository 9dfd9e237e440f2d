------------------------------ MODULE Commands ------------------------------
(* How a command becomes a frame and a frame a command (parse.rs, cmd/,       *)
(* command.cpp), what a server answers, and what clients/client.rs makes of   *)
(* the answer.  A command is its name, its words (key; key and value; channel *)
(* and message; channels; the message of a ping) and its expiration, a        *)
(* Duration in microseconds, a set of at most one.                            *)
EXTENDS Frames

Command(name, words, expire) == [name |-> name, words |-> words, expire |-> expire]

\* to_lowercase and to_uppercase, on the words the inputs are made of; AsItIs
\* forgets them.
Lower(text) == CASE text = <<"GET">> -> <<"get">>
                 [] text = <<"SET">> -> <<"set">>
                 [] OTHER -> text
AsItIs(text) == text
Upper(text) == CASE text = <<"ex">> -> <<"EX">>
                 [] text = <<"px">> -> <<"PX">>
                 [] OTHER -> text

\* next_bytes, next_string and next_int succeed on the frame.
IsBytes(frame) == frame.kind \in {"simple", "bulk"}
IsString(v, frame) ==
    IsBytes(frame) /\ (v = "rust" /\ frame.kind = "bulk" => Utf8(frame.text))
IntOf(v, frame) == IF frame.kind = "integer" THEN {frame.n}
                   ELSE IF IsBytes(frame) THEN Decimal(v, frame.text) ELSE {}

Texts(frames) == [i \in DOMAIN frames |-> frames[i].text]

\* The expirations the frames after SET's value may mean: none if they are
\* rejected.  The C++ catches the end of the frame wherever it is met.
Expirations(v, rest) ==
    LET option == IF rest # <<>> /\ IsString(v, rest[1]) THEN Upper(rest[1].text)
                                                         ELSE <<>>
        unit == CASE option = <<"EX">> -> {1000000}
                  [] option = <<"PX">> -> {1000}
                  [] OTHER -> {}
    IN  CASE rest = <<>> -> {{}}
          [] Len(rest) = 1 -> IF v = "cpp" /\ unit # {} THEN {{}} ELSE {}
          [] Len(rest) = 2 -> {{u * n} : u \in unit, n \in IntOf(v, rest[2])}
          [] OTHER -> {}

\* The commands that parse_frames and finish() accept of the frames after the
\* name: one at most.
Plain(name, args) == Command(name, Texts(args), {})
GetFrom(v, args) ==
    {c \in {Plain(<<"get">>, args)} : Len(args) = 1 /\ IsString(v, args[1])}
PingFrom(args) ==
    {c \in {Plain(<<"ping">>, args)} :
        Len(args) <= 1 /\ \A i \in DOMAIN args : IsBytes(args[i])}
PublishFrom(v, args) ==
    {c \in {Plain(<<"publish">>, args)} :
        Len(args) = 2 /\ IsString(v, args[1]) /\ IsBytes(args[2])}
SetFrom(v, args) ==
    IF Len(args) < 2 \/ ~IsString(v, args[1]) \/ ~IsBytes(args[2]) THEN {}
    ELSE {Command(<<"set">>, Texts(SubSeq(args, 1, 2)), e) :
             e \in Expirations(v, SubSeq(args, 3, Len(args)))}
SubscribeFrom(v, args) ==
    {c \in {Plain(<<"subscribe">>, args)} :
        args # <<>> /\ \A i \in DOMAIN args : IsString(v, args[i])}
UnsubscribeFrom(v, args) ==
    {c \in {Plain(<<"unsubscribe">>, args)} :
        \A i \in DOMAIN args : IsString(v, args[i])}
UnknownFrom(name) == {Command(name, <<>>, {})}

Accepted(v, name, args) ==
    CASE name = <<"get">> -> GetFrom(v, args)
      [] name = <<"ping">> -> PingFrom(args)
      [] name = <<"publish">> -> PublishFrom(v, args)
      [] name = <<"subscribe">> -> SubscribeFrom(v, args)
      [] name = <<"unsubscribe">> -> UnsubscribeFrom(v, args)
      [] name = <<"set">> -> SetFrom(v, args)
      [] OTHER -> UnknownFrom(name)  \* no finish()

FromFrame(v, frame) ==
    IF frame.kind = "array" /\ frame.parts # <<>> /\ IsString(v, frame.parts[1])
    THEN Accepted(v, Lower(frame.parts[1].text), Tail(frame.parts))
    ELSE {}

\* into_frame: the name, the words, and SET's expiration in whole milliseconds
Millis(us) == us \div 1000
Option(v, cmd) ==
    LET px == IF v = "rust" THEN <<"px">> ELSE <<"PX">>
    IN  IF cmd.expire = {} THEN <<>>
        ELSE <<Bulk(px), Integer(Millis(CHOOSE us \in cmd.expire : TRUE))>>
IntoFrame(v, cmd) ==
    LET texts == <<cmd.name>> \o cmd.words
    IN  Array([i \in DOMAIN texts |-> Bulk(texts[i])] \o Option(v, cmd))

-----------------------------------------------------------------------------
\* What apply writes, when store maps the keys that are set to their values:
\* no frame at all if the connection ends instead.  Subscribe is modelled in
\* module Subscribe.
GetAnswer(cmd, store) == IF cmd.words[1] \in DOMAIN store
                         THEN Bulk(store[cmd.words[1]]) ELSE Null
SetAnswer == Simple(<<"OK">>)
PublishAnswer(subscribers) == Integer(subscribers)
PingAnswer(cmd) == IF cmd.words = <<>> THEN Simple(<<"PONG">>)
                                       ELSE Bulk(cmd.words[1])
UnknownAnswer == Error(<<"ERR">>)

Answers(v, cmd, store, subscribers) ==
    CASE cmd.name = <<"get">> -> {GetAnswer(cmd, store)}
      [] cmd.name = <<"set">> -> {SetAnswer}
      [] cmd.name = <<"publish">> -> {PublishAnswer(subscribers)}
      [] cmd.name = <<"ping">> -> {PingAnswer(cmd)}
      [] cmd.name = <<"unsubscribe">> ->
           IF v = "rust" THEN {} ELSE {UnknownAnswer}
      [] OTHER -> {UnknownAnswer}

\* What db.set leaves.
Stored(cmd, store) ==
    IF cmd.name # <<"set">> THEN store
    ELSE [k \in DOMAIN store \cup {cmd.words[1]} |->
             IF k = cmd.words[1] THEN cmd.words[2] ELSE store[k]]

\* What a client call returns of the frame that answers it: its value, in a
\* sequence that is empty for none.
Ok(value) == [ok |-> TRUE, value |-> value]
Failed == [ok |-> FALSE, value |-> <<>>]

GetResult(frame) == CASE IsBytes(frame) -> Ok(<<frame.text>>)
                      [] frame.kind = "null" -> Ok(<<>>)
                      [] OTHER -> Failed
SetResult(frame) ==
    IF frame.kind = "simple" /\ frame.text = <<"OK">> THEN Ok(<<>>) ELSE Failed
PublishResult(frame) == IF frame.kind = "integer" THEN Ok(<<frame.n>>) ELSE Failed
PingResult(frame) == IF IsBytes(frame) THEN Ok(<<frame.text>>) ELSE Failed

Result(cmd, frame) == CASE cmd.name = <<"get">> -> GetResult(frame)
                        [] cmd.name = <<"set">> -> SetResult(frame)
                        [] cmd.name = <<"publish">> -> PublishResult(frame)
                        [] cmd.name = <<"ping">> -> PingResult(frame)
=============================================================================
