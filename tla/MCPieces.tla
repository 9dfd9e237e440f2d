------------------------------ MODULE MCPieces ------------------------------
(* Inputs for the programs that read in pieces.                               *)
EXTENDS Connection, Hexyl, Tr, TLC

Connect(v, peer, side, calls, input) ==
    [tool |-> "connection", v |-> v, peer |-> peer, side |-> side, calls |-> calls,
     input |-> input]

Versions == {"rust", "cpp"}

\* Any bytes up to four, and what a few fragments make: frames of each kind,
\* beginnings of frames, arrays of arrays, lengths that lie.
Bytes == {"+", "-", ":", "$", "*", "CR", "LF", "0", "1", "x"}
Fragments == {
    <<"+", "x", "CR", "LF">>, <<"-", "bad", "CR", "LF">>,
    <<":", "1", "2", "x", "CR", "LF">>, <<":", "-", "1", "CR", "LF">>,
    <<"$", "-", "1", "CR", "LF">>, <<"$", "-", "1", "2", "CR", "LF">>,
    <<"$", "2", "CR", "LF", "CR", "LF", "CR", "LF">>,
    <<"$", "1", "CR", "LF", "x", "x", "x">>, <<"$", "3", "CR", "LF", "x">>,
    <<"*", "0", "CR", "LF">>, <<"*", "2", "CR", "LF">>, <<"*", "1", "CR">>}
Raw == {Connect(v, v, "raw", <<>>, input) :
           v \in Versions,
           input \in UNION {[1..n -> Bytes] : n \in 0..4}
                     \cup {FlattenSeq(f) : f \in UNION {[1..n -> Fragments] : n \in 2..3}}}

\* Calls of a client, in sequences of up to two: of either version; with part of
\* a millisecond; with a key that is not UTF-8.
Key(k) == <<k>>
CommonCalls == {Command(<<"get">>, <<Key("k")>>, {}),
                Command(<<"set">>, <<Key("k"), <<"CR", "LF">>>>, {}),
                Command(<<"set">>, <<Key("k"), <<>>>>, {1200000}),
                Command(<<"publish">>, <<Key("c"), <<"bad">>>>, {}),
                Command(<<"ping">>, <<>>, {}),
                Command(<<"ping">>, <<<<"$", "-", "1">>>>, {})}
RustCalls == {Command(<<"set">>, <<Key("j"), <<"x", "bad">>>>, {us}) : us \in {500, 1200500}}
CppCalls == {Command(<<"set">>, <<Key("bad"), <<"x">>>>, {}),
             Command(<<"get">>, <<<<"x", "bad">>>>, {})}
Calls(w) == CommonCalls \cup (IF w = "rust" THEN RustCalls ELSE CppCalls)
Subscription(w) ==
    Command(<<"subscribe">>, <<Key("c"), Key(IF w = "rust" THEN "d" ELSE "bad")>>, {})
UpToTwo(w) == UNION {[1..n -> Calls(w)] : n \in 1..2}
Sessions(w) == UpToTwo(w) \cup {<<c, Subscription(w)>> : c \in Calls(w)}
Conversations ==
    UNION {{Connect(v, w, "server", calls, Asked(w, calls)) : calls \in Sessions(w)} :
              v \in Versions, w \in Versions}
    \cup UNION {{Connect(v, w, "client", calls, Answered(w, Served(w, calls))) :
                    calls \in UpToTwo(v)} :
                 v \in Versions, w \in Versions}

-----------------------------------------------------------------------------
Dump(options, input, means) ==
    options @@ [tool |-> "hexyl", width |-> 2, group |-> 1, little |-> FALSE,
                squeeze |-> TRUE, include |-> "off", seekable |-> TRUE,
                skip |-> {}, length |-> {}, display |-> <<"0">>,
                block |-> <<"3">>, means |-> means, input |-> input]
Means(first, count, position) ==
    [status |-> "ok", prints |-> TRUE, first |-> first, count |-> count,
     position |-> position]
Nothing(status) == [Means(0, 0, 0) EXCEPT !.status = status, !.prints = FALSE]

\* Four lines of two bytes, the last one incomplete or not; and groups of two
\* and of three bytes whose last is incomplete.
Files == {Dump([squeeze |-> s, include |-> i], input, Means(0, Len(input), 0)) :
             s \in BOOLEAN, i \in {"off", "file"},
             input \in UNION {[1..n -> {1, 2}] : n \in 0..8}}
         \cup {Dump([little |-> TRUE, width |-> 6, group |-> g, include |-> i],
                    [b \in 1..n |-> b], Means(0, n, 0)) :
                  g \in {2, 3}, n \in 0..8, i \in {"off", "stdin"}}

\* The texts of counts and what they mean, when a block is of 3 bytes: backward
\* or not, and how many, or -1 for those that mean nothing.
Texts1 == {<<<<"2">>, FALSE, 2>>, <<<<"+", "1", "block">>, FALSE, 3>>,
           <<<<"-", "0", "3">>, TRUE, 3>>, <<<<"-", "9">>, TRUE, 9>>,
           <<<<"-", "0x", "2">>, TRUE, 2>>, <<<<"0x", "1", "0">>, FALSE, 16>>,
           <<<<"1", "kib">>, FALSE, 1024>>, <<<<"5", "kib">>, FALSE, -1>>,
           <<<<"block">>, FALSE, -1>>, <<<<"0x", "-", "1">>, FALSE, -1>>,
           <<<<"+">>, FALSE, -1>>, <<<<>>, FALSE, -1>>, <<<<"1", "zz">>, FALSE, -1>>}
SomeInput == <<1, 1, 1, 1, 1, 1, 2, 1, 2>>
Meant(seekable, skip, length, display) ==
    LET size == Len(SomeInput)
        all == skip \cup length \cup {display}
        forward == \A t \in length \cup {display} : ~t[2]
        at == IF skip = {} THEN 0
              ELSE CHOOSE n \in -9..1024 : \E t \in skip :
                      n = CASE t[2] -> size - t[3]
                            [] seekable -> t[3]
                            [] OTHER -> Min({t[3], size})
        count == IF length = {} THEN size ELSE (CHOOSE t \in length : TRUE)[3]
    IN  IF (\E t \in all : t[3] < 0) \/ ~forward \/ (~seekable /\ \E t \in skip : t[2])
        THEN Nothing("error")
        ELSE IF at < 0 THEN Nothing("error")
        ELSE Means(at, count, at + display[3])
Optional(S) == {{}} \cup {{e} : e \in S}
First(texts) == {t[1] : t \in texts}
Arguments ==
    {Dump([seekable |-> s, skip |-> First(skip), length |-> First(length),
           display |-> display[1], include |-> i], SomeInput,
          Meant(s, skip, length, display)) :
        s \in BOOLEAN, skip \in Optional(Texts1), length \in Optional(Texts1),
        display \in {<<<<"0">>, FALSE, 0>>, <<<<"1", "block">>, FALSE, 3>>,
                     <<<<"-", "1">>, TRUE, 1>>},
        i \in {"off", "stdin"}}
    \cup {Dump([block |-> b[1]], SomeInput, b[2]) :
             b \in {<<<<"0x", "2">>, Nothing("ok")>>, <<<<"0">>, Nothing("error")>>,
                    <<<<"2", "block">>, Nothing("error")>>,
                    <<<<"0x", "0">>, Nothing("error")>>,
                    <<<<"1", "kib">>, Means(0, 9, 0)>>}}

-----------------------------------------------------------------------------
LowerUpper == {"lower", "upper"}
ClassNames == {"lower", "upper", "digit"}
ClassMembers == [lower |-> <<1, 2>>, upper |-> <<3, 4>>, digit |-> <<0>>]

Filter(delete, squeeze, complement, truncate, set1, set2, input) ==
    [tool |-> "tr", delete |-> delete, squeeze |-> squeeze,
     complement |-> complement, truncate |-> truncate, set1 |-> set1,
     set2 |-> set2, input |-> input]
Byte(c) == Item("byte", c, 0)
Star(c) == Item("star", c, 0)
Named(class) == Item(class, 0, 0)
FirstSets == {<<>>, <<Byte(1)>>, <<Byte(0), Byte(2), Byte(0)>>,
              <<Item("range", 1, 3)>>, <<Named("lower")>>,
              <<Byte(4), Named("lower")>>, <<Named("upper"), Byte(3)>>,
              <<Named("digit"), Named("upper")>>, <<Item("repeat", 2, 3)>>,
              <<Star(1)>>}
SecondSets == {<<>>, <<Byte(3)>>, <<Byte(1), Byte(4)>>, <<Star(3)>>, <<Star(0)>>,
               <<Star(2), Byte(4)>>, <<Byte(3), Star(0)>>, <<Star(1), Star(3)>>,
               <<Byte(2), Star(3), Byte(4)>>, <<Item("range", 0, 2)>>,
               <<Item("repeat", 3, 2), Byte(1)>>, <<Named("upper")>>,
               <<Byte(4), Named("upper")>>, <<Star(4), Named("lower")>>,
               <<Named("upper"), Star(2)>>, <<Named("digit")>>}
AllTwice == <<0, 1, 1, 2, 2, 2, 3, 4, 4, 3, 0, 0>>
SomeSets == {Filter(d, s, c, t, set1, set2, AllTwice) :
                d \in BOOLEAN, s \in BOOLEAN, c \in BOOLEAN, t \in BOOLEAN,
                set1 \in FirstSets, set2 \in Optional(SecondSets)}
\* Runs of every length in every position, with one byte squeezed or two, after
\* nothing, a deletion or a translation.
Runs == UNION {[1..n -> {1, 2, 3}] : n \in 0..6}
SomeInputs == {Filter(FALSE, TRUE, FALSE, FALSE, <<Item("range", 1, 2)>>, {}, input) :
                  input \in Runs}
              \cup {Filter(d, TRUE, FALSE, FALSE, <<Byte(3)>>, {<<Byte(1)>>}, input) :
                  d \in BOOLEAN, input \in Runs}

-----------------------------------------------------------------------------
Init == /\ job \in Raw \cup Conversations \cup Files \cup Arguments
                   \cup SomeSets \cup SomeInputs
        /\ left = job.input
        /\ st = CASE job.tool = "connection" -> Opened
                  [] job.tool = "hexyl" -> Printer
                  [] job.tool = "tr" -> Filters

Next == NextConnection \/ NextHexyl \/ NextTr
Spec == Init /\ [][Next]_vars
=============================================================================
