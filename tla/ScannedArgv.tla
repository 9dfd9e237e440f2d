---------------------------- MODULE ScannedArgv ----------------------------
(* What wgetopt is to return and how it is to leave argv, said of the         *)
(* elements one after the other.  Indices are those of the code.              *)
EXTENDS WGetopt, SequencesExt

None == <<>>
DashDash == <<"-", "-">>

\* The elements of argv from index i up to j.
Between(argv, i, j) == SubSeq(argv, i + 1, j)

\* What an option that wants an argument gets: the text left in its element,
\* else the next element, if there is one.  takes is how many elements it uses;
\* how tells the scanners apart: their marker, colon and longs.
WithArgument(how, opt, left, next) ==
    IF left # <<>> THEN [got |-> <<opt, <<left>>>>, takes |-> 1]
    ELSE IF next # None THEN [got |-> <<opt, next>>, takes |-> 2]
    ELSE [got |-> <<Missing(how), None>>, takes |-> 1]

\* The text of a cluster: flags and unknown options, one of which may be the
\* first that wants an argument.
Flag(char) == <<IF char \in DOMAIN ShortOpts THEN char ELSE "?", None>>

LastOption(how, char, left, next) ==
    IF ShortOpts[char] = "optional" /\ left = <<>>
    THEN [got |-> <<char, None>>, takes |-> 1]
    ELSE WithArgument(how, char, left, next)

Cluster(how, body, next) ==
    LET wants == {k \in DOMAIN body : /\ body[k] \in DOMAIN ShortOpts
                                      /\ ShortOpts[body[k]] # "no"}
        k == First(wants)
        last == LastOption(how, body[k], Skip(body, k), next)
    IN  IF wants = {} THEN [got |-> [c \in 1..Len(body) |-> Flag(body[c])], takes |-> 1]
        ELSE [got |-> Append([c \in 1..k - 1 |-> Flag(body[c])], last.got),
              takes |-> last.takes]

\* A long option is named in full, or by a beginning no other long option has.
LongOption(how, body, next) ==
    LET cut == {k \in DOMAIN body : body[k] = "="}
        word == IF cut = {} THEN body ELSE SubSeq(body, 1, First(cut) - 1)
        full == {i \in DOMAIN LongTable : LongTable[i].name = word}
        some == {i \in DOMAIN LongTable : IsPrefix(word, LongTable[i].name)}
        one == IF full # {} THEN {First(full)} ELSE some
        o == LongTable[First(one)]
        Only(what) == [got |-> what, takes |-> 1]
    IN  IF \A i \in one : one # {i} THEN Only(<<"?", None>>)
        ELSE IF cut # {}
        THEN Only(IF o.takes = "no" THEN <<"?", None>>
                  ELSE <<o.val, <<Skip(body, First(cut))>>>>)
        ELSE IF o.takes = "required" THEN WithArgument(how, o.val, <<>>, next)
        ELSE Only(<<o.val, None>>)

IsLong(how, e) == /\ how.longs # <<>>
                  /\ \/ e[2] = "-"
                     \/ e[2] \notin Listed

Option(how, e, next) ==
    IF IsLong(how, e)
    THEN LET o == LongOption(how, Skip(e, IF e[2] = "-" THEN 2 ELSE 1), next)
         IN  [got |-> <<o.got>>, takes |-> o.takes]
    ELSE Cluster(how, Skip(e, 1), next)

\* Of some elements: what is returned, which are used and which are left, each
\* in the order given.  What is said of those that follow comes after it.
Parts(returned, used, left) == [got |-> returned, used |-> used, left |-> left]
Then(x, y) == Parts(x.got \o y.got, x.used \o y.used, x.left \o y.left)

Following(argv, i) == IF i + 1 < Len(argv) THEN <<argv[i + 2]>> ELSE None

\* The options of o, at index i, and what follows them.
Options(argv, scan, i, o) ==
    Then(Parts(o.got, Between(argv, i, i + o.takes), <<>>), scan[i + o.takes])

ScanFrom(how, argv, scan, i) ==
    LET e == argv[i + 1]
        rest == Between(argv, i, Len(argv))
    IN  IF i = Len(argv) THEN Parts(<<>>, <<>>, <<>>)
        ELSE IF e = DashDash THEN Parts(<<>>, <<e>>, Tail(rest))
        ELSE IF ~NonOption(e)
        THEN Options(argv, scan, i, Option(how, e, Following(argv, i)))
        ELSE CASE how.marker = "+" -> Parts(<<>>, <<>>, rest)
               [] how.marker = "-" ->
                    Then(Parts(<<<<"nonopt", <<e>>>>>>, <<e>>, <<>>), scan[i + 1])
               [] OTHER -> Then(Parts(<<>>, <<>>, <<e>>), scan[i + 1])

\* For each index, of the elements from there on.
Scan(how, argv) ==
    LET scan[i \in 1..Len(argv)] == ScanFrom(how, argv, scan, i) IN scan

-----------------------------------------------------------------------------
How(s) == [marker |-> s.marker, colon |-> s.colon, longs |-> s.longs]

\* The calls return the options of argv in order, each with its argument, and
\* then say that there are no more (wgetopt.rs:489-502).  In the end what was
\* used precedes what was left, both in the order given, and wopt_index is where
\* the latter begin (wgetopt.rs:48-50, 123-125).
ReturnsOptions ==
    LET self == g["rust"]
        scan == Scan(How(self), given)[1]
    IN  ~strayed["rust"] =>
            /\ IsPrefix(got, Append(scan.got, <<"end", None>>))
            /\ self.opt = "end" =>
                  /\ self.argv = <<given[1]>> \o scan.used \o scan.left
                  /\ self.index = 1 + Len(scan.used)
=============================================================================
