------------------------------ MODULE WGetopt ------------------------------
(* wgetopt, the argument scanner of fish, in its three versions: the original *)
(* C++, the Rust rewrite and its translation back to C++.  All scan the same  *)
(* argv; one action is one call, by a caller that calls until there are no    *)
(* more options and may go on after an error.  Indices are those of the code: *)
(* argv[0] is the name of the program.                                        *)
EXTENDS Integers, Sequences

CONSTANTS
    Chars,        \* characters of the arguments
    ShortOpts,    \* what each short option takes: [option -> ArgTypes]
    LongTable,    \* the long options: <<[name, takes, val], ...>>
    Argvs         \* the argument vectors to scan

ArgTypes == {"no", "required", "optional"}
Elements == Seq(Chars)

ASSUME WGetoptAssumption ==
    /\ {"-", "="} \subseteq Chars
    /\ Chars \cap {"none", "found", "nonopt", "end", "undefined", "nul"} = {}
    /\ ShortOpts \in [DOMAIN ShortOpts -> ArgTypes]
    /\ DOMAIN ShortOpts \subseteq Chars \ {"-", "=", ":"}
    /\ LongTable \in Seq([name : Elements, takes : ArgTypes, val : Chars])
    /\ Argvs \subseteq Seq(Elements) \ {<<>>}

VARIABLES
    given,      \* argv as the caller passed it
    g,          \* the scanner of each version
    got,        \* what the calls have returned so far, as Rust sees it
    strayed     \* whether each met an unknown option within an element

vars == <<given, g, got, strayed>>

Versions == {"original", "rust", "translated"}
Markers == {"", "+", "-"}

\* A scanner before its first call.  text is remaining_text (nextchar),
\* arg is woptarg: nothing, or a sequence of one; opt is what was returned.
New(argv, marker, colon, longs) ==
    [argv |-> argv, argc |-> Len(argv), index |-> 0, first |-> 0, last |-> 0,
     text |-> <<>>, arg |-> <<>>, opt |-> "none", unrecognized |-> "?",
     marker |-> marker, colon |-> colon, longs |-> longs]

Init ==
    /\ given \in Argvs
    /\ \E marker \in Markers, colon \in BOOLEAN, longs \in {<<>>, LongTable} :
            g = [v \in Versions |-> New(given, marker, colon, longs)]
    /\ got = <<>>
    /\ strayed = [v \in Versions |-> FALSE]

-----------------------------------------------------------------------------
Element(s, i) == s.argv[i + 1]

\* char_at, and the terminator of a C string.
At(e, i) == IF i < Len(e) THEN e[i + 1] ELSE "nul"
Skip(e, n) == SubSeq(e, n + 1, Len(e))

NonOption(e) == At(e, 0) # "-" \/ Len(e) = 1

\* The characters of shortopts: the options, and the ':' after one that takes an
\* argument.  wcschr finds the terminator, too.
Listed == DOMAIN ShortOpts
            \cup {c \in {":"} : \E o \in DOMAIN ShortOpts : ShortOpts[o] # "no"}
Short(v, char) == \/ char \in Listed
                  \/ v # "rust" /\ char = "nul"

Missing(s) == IF s.colon THEN ":" ELSE "?"

-----------------------------------------------------------------------------
\* exchange.  The original swaps the shorter segment to its place until none
\* is left, the other two rotate argv[first..index].

\* argv with the n elements from i on and those from j on swapped.
Swapped(argv, i, j, n) ==
    [k \in DOMAIN argv |-> IF k \in i + 1..i + n THEN argv[k + j - i]
                           ELSE IF k \in j + 1..j + n THEN argv[k + i - j]
                           ELSE argv[k]]

\* In order and within argv, as exchange of the rewrite asserts.
Ranges == {x \in [argv : Seq(Elements), bottom : Nat, middle : Nat, top : Nat] :
              x.bottom <= x.middle /\ x.middle <= x.top /\ x.top <= Len(x.argv)}

SwapLoop[x \in Ranges] ==
    LET below == x.middle - x.bottom
        above == x.top - x.middle
    IN  IF below <= 0 \/ above <= 0 THEN x.argv
        ELSE IF above > below
        THEN SwapLoop[[x EXCEPT !.top = @ - below,
                                !.argv = Swapped(@, x.bottom, x.top - below, below)]]
        ELSE SwapLoop[[x EXCEPT !.bottom = @ + above,
                                !.argv = Swapped(@, x.bottom, x.middle, above)]]

RotateRight(argv, left, middle, right) ==
    [k \in DOMAIN argv |->
        IF k \in left + 1..middle THEN argv[k + right - middle]
        ELSE IF k \in middle + 1..right THEN argv[k - middle + left]
        ELSE argv[k]]
RotateLeft(argv, left, middle, right) ==
    [k \in DOMAIN argv |->
        IF k \in left + 1..left + right - middle THEN argv[k + middle - left]
        ELSE IF k \in left + right - middle + 1..right THEN argv[k - right + middle]
        ELSE argv[k]]

Exchange(v, s) ==
    [s EXCEPT !.argv  = IF v = "original"
                        THEN SwapLoop[[argv |-> s.argv, bottom |-> s.first,
                                       middle |-> s.last, top |-> s.index]]
                        ELSE RotateLeft(s.argv, s.first, s.last, s.index),
              !.first = @ + s.index - s.last,
              !.last  = s.index]

-----------------------------------------------------------------------------
\* next_argv: what is returned is "found", when there is an option to decode.

Initialize(s) == [s EXCEPT !.first = 1, !.last = 1, !.index = 1, !.text = <<>>]

\* Options were found after non-options: they go before them.
Regroup(v, s) == CASE s.last = s.index -> s
                [] s.last # s.index /\ s.first = s.last -> [s EXCEPT !.first = s.index]
                [] OTHER -> Exchange(v, s)

\* The next element that is an option, or argc.
NextOption(s) ==
    CHOOSE i \in s.index..s.argc :
        /\ i < s.argc => ~NonOption(Element(s, i))
        /\ \A j \in s.index..i - 1 : NonOption(Element(s, j))

SkipNonOptions(s) == LET i == NextOption(s) IN [s EXCEPT !.index = i, !.last = i]

Permuted(v, s) == IF s.marker = "" THEN SkipNonOptions(Regroup(v, s)) ELSE s

\* `--` goes with the options, and everything after it with the others.
EndOptions(v, s) ==
    IF s.index < s.argc /\ Element(s, s.index) = <<"-", "-">>
    THEN LET t == [s EXCEPT !.index = @ + 1]
             u == CASE t.first = t.last -> [t EXCEPT !.first = t.index]
                    [] t.first # t.last /\ t.last # t.index -> Exchange(v, t)
                    [] OTHER -> t
         IN  [u EXCEPT !.last = s.argc, !.index = s.argc]
    ELSE s

Finished(s) == [s EXCEPT !.opt = "end",
                         !.index = IF s.first # s.last THEN s.first ELSE @]

FoundOption(s) ==
    LET e == Element(s, s.index)
    IN  [s EXCEPT !.opt = "found",
                  !.text = Skip(e, IF s.longs # <<>> /\ At(e, 1) = "-" THEN 2 ELSE 1)]

UnpermutedNonOption(s) ==
    IF s.marker = "+" THEN [s EXCEPT !.opt = "end"]
    ELSE [s EXCEPT !.opt = "nonopt", !.arg = <<Element(s, s.index)>>, !.index = @ + 1]

NextArgv(v, s) ==
    LET t == EndOptions(v, Permuted(v, s))
    IN  IF t.index = t.argc THEN Finished(t)
        ELSE IF NonOption(Element(t, t.index)) THEN UnpermutedNonOption(t)
        ELSE FoundOption(t)

-----------------------------------------------------------------------------
\* An argument of its own for the option just passed.  Past argc, where only a
\* call after `strayed` comes, Rust panics and C++ reads beyond argv.
TakeNext(s, val) ==
    IF s.index > s.argc THEN [s EXCEPT !.opt = "undefined"]
    ELSE [s EXCEPT !.opt = val, !.arg = <<Element(s, s.index)>>, !.index = @ + 1]

\* handle_short_opt
HandleShortOpt(s) ==
    LET char == s.text[1]
        rest == Skip(s.text, 1)
        t == [s EXCEPT !.text = rest, !.index = IF rest = <<>> THEN @ + 1 ELSE @]
        u == [t EXCEPT !.text = <<>>]
        attached == [u EXCEPT !.arg = <<rest>>, !.index = @ + 1, !.opt = char]
    IN  CASE char \notin DOMAIN ShortOpts ->
                [t EXCEPT !.opt = "?", !.unrecognized = char, !.index = s.index + 1]
          [] char \in DOMAIN ShortOpts /\ ShortOpts[char] = "no" ->
                [t EXCEPT !.opt = char]
          [] char \in DOMAIN ShortOpts /\ ShortOpts[char] # "no" /\ rest # <<>> ->
                attached
          [] char \in DOMAIN ShortOpts /\ ShortOpts[char] = "optional" /\ rest = <<>> ->
                [u EXCEPT !.opt = char]
          [] OTHER ->
                IF u.index = u.argc
                THEN [u EXCEPT !.opt = Missing(s), !.unrecognized = char]
                ELSE TakeNext(u, char)

-----------------------------------------------------------------------------
\* handle_long_opt
NameEnd(text) ==
    CHOOSE n \in 0..Len(text) :
        /\ n < Len(text) => text[n + 1] = "="
        /\ \A k \in 1..n : text[k] # "="

Abbreviates(name, full) == /\ Len(name) <= Len(full)
                           /\ name = SubSeq(full, 1, Len(name))

\* find_matching_long_opt: the first exact match, or the first of the others
\* and whether there are more.
Matching(s, name) == {i \in DOMAIN s.longs : Abbreviates(name, s.longs[i].name)}
Exact(s, name) == {i \in DOMAIN s.longs : s.longs[i].name = name}
First(S) == CHOOSE i \in S : \A j \in S : i <= j

FindMatchIgnoresExact(s, name) == Matching(s, name)
FindMatch(s, name) ==
    IF Exact(s, name) # {} THEN {First(Exact(s, name))} ELSE Matching(s, name)

\* The element is passed over, with an error.
RejectTwice(s) == [s EXCEPT !.text = <<>>, !.index = @ + 2, !.opt = "?"]
Reject(s) == [s EXCEPT !.text = <<>>, !.index = @ + 1, !.opt = "?"]

\* update_long_opt
UpdateLongOpt(s, found, end) ==
    LET t == [s EXCEPT !.index = @ + 1, !.text = <<>>]
    IN  CASE end < Len(s.text) /\ found.takes = "no" -> Reject(s)
          [] end < Len(s.text) /\ found.takes # "no" ->
                [t EXCEPT !.arg = <<Skip(s.text, end + 1)>>, !.opt = found.val]
          [] end = Len(s.text) /\ found.takes = "required" ->
                IF t.index < t.argc THEN TakeNext(t, found.val)
                ELSE [t EXCEPT !.opt = Missing(s)]
          [] OTHER -> [t EXCEPT !.opt = found.val]

\* The original never takes for a short option what was tried as a long one;
\* the others do, if the element did not begin with `--`.
HandleLongOpt(v, s) ==
    LET end   == NameEnd(s.text)
        match == FindMatch(s, SubSeq(s.text, 1, end))
        short == /\ v # "original"
                 /\ At(Element(s, s.index), 1) # "-"
                 /\ Short(v, s.text[1])
    IN  CASE \E i \in match : match = {i} ->
                UpdateLongOpt(s, s.longs[CHOOSE i \in match : TRUE], end)
          [] match = {} /\ short -> HandleShortOpt(s)
          [] OTHER -> Reject(s)

-----------------------------------------------------------------------------
\* wgetopt_inner
TryLong(v, s) ==
    /\ s.longs # <<>> /\ s.index < s.argc
    /\ LET e == Element(s, s.index)
       IN  \/ At(e, 0) = "-" /\ At(e, 1) = "-"
           \/ ~Short(v, At(e, 1))

Decode(v, s) == IF TryLong(v, s) THEN HandleLongOpt(v, s) ELSE HandleShortOpt(s)

Call(v, s) ==
    LET t == [(IF s.index = 0 THEN Initialize(s) ELSE s) EXCEPT !.arg = <<>>]
        u == IF t.text = <<>> THEN NextArgv(v, t) ELSE [t EXCEPT !.opt = "found"]
    IN  IF u.opt = "found" THEN Decode(v, u) ELSE u

\* Neither out of options nor, by the assertion of next_opt, out of range.
Callable(s) == s.opt \notin {"end", "undefined"} /\ s.index <= s.argc

\* An unknown option was met and its element passed, but the text is not: the
\* next call decodes it as if it were part of the next element.
Strays(s) == s.opt = "?" /\ s.text # <<>>

NextOpt ==
    /\ \A v \in Versions : Callable(g[v])
    /\ g' = [v \in Versions |-> Call(v, g[v])]
    /\ got' = Append(got, <<g'["rust"].opt, g'["rust"].arg>>)
    /\ strayed' = [v \in Versions |-> strayed[v] \/ Strays(g'[v])]
    /\ UNCHANGED given

Next == NextOpt

Spec == Init /\ [][Next]_vars

-----------------------------------------------------------------------------
\* exchange and next_opt assert it (wgetopt.rs:168, 200): the ranges of skipped
\* non-options and of options after them stay in order and within argv, until
\* the caller goes on after an unknown option within its element.
InOrder(s) == /\ 1 <= s.first /\ s.first <= s.last
              /\ s.opt # "end" => s.last <= s.index
              /\ s.last <= s.argc /\ s.index <= s.argc

IndicesInOrder ==
    \A v \in Versions : g[v].index > 0 => strayed[v] \/ InOrder(g[v])

\* The three versions do the same with argv and return the same, the exchange by
\* swaps of the original (wgetopt.cpp:68-111) included.
VersionsAgree ==
    \A v, w \in Versions : ~(strayed[v] /\ strayed[w]) => g[v] = g[w]
=============================================================================
