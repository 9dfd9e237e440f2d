------------------------------- MODULE MCCat --------------------------------
(* What cat is to print, on the whole input, for Cat's three versions.        *)
EXTENDS Cat, SequencesExt, FiniteSets

StartsLine(i) == i = 1 \/ input[i - 1] = "nl"
BlankLine(i) == StartsLine(i) /\ input[i] = "nl"

\* The second and later of adjacent blank lines, with -s.
Squeezed(i) == opts.squeeze /\ BlankLine(i) /\ i > 1 /\ BlankLine(i - 1)

Numbered(i) == /\ StartsLine(i) /\ ~Squeezed(i)
               /\ \/ opts.number = "all"
                  \/ opts.number = "nonempty" /\ ~BlankLine(i)

LineNumber(i) == Cardinality({j \in 1..i : Numbered(j)})

BeforeNewline(i) == i < Len(input) /\ input[i + 1] = "nl"

Kind(i) == IF input[i] = "cr" /\ opts.ends /\ BeforeNewline(i) THEN "^M"
           ELSE Shown(input[i])

Entry(i) ==
    IF Squeezed(i) THEN <<>>
    ELSE PutNumber(<<>>, Numbered(i), LineNumber(i))
         \o (IF input[i] = "nl" THEN EndOfLine(<<>>) ELSE <<Token(Kind(i))>>)

Listing == FlattenSeq([i \in 1..Len(input) |-> Entry(i)])

\* cat.c prints its listing of the whole input, however it was cut into
\* buffers and files (cat.c:225-511).
ListsInput == Printed(c.out, c.cr # "none") = Listing

\* "Suppress repeated empty output lines" (cat.rs:121): write_lines leaves out
\* no newline but those of repeated empty lines.
OnlyRepeatsSuppressed ==
    Cardinality({i \in 1..Len(r.out) : r.out[i] = Token("nl")})
        = Cardinality({i \in 1..Len(input) : input[i] = "nl" /\ ~Squeezed(i)})
=============================================================================
