-------------------------------- MODULE Cat --------------------------------
(* cat, the three versions of it that read the same bytes: cat.c, and the     *)
(* write_lines that cat.rs and cat.cpp share.  What read() returns at a time  *)
(* and where a file ends is up to the environment: each action feeds one byte *)
(* of the present buffer, or ends the buffer, or moves on to the next file.   *)
EXTENDS Integers, Sequences

CONSTANT MaxLength      \* bound on the bytes read

ASSUME CatAssumption == MaxLength \in Nat

VARIABLES
    opts,      \* OutputOptions
    input,     \* the bytes read so far, of all files
    fresh,     \* no byte of the present buffer was processed
    cut,       \* some line's newline came first in a buffer, after its text
    c,         \* C: newlines, pending_cr, the line counter and the output
    r,         \* Rust and C++: OutputState, whether write_end is under way,
               \* and the output
    finished

catVars == <<opts, input, fresh, cut, c, r, finished>>

Bytes == {"text", "tab", "cr", "nl"}
Flags == {"A", "b", "e", "E", "n", "s", "t", "T", "v"}

\* -A is -vET, -e is -vE, -t is -vT; -b overrides -n in any order.
OptionsOf(flags) ==
    [number   |-> IF "b" \in flags THEN "nonempty"
                  ELSE IF "n" \in flags THEN "all" ELSE "none",
     squeeze  |-> "s" \in flags,
     ends     |-> flags \cap {"A", "e", "E"} # {},
     tabs     |-> flags \cap {"A", "t", "T"} # {},
     nonprint |-> flags \cap {"A", "e", "t", "v"} # {}]

\* Nothing to add to the bytes: they are copied.
CanWriteFast == /\ ~opts.tabs /\ ~opts.nonprint /\ ~opts.ends
                /\ ~opts.squeeze /\ opts.number = "none"

Init == /\ \E flags \in SUBSET Flags : opts = OptionsOf(flags)
        /\ input = <<>> /\ fresh = TRUE /\ cut = FALSE
        /\ c = [newlines |-> 0, cr |-> "none", line |-> 0, out |-> <<>>]
        /\ r = [start |-> TRUE, cr |-> FALSE, blank |-> FALSE, within |-> FALSE,
                line |-> 1, out |-> <<>>]
        /\ finished = FALSE

-----------------------------------------------------------------------------
\* What is printed: a byte or a notation, and the number of a line.
Token(kind) == <<kind, 0>>
Put(out, cond, kind) == IF cond THEN Append(out, Token(kind)) ELSE out
PutNumber(out, cond, n) == IF cond THEN Append(out, <<"number", n>>) ELSE out

EndOfLine(out) == Append(Put(out, opts.ends, "$"), Token("nl"))

Shown(b) == CASE b = "tab" -> IF opts.tabs THEN "^I" ELSE "tab"
              [] b = "cr"  -> IF opts.nonprint THEN "^M" ELSE "cr"
              [] OTHER     -> b

\* A carriage return whose look depends on the byte after it.
Defers(b) == b = "cr" /\ ~opts.nonprint

-----------------------------------------------------------------------------
\* cat.c.  `newlines` is -1 within a line, 0 at its start, 1 after a blank
\* line, 2 after more of them.  cr is "seen" when the '\r' is the byte before
\* the one peeked at, "pending" when that one is in the next buffer.

CNewline ==
    LET n      == IF c.newlines = 2 THEN 2 ELSE c.newlines + 1
        number == n > 0 /\ opts.number = "all"
        shown  == Put(PutNumber(c.out, number, c.line + 1), c.cr # "none", "^M")
    IN  IF n = 2 /\ opts.squeeze
        THEN [c EXCEPT !.newlines = n]
        ELSE [newlines |-> n, cr |-> "none",
              line |-> IF number THEN c.line + 1 ELSE c.line,
              out  |-> EndOfLine(shown)]

CText(b) ==
    LET number == c.newlines >= 0 /\ opts.number # "none"
        waits  == Defers(b) /\ opts.ends
        before == PutNumber(Put(c.out, c.cr # "none", "cr"), number, c.line + 1)
    IN  [newlines |-> -1,
         cr   |-> IF waits THEN "seen" ELSE "none",
         line |-> IF number THEN c.line + 1 ELSE c.line,
         out  |-> Put(before, ~waits, Shown(b))]

CEndOfBufferDrops == [c EXCEPT !.cr = "none"]
CEndOfBuffer == [c EXCEPT !.cr = IF @ = "seen" THEN "pending" ELSE @]

CByte(b) == CASE CanWriteFast -> [c EXCEPT !.out = Append(@, Token(b))]
              [] ~CanWriteFast /\ b = "nl" -> CNewline
              [] OTHER -> CText(b)

-----------------------------------------------------------------------------
\* write_lines of cat.rs and cat.cpp.

\* write_new_line, for a newline at the head of the loop.
AfterReturn == [start |-> TRUE, cr |-> FALSE, blank |-> r.blank,
                within |-> FALSE, line |-> r.line,
                out |-> EndOfLine(Append(r.out,
                                    Token(IF opts.ends THEN "^M" ELSE "cr")))]

NewLineShown(blank) ==
    LET number == r.start /\ opts.number = "all"
    IN  [start |-> TRUE, cr |-> FALSE, blank |-> blank, within |-> FALSE,
         line  |-> IF number THEN r.line + 1 ELSE r.line,
         out   |-> EndOfLine(PutNumber(r.out, number, r.line))]

WriteNewLineUnflagged == IF r.cr THEN AfterReturn ELSE NewLineShown(r.blank)
WriteNewLine ==
    IF r.cr THEN AfterReturn
    ELSE IF r.start /\ opts.squeeze /\ r.blank THEN r
    ELSE NewLineShown(TRUE)

\* write_end stopped at a newline.
LineEnds == [start |-> TRUE, cr |-> FALSE, blank |-> r.blank, within |-> FALSE,
             line |-> r.line, out |-> EndOfLine(r.out)]

\* write_end takes a byte, or stops at a carriage return.
WriteEnd(b) ==
    [start |-> r.start, cr |-> Defers(b), blank |-> r.blank,
     within |-> ~Defers(b), line |-> r.line,
     out |-> Put(r.out, ~Defers(b), Shown(b))]

\* Text at the head of the loop: the skipped carriage return and the number
\* come before it.
StartTextForgetsReturn(b) ==
    LET number == r.start /\ opts.number # "none"
        before == PutNumber(Put(r.out, r.cr, "cr"), number, r.line)
    IN  [start |-> r.start, cr |-> Defers(b), blank |-> FALSE,
         within |-> ~Defers(b),
         line |-> IF number THEN r.line + 1 ELSE r.line,
         out |-> Put(before, ~Defers(b), Shown(b))]
StartText(b) ==
    LET start  == r.start /\ ~r.cr
        number == start /\ opts.number # "none"
        before == PutNumber(Put(r.out, r.cr, "cr"), number, r.line)
    IN  [start |-> start, cr |-> Defers(b), blank |-> FALSE,
         within |-> ~Defers(b),
         line |-> IF number THEN r.line + 1 ELSE r.line,
         out |-> Put(before, ~Defers(b), Shown(b))]

LineByte(b) == CASE b = "nl" /\ r.within  -> LineEnds
                 [] b = "nl" /\ ~r.within -> WriteNewLine
                 [] b # "nl" /\ r.within  -> WriteEnd(b)
                 [] OTHER                 -> StartText(b)

RByte(b) == IF CanWriteFast THEN [r EXCEPT !.out = Append(@, Token(b))]
            ELSE LineByte(b)

REndOfBuffer == [r EXCEPT !.within = FALSE, !.start = @ /\ ~r.within]

-----------------------------------------------------------------------------
\* The newline of a line whose text ended the last buffer.
CutsLine(b) == /\ b = "nl" /\ fresh
               /\ input # <<>>
               /\ input[Len(input)] # "nl" /\ ~Defers(input[Len(input)])

Byte(b) == /\ ~finished
           /\ Len(input) < MaxLength
           /\ input' = Append(input, b)
           /\ fresh' = FALSE
           /\ cut' = (cut \/ CutsLine(b))
           /\ c' = CByte(b)
           /\ r' = RByte(b)
           /\ UNCHANGED <<opts, finished>>

\* read() returned no more than this, or the file ends or fails here; what
\* carries over to the next buffer or file is in c and r.
EndOfBuffer == /\ ~finished
               /\ ~fresh
               /\ fresh' = TRUE
               /\ c' = CEndOfBuffer
               /\ r' = REndOfBuffer
               /\ UNCHANGED <<opts, input, cut, finished>>

\* After the last file: the carriage return that is still held back.
Finish == /\ ~finished
          /\ fresh
          /\ finished' = TRUE
          /\ c' = [c EXCEPT !.cr = "none", !.out = Put(@, c.cr = "pending", "cr")]
          /\ r' = [r EXCEPT !.cr = FALSE, !.out = Put(@, r.cr, "cr")]
          /\ UNCHANGED <<opts, input, fresh, cut>>

Next == (\E b \in Bytes : Byte(b)) \/ EndOfBuffer \/ Finish

Spec == Init /\ [][Next]_catVars

-----------------------------------------------------------------------------
\* Types of the state.
TypeOK ==
    /\ opts \in [number : {"none", "nonempty", "all"}, squeeze : BOOLEAN,
                 ends : BOOLEAN, tabs : BOOLEAN, nonprint : BOOLEAN]
    /\ input \in Seq(Bytes)
    /\ fresh \in BOOLEAN /\ cut \in BOOLEAN /\ finished \in BOOLEAN
    /\ c.newlines \in -1..2 /\ c.cr \in {"none", "seen", "pending"}
    /\ c.line \in Nat
    /\ r.line \in Nat \ {0}

\* What each version has printed, with the carriage return it holds back.
Printed(out, held) == Put(out, held, "cr")

\* The versions print the same, however the input is cut, unless blank lines
\* are squeezed and a cut separated a line from its newline: then write_lines
\* takes the newline for a blank line (cat.rs:609, cat.cpp:311).
VersionsAgree ==
    (opts.squeeze /\ cut) \/ Printed(c.out, c.cr # "none") = Printed(r.out, r.cr)
=============================================================================
