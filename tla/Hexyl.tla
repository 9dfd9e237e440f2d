------------------------------- MODULE Hexyl -------------------------------
(* hexyl: run of original-rust/src/main.rs from its byte counts on, the seek  *)
(* of input.rs, and Printer::print_all of lib.rs.  job holds the texts of the *)
(* arguments (skip and length as sets of at most one), the options, whether   *)
(* the input can seek, and the width of a line in bytes, 8 * panels in the    *)
(* code.  Colours, borders and digits are left out: a line of the output is   *)
(* its position, its bytes as they are ordered and its characters.  A read    *)
(* that fails is left out.                                                    *)
EXTENDS Reading

CONSTANTS MaxCount,    \* the largest count: i64::MAX
          Kibi,        \* the multiplier of "kib", for all units but the block
          IncludeRow   \* bytes on a line of a C include: 12

ASSUME HexylAssumption ==
    MaxCount \in Nat /\ Kibi \in Nat /\ IncludeRow \in Nat \ {0}

Digit == [c \in {"0", "1", "2", "3", "4", "5", "6", "7", "8", "9"} |->
            CHOOSE i \in 0..9 : <<"0", "1", "2", "3", "4", "5", "6", "7", "8", "9">>[i + 1] = c]

-----------------------------------------------------------------------------
\* Byte counts (main.rs): a text is a sequence of signs, "0x", digits and unit
\* names, and what it means a set of at most one.

Number(digits, radix) ==
    LET value == FoldLeft(LAMBDA sum, c : radix * sum + Digit[c], 0, digits)
    IN  IF digits = <<>> \/ ~(ToSet(digits) \subseteq DOMAIN Digit)
           \/ value \notin 0..MaxCount
        THEN {} ELSE {value}

IsHex(text) == text # <<>> /\ Head(text) = "0x"

\* extract_num_and_unit_from: the number, and the unit in bytes or "block"
NumberAndUnit(text, block) ==
    LET n == Max({i \in 0..Len(text) :
                    ToSet(SubSeq(text, 1, i)) \subseteq DOMAIN Digit})
        unit == SubSeq(text, n + 1, Len(text))
        bytes == CASE unit = <<>> -> {1}
                   [] unit = <<"kib">> -> {Kibi}
                   [] unit = <<"block">> -> block
                   [] OTHER -> {}
    IN  {c \in {k * u : k \in Number(SubSeq(text, 1, n), 10), u \in bytes} :
           c <= MaxCount}

\* parse_byte_offset
ByteOffset(text, block) ==
    LET sign == IF text = <<>> THEN {} ELSE {Head(text)} \cap {"+", "-"}
        body == IF sign = {} THEN text ELSE Tail(text)
        values == IF IsHex(body) THEN Number(Tail(body), 16)
                                 ELSE NumberAndUnit(body, block)
    IN  {[backward |-> sign = {"-"}, value |-> n] : n \in values}

\* parse_byte_count: no backward one
ByteCount(text, block) ==
    {o.value : o \in {p \in ByteOffset(text, block) : ~p.backward}}

-----------------------------------------------------------------------------
\* What print_all starts from; the squeezer is Squeezer's.
Printer == [pc |-> "arguments", status |-> "running",
            skip |-> 0,      \* bytes of a pipe still to skip
            limit |-> 0,     \* bytes take() still lets through
            display |-> 0,   \* display_offset
            line |-> <<>>, squeezer |-> "disabled", byte |-> 0, idx |-> 0,
            total |-> 0,     \* bytes printed by the include mode
            out |-> <<>>]

Hexes(label) == job.tool = "hexyl" /\ st.pc = label
Printed(line) == Append(st.out, line)
Line(kind, position, bytes, chars) ==
    [kind |-> kind, position |-> position, bytes |-> bytes, chars |-> chars]
Mark(kind) == Line(kind, 0, <<>>, <<>>)

\* reorder_buffer_to_little_endian: the last group may be shorter
Ordered(line) ==
    IF ~job.little THEN line
    ELSE [i \in DOMAIN line |->
             LET first == ((i - 1) \div job.group) * job.group + 1
                 last == Min({first + job.group - 1, Len(line)})
             IN  line[first + last - i]]
Row(bytes) == Line("row", st.idx + st.display, Ordered(bytes), bytes)

Start(pc, seeked, left1, skip) ==
    /\ left' = left1
    /\ UNCHANGED job
    /\ st' = [st EXCEPT !.pc = pc, !.skip = skip, !.display = seeked,
                        !.squeezer = IF job.squeeze THEN "ignore" ELSE "disabled"]

Exit(status) == /\ st' = [st EXCEPT !.pc = "done", !.status = status]
                /\ Stay

Block == IF IsHex(job.block) THEN Number(Tail(job.block), 16)
         ELSE IF "block" \in ToSet(job.block) THEN {}
         ELSE NumberAndUnit(job.block, {})
Offsets == UNION {ByteOffset(text, Block) : text \in job.skip}
Counts(texts) == UNION {ByteCount(text, Block) : text \in texts}

ValidArguments == /\ \E n \in Block : n > 0
                  /\ Cardinality(Offsets) = Cardinality(job.skip)
                  /\ Cardinality(Counts(job.length)) = Cardinality(job.length)
                  /\ Counts({job.display}) # {}

InvalidArguments ==
    /\ Hexes("arguments")
    /\ ~ValidArguments /\ ~(IsHex(job.block) /\ \E n \in Block : n > 0)
    /\ Exit("error")

\* A block size in hexadecimal ends run as soon as it is known to be positive.
HexBlockSize ==
    /\ Hexes("arguments")
    /\ IsHex(job.block) /\ \E n \in Block : n > 0
    /\ Exit("ok")

NoSkip ==
    /\ Hexes("arguments") /\ ValidArguments /\ ~IsHex(job.block)
    /\ job.skip = {}
    /\ Start("take", 0, left, 0)

SeekFile ==
    LET o == CHOOSE p \in Offsets : TRUE
        to == IF o.backward THEN Len(left) - o.value ELSE o.value
    IN  /\ Hexes("arguments") /\ ValidArguments /\ ~IsHex(job.block)
        /\ job.skip # {} /\ job.seekable
        /\ IF to < 0 THEN Exit("error")
           ELSE Start("take", to, SubSeq(left, to + 1, Len(left)), 0)

\* try_skip: copies what is skipped away, and cannot go to the end
StartSkip ==
    LET o == CHOOSE p \in Offsets : TRUE
    IN  /\ Hexes("arguments") /\ ValidArguments /\ ~IsHex(job.block)
        /\ job.skip # {} /\ ~job.seekable
        /\ IF o.backward THEN Exit("error")
           ELSE Start("skip", 0, left, o.value)

SkipPiece(k) ==
    /\ Hexes("skip")
    /\ k <= st.skip
    /\ Consume(k)
    /\ st' = [st EXCEPT !.skip = @ - k, !.display = @ + k]

Skipped ==
    /\ Hexes("skip")
    /\ st.skip = 0 \/ left = <<>>
    /\ st' = [st EXCEPT !.pc = "take"]
    /\ Stay

\* reader.take(length), display_offset, and the choice of the include mode
Take ==
    /\ Hexes("take")
    /\ st' = [st EXCEPT
                !.pc = IF job.include = "off" THEN "line" ELSE "include",
                !.limit = IF job.length = {} THEN Len(left)
                          ELSE CHOOSE n \in Counts(job.length) : TRUE,
                !.display = @ + CHOOSE n \in Counts({job.display}) : TRUE,
                !.out = IF job.include = "file" THEN Printed(Mark("array")) ELSE @]
    /\ Stay

Exhausted == left = <<>> \/ st.limit = 0

\* One read into what is left of line_buf; the header is printed as soon as
\* something was read.
ReadOnce(k) ==
    /\ Hexes("line")
    /\ k <= st.limit /\ Len(st.line) + k <= job.width
    /\ Consume(k)
    /\ st' = [st EXCEPT !.pc = "full",
                        !.line = @ \o Piece(k), !.limit = @ - k,
                        !.out = IF @ = <<>> THEN Printed(Mark("header")) ELSE @]
ReadLine(k) ==
    /\ Hexes("line")
    /\ k <= st.limit /\ Len(st.line) + k <= job.width
    /\ Consume(k)
    /\ st' = [st EXCEPT !.pc = IF Len(st.line) + k = job.width THEN "full"
                               ELSE "line",
                        !.line = @ \o Piece(k), !.limit = @ - k,
                        !.out = IF @ = <<>> THEN Printed(Mark("header")) ELSE @]

Repeats == st.squeezer \in {"print", "delete"} /\ ToSet(st.line) = {st.byte}

NextLine(squeezer, byte, out) ==
    /\ st' = [st EXCEPT !.pc = "line", !.line = <<>>, !.idx = @ + job.width,
                        !.squeezer = squeezer, !.byte = byte, !.out = out]
    /\ Stay

SqueezeLine ==
    /\ Hexes("full")
    /\ Repeats /\ st.squeezer = "delete"
    /\ NextLine("delete", st.byte, st.out)

StarLine ==
    /\ Hexes("full")
    /\ Repeats /\ st.squeezer = "print"
    /\ NextLine("delete", st.byte, Printed(Mark("star")))

\* From then on the lines that repeat this one are squeezed, if it is of one
\* byte.
PrintLine ==
    /\ Hexes("full")
    /\ ~Repeats
    /\ NextLine(IF st.squeezer = "disabled" THEN "disabled"
                ELSE IF Cardinality(ToSet(st.line)) = 1 THEN "print" ELSE "ignore",
                st.line[1], Printed(Row(st.line)))

\* The special ending: nothing at all, an incomplete line, or a position after
\* lines that were squeezed.
EndOfInput ==
    LET last == CASE st.out = <<>> -> <<Mark("header"), Mark("no content")>>
                  [] st.line # <<>> \/ st.squeezer = "delete" -> <<Row(st.line)>>
                  [] OTHER -> <<>>
    IN  /\ Hexes("line")
        /\ Exhausted
        /\ st' = [st EXCEPT !.pc = "done", !.status = "ok",
                            !.out = @ \o last \o <<Mark("footer")>>]
        /\ Stay

\* print_bytes_in_include_style; i is line_counter.
IncludeByte(i, b) ==
    LET kind == CASE i % IncludeRow # 0 -> "same row"
                  [] i % IncludeRow = 0 /\ i > 0 -> "new row"
                  [] i = 0 -> "row"
    IN  Line(kind, 0, <<b>>, <<>>)
Include(k) ==
    /\ Hexes("include")
    /\ k <= st.limit
    /\ Consume(k)
    /\ st' = [st EXCEPT
          !.limit = @ - k, !.total = @ + k,
          !.out = @ \o [i \in 1..k |-> IncludeByte(st.total + i - 1, Piece(k)[i])]]
IncludeEnds ==
    /\ Hexes("include")
    /\ Exhausted
    /\ st' = [st EXCEPT !.pc = "done", !.status = "ok",
                        !.out = IF job.include = "stdin" THEN @
                                ELSE Printed(Line("total", st.total, <<>>, <<>>))]
    /\ Stay

NextHexyl == \/ InvalidArguments \/ HexBlockSize \/ NoSkip \/ SeekFile
             \/ StartSkip \/ Skipped \/ Take
             \/ \E k \in 1..Len(left) : SkipPiece(k) \/ ReadLine(k) \/ Include(k)
             \/ SqueezeLine \/ StarLine \/ PrintLine \/ EndOfInput
             \/ IncludeEnds

-----------------------------------------------------------------------------
\* What the arguments of a job ask for: how hexyl should end, whether it prints,
\* and then which bytes of the input, and the position of the first.
Ends(status) ==
    [status |-> status, prints |-> FALSE, first |-> 0, count |-> 0, position |-> 0]
Asks(first) ==
    [status |-> "ok", prints |-> TRUE, first |-> first,
     count |-> IF job.length = {} THEN Len(job.input)
               ELSE CHOOSE n \in Counts(job.length) : TRUE,
     position |-> first + CHOOSE n \in Counts({job.display}) : TRUE]
Meaning ==
    LET o == CHOOSE p \in Offsets : TRUE
        size == Len(job.input)
    IN  IF IsHex(job.block) /\ \E n \in Block : n > 0 THEN Ends("ok")
        ELSE IF \/ ~ValidArguments
                \/ /\ job.skip # {} /\ o.backward
                   /\ ~job.seekable \/ o.value > size
        THEN Ends("error")
        ELSE Asks(IF job.skip = {} THEN 0
                  ELSE IF o.backward THEN size - o.value
                  ELSE IF job.seekable THEN o.value ELSE Min({o.value, size}))

\* Any arguments, and an input of any bytes.
InitHexyl ==
    /\ job.tool = "hexyl"
    /\ \E Bytes : job.input \in Seq(Bytes)
    /\ \E text : job.skip \in {{}, {text}}
    /\ \E text : job.length \in {{}, {text}}
    /\ job.width \in Nat \ {0} /\ job.group \in Nat \ {0}
    /\ job.little \in BOOLEAN /\ job.squeeze \in BOOLEAN /\ job.seekable \in BOOLEAN
    /\ job.include \in {"off", "file", "stdin"}
    /\ job.means = Meaning
    /\ left = job.input
    /\ st = Printer
SpecHexyl == InitHexyl /\ [][NextHexyl]_vars

\* What hexyl should print of the bytes first + 1 to first + count of its
\* input, whose first has the given position.
Listing(first, count, position) ==
    LET bytes == SubSeq(job.input, first + 1, Min({Len(job.input), first + count}))
        w == job.width
        full == Len(bytes) \div w
        chunk(i) == SubSeq(bytes, (i - 1) * w + 1, Min({i * w, Len(bytes)}))
        groups(line) == [g \in 1..((Len(line) + job.group - 1) \div job.group) |->
                           SubSeq(line, (g - 1) * job.group + 1,
                                  Min({g * job.group, Len(line)}))]
        row(i) == <<Line("row", position + (i - 1) * w,
                         IF job.little
                         THEN FlattenSeq([g \in DOMAIN groups(chunk(i)) |->
                                             Reverse(groups(chunk(i))[g])])
                         ELSE chunk(i),
                         chunk(i))>>
        again(i) == /\ job.squeeze /\ i \in 2..full
                    /\ chunk(i) = chunk(i - 1) /\ Cardinality(ToSet(chunk(i))) = 1
        lines == [i \in 1..full |-> IF ~again(i) THEN row(i)
                                    ELSE IF again(i - 1) THEN <<>>
                                    ELSE <<Mark("star")>>]
        last == CASE bytes = <<>> -> <<Mark("no content")>>
                  [] Len(bytes) > full * w \/ again(full) -> row(full + 1)
                  [] OTHER -> <<>>
    IN  <<Mark("header")>> \o FlattenSeq(lines) \o last \o <<Mark("footer")>>

\* The same as a C array: rows of IncludeRow bytes.
CArray(first, count) ==
    LET bytes == SubSeq(job.input, first + 1, Min({Len(job.input), first + count}))
        cells == [i \in DOMAIN bytes |->
                     Line(IF (i - 1) % IncludeRow # 0 THEN "same row"
                          ELSE IF i > 1 THEN "new row" ELSE "row",
                          0, <<bytes[i]>>, <<>>)]
    IN  IF job.include = "stdin" THEN cells
        ELSE <<Mark("array")>> \o cells \o <<Line("total", Len(bytes), <<>>, <<>>)>>

\* Wherever the reads stop, and whether the bytes before were skipped by
\* seeking or by reading, hexyl prints the bytes its arguments mean (job.means)
\* once, in order, at their positions, and squeezes just the lines that repeat
\* a line of one byte (lib.rs:676-890, main.rs:322-367, input.rs:18-55).  It is
\* not what the help says in two cases: other lines that repeat are not squeezed
\* (main.rs:94-96), and a negative --display-offset is an error (main.rs:47-50).
PrintsWhatIsAskedFor ==
    (job.tool = "hexyl" /\ st.pc = "done") =>
        LET m == job.means
        IN  /\ m = Meaning
            /\ st.status = m.status
            /\ st.out = IF ~m.prints THEN <<>>
                        ELSE IF job.include = "off"
                        THEN Listing(m.first, m.count, m.position)
                        ELSE CArray(m.first, m.count)
=============================================================================
