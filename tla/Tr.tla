--------------------------------- MODULE Tr ---------------------------------
(* tr: rust-rewrite/operation.rs, simd.rs and tr.rs from the items of the sets*)
(* on, next to the readers and squeeze_filter of original-c/tr.c.  Both are   *)
(* given the same pieces of the input and the same sets, those of             *)
(* solve_set_characters; how the C expands its sets is left out, and so is    *)
(* the text of the sets.  job holds the flags, the sets (set2 a set of at     *)
(* most one sequence of items) and the input.                                 *)
EXTENDS Reading

CONSTANTS MaxByte,   \* bytes are 0..MaxByte: u8::MAX
          Classes,   \* the kinds of items that are character classes
          Members,   \* the bytes of each, in order
          Cases      \* those that are [:lower:] or [:upper:]

ASSUME TrAssumption ==
    /\ MaxByte \in Nat
    /\ Classes \cap {"byte", "range", "repeat", "star"} = {}
    /\ Members \in [Classes -> Seq(0..MaxByte)]

\* An item is a byte, a range c-d, [c*d], [c*], or a class.
Item(kind, c, d) == [kind |-> kind, c |-> c, d |-> d]

\* The bytes of seq that are not in S, in order.
Removed(seq, S) ==
    FlattenSeq([i \in DOMAIN seq |-> IF seq[i] \in S THEN <<>> ELSE <<seq[i]>>])

AllBytes == [i \in 1..(MaxByte + 1) |-> i - 1]
Without(S) == Removed(AllBytes, S)
Repeated(c, n) == [i \in 1..Max({0, n}) |-> c]
Class(item) == item.kind \in Classes

\* Sequence::flatten, of a finite item
Flatten(item) == CASE item.kind = "byte" -> <<item.c>>
                   [] item.kind = "range" -> [i \in 1..(item.d - item.c + 1) |->
                                                item.c + i - 1]
                   [] item.kind = "repeat" -> Repeated(item.c, item.d)
                   [] Class(item) -> Members[item.kind]
FlattenAll(items) == FlattenSeq([i \in DOMAIN items |-> Flatten(items[i])])
\* The same of those that are finite.
FlattenFinite(items) ==
    FlattenSeq([i \in DOMAIN items |->
                   IF items[i].kind = "star" THEN <<>> ELSE Flatten(items[i])])
Before(items, i) == Len(FlattenAll(SubSeq(items, 1, i - 1)))

\* solve_set_characters: no pair of sets, or the one
Solve(set1, set2, complement, truncate, translating) ==
    LET star(item) == item.kind = "star"
        expanded == FlattenAll(set1)
        first == IF complement THEN Without(ToSet(expanded)) ELSE expanded
        compensate == Max({0, Len(first) - Len(FlattenFinite(set2))})
        items == [i \in DOMAIN set2 |->
                     IF ~star(set2[i]) THEN set2[i]
                     ELSE Item("repeat", set2[i].c,
                               \* [\0*] is dropped
                               IF set2[i].c = 0 THEN 0 ELSE compensate)]
        second == FlattenAll(items)
        last == SelectSeq(items, LAMBDA i : i # Item("repeat", 0, 0))
        classes == {i \in DOMAIN items : Class(items[i])}
        invalid ==
            \/ \E i \in DOMAIN set1 : star(set1[i])
            \/ Cardinality({i \in DOMAIN set2 : star(set2[i])}) > 1
            \/ translating /\ \E i \in classes : items[i].kind \notin Cases
            \/ \E i \in classes : \A j \in DOMAIN set1 :
                  Class(set1[j]) => Before(set1, j) # Before(items, i)
            \/ /\ translating /\ complement
               /\ \E j \in DOMAIN set1 : Class(set1[j])
               /\ Cardinality(ToSet(second)) > 1 \/ Len(second) > Len(first)
            \/ /\ Len(second) < Len(first) /\ ~truncate
               /\ last # <<>> /\ Last(last).kind \in Cases
    IN  IF invalid THEN {}
        ELSE {<<IF truncate THEN SubSeq(first, 1, Min({Len(first), Len(second)}))
                            ELSE first,
                second>>}

\* The sets of a job, or none if the command line is refused.
Translating == ~job.delete /\ job.set2 # {}
Usage == CASE job.delete -> job.squeeze <=> job.set2 # {}
           [] ~job.delete /\ ~job.squeeze -> job.set2 # {}
           [] OTHER -> TRUE
Set2 == IF job.set2 = {} THEN <<>> ELSE CHOOSE items \in job.set2 : TRUE
Sets == IF ~Usage THEN {}
        ELSE LET solved == Solve(job.set1, Set2, job.complement,
                                 job.truncate /\ Translating, Translating)
             IN  {s \in solved : Translating => s[2] # <<>> \/ s[1] = <<>>}

\* TranslateOperation::new: the last place of a byte in set1 counts.
TranslationTable(set1, set2) ==
    LET table[i \in 0..Len(set1)] ==  \* after the first i bytes
            IF i = 0 THEN [b \in 0..MaxByte |-> b]
            ELSE [table[i - 1] EXCEPT ![set1[i]] = set2[Min({i, Len(set2)})]]
    IN  table[Len(set1)]

\* What the operations are built with: the table and the bitmaps.
Operations ==
    LET solved == CHOOSE s \in Sets : TRUE
        set1 == solved[1]
        set2 == solved[2]
    IN  [table |-> IF Translating
                   THEN TranslationTable(set1, set2)
                   ELSE [b \in 0..MaxByte |-> b],
         deleted |-> IF job.delete THEN ToSet(set1) ELSE {},
         squeezed |-> IF ~job.squeeze THEN {}
                      ELSE IF job.set2 = {} THEN ToSet(set1) ELSE ToSet(set2)]
Table == st.operations.table
Deleted == st.operations.deleted
SqueezeSet == st.operations.squeezed

-----------------------------------------------------------------------------
\* Rust

\* Without -s a piece is processed at once, and a delete or a translation that
\* changes a single byte counts it first.
ProcessDelete(piece, b) ==
    LET count == Cardinality({i \in DOMAIN piece : piece[i] = b})
    IN  IF count = 0 THEN piece
        ELSE IF count = Len(piece) THEN <<>> ELSE Removed(piece, {b})
ProcessReplace(piece, from, to) ==
    LET count == Cardinality({i \in DOMAIN piece : piece[i] = from})
    IN  IF count = 0 THEN piece
        ELSE IF count = Len(piece) THEN Repeated(to, Len(piece))
        ELSE [i \in DOMAIN piece |-> IF piece[i] = from THEN to ELSE piece[i]]
\* find_single_change
Single(S) == IF Cardinality(S) = 1 THEN S ELSE {}

ProcessChunk(piece) ==
    LET changed == {b \in 0..MaxByte : Table[b] # b}
    IN  IF job.delete
        THEN IF Single(Deleted) # {}
             THEN ProcessDelete(piece, CHOOSE b \in Deleted : TRUE)
             ELSE Removed(piece, Deleted)
        ELSE IF Single(changed) # {}
             THEN LET b == CHOOSE c \in changed : TRUE
                  IN  ProcessReplace(piece, b, Table[b])
             ELSE [i \in DOMAIN piece |-> Table[piece[i]]]

\* With -s each byte goes through the stages of translate_input, the last of
\* which remembers the byte before it; r is what is written and that byte.
Translate(r, b) ==
    LET c == IF Translating THEN Table[b] ELSE b
    IN  IF b \in Deleted THEN r
        ELSE [out |-> IF c \in SqueezeSet /\ r.previous = c THEN r.out
                      ELSE Append(r.out, c),
              previous |-> c]
TranslateAll(r, piece) ==
    LET translated[i \in 0..Len(piece)] ==
            IF i = 0 THEN r ELSE Translate(translated[i - 1], piece[i])
    IN  translated[Len(piece)]

-----------------------------------------------------------------------------
\* C

\* What read_and_delete, read_and_xlate or plain_read makes of a piece; the
\* first reads on when nothing is left of it.
Reader(piece) ==
    IF job.delete THEN Removed(piece, Deleted)
    ELSE IF Translating THEN [i \in DOMAIN piece |-> Table[piece[i]]] ELSE piece

\* squeeze_filter over a buffer: c is char_to_squeeze or NotAChar, written what
\* is written.  In search of a byte of S it steps by two and looks back.
NotAChar == MaxByte + 1

\* Where a search that steps to i goes on from; without the look-back, from i.
StepsOver(buf, S, i) == i
LookBack(buf, S, i) == IF i = Len(buf) + 1 /\ buf[i - 1] \in S THEN i - 1 ELSE i

SearchFrom(buf, S, begin) ==
    LET found == {i \in DOMAIN buf : i >= begin /\ (i - begin) % 2 = 0 /\ buf[i] \in S}
        over == begin + 2 * ((Len(buf) - begin + 2) \div 2)
    IN  LookBack(buf, S, IF found = {} THEN over ELSE Min(found))
SkipRepeats(buf, i, c) == Min({Len(buf) + 1} \cup {j \in DOMAIN buf : j >= i /\ buf[j] # c})

SqueezeFilter(buf, S, c, written) ==
    LET end == Len(buf) + 1
        filter[begin \in DOMAIN buf] ==  \* when no byte is being squeezed
            LET i == SearchFrom(buf, S, begin)
                next == SkipRepeats(buf, i + 1, buf[i])
                last == IF i > 1 /\ buf[i - 1] = buf[i] THEN i - 1 ELSE i
                now == SubSeq(buf, begin, last)
            IN  IF i >= end THEN [c |-> NotAChar, out |-> SubSeq(buf, begin, Len(buf))]
                ELSE IF next = end THEN [c |-> buf[i], out |-> now]
                ELSE [c |-> filter[next].c, out |-> now \o filter[next].out]
        begin == IF c = NotAChar THEN 1 ELSE SkipRepeats(buf, 1, c)
        r == IF begin = end THEN [c |-> c, out |-> <<>>] ELSE filter[begin]
    IN  [c |-> r.c, out |-> written \o r.out]

-----------------------------------------------------------------------------
Trs(label) == job.tool = "tr" /\ st.pc = label

\* previous is None, and char_to_squeeze NOT_A_CHAR
Filters == [pc |-> "start", rust |-> [out |-> <<>>, previous |-> NotAChar],
            c |-> [c |-> NotAChar, out |-> <<>>], operations |-> {}]

Refuse == /\ Trs("start")
          /\ Sets = {}
          /\ st' = [st EXCEPT !.pc = "done"]
          /\ Stay
Accept == /\ Trs("start")
          /\ Sets # {}
          /\ st' = [st EXCEPT !.pc = "chunk", !.operations = Operations]
          /\ Stay

Chunk(k) ==
    LET piece == Piece(k)
        rust == IF job.squeeze THEN TranslateAll(st.rust, piece)
                ELSE [st.rust EXCEPT !.out = @ \o ProcessChunk(piece)]
        clang == IF job.squeeze
                 THEN SqueezeFilter(Reader(piece), SqueezeSet, st.c.c, st.c.out)
                 ELSE [st.c EXCEPT !.out = @ \o Reader(piece)]
    IN  /\ Trs("chunk")
        /\ Consume(k)
        /\ st' = [st EXCEPT !.rust = rust, !.c = clang]

EndOfFile == /\ Trs("chunk")
             /\ left = <<>>
             /\ st' = [st EXCEPT !.pc = "done"]
             /\ Stay

\* Any flags, sets of items as the grammar makes them, and an input of bytes.
Items == {Item("byte", b, 0) : b \in 0..MaxByte}
         \cup {Item("range", b, d) : b \in 0..MaxByte, d \in 0..MaxByte}
         \cup {Item("repeat", b, n) : b \in 0..MaxByte, n \in Nat}
         \cup {Item("star", b, 0) : b \in 0..MaxByte}
         \cup {Item(class, 0, 0) : class \in Classes}
InitTr == /\ job.tool = "tr"
          /\ job.delete \in BOOLEAN /\ job.squeeze \in BOOLEAN
          /\ job.complement \in BOOLEAN /\ job.truncate \in BOOLEAN
          /\ job.set1 \in Seq(Items)
          /\ \E items \in Seq(Items) : job.set2 \in {{}, {items}}
          /\ job.input \in Seq(0..MaxByte)
          /\ left = job.input
          /\ st = Filters

NextTr == Refuse \/ Accept \/ (\E k \in 1..Len(left) : Chunk(k)) \/ EndOfFile
SpecTr == InitTr /\ [][NextTr]_vars

-----------------------------------------------------------------------------
\* What set2 stands for, for n places of set1: its star fills them, or else
\* its last byte does.
Extended(items, n) ==
    LET stars == {j \in DOMAIN items : items[j].kind = "star" /\ items[j].c # 0}
        j == IF stars = {} THEN Len(items) ELSE Min(stars)
        c == IF stars = {} THEN Last(FlattenFinite(items)) ELSE items[j].c
    IN  FlattenFinite(SubSeq(items, 1, j)) \o Repeated(c, n - Len(FlattenFinite(items)))
        \o FlattenFinite(SubSeq(items, j + 1, Len(items)))

\* What tr should write for a piece of input: set1 or its complement, cut to
\* set2 if -t, is deleted or mapped place by place, then repeats are dropped.
Expected(bytes) ==
    LET listed == FlattenAll(job.set1)
        first == IF job.complement THEN Without(ToSet(listed)) ELSE listed
        given == FlattenFinite(Set2)
        stars == {item \in ToSet(Set2) : item.kind = "star" /\ item.c # 0}
        n == IF job.truncate /\ stars = {} THEN Min({Len(first), Len(given)})
                                           ELSE Len(first)
        image(b) == IF ~Translating \/ b \notin ToSet(SubSeq(first, 1, n)) THEN b
                    ELSE Extended(Set2, n)[Max({i \in 1..n : first[i] = b})]
        deleted == IF job.delete THEN ToSet(first) ELSE {}
        squeezed == IF ~job.squeeze THEN {}
                    ELSE IF job.set2 = {} THEN ToSet(first)
                    ELSE ToSet(given) \cup
                         {s.c : s \in {t \in stars : Len(first) > Len(given)}}
        kept == Removed(bytes, deleted)
        mapped == [i \in DOMAIN kept |-> image(kept[i])]
        repeat(i) == i > 1 /\ mapped[i] \in squeezed /\ mapped[i] = mapped[i - 1]
    IN  FlattenSeq([i \in DOMAIN mapped |->
                       IF repeat(i) THEN <<>> ELSE <<mapped[i]>>])

\* Wherever the reads stop, both filters have written what the sets mean for
\* what was read: a run of repeats that two buffers share is squeezed to one
\* byte, also when the C steps over its beginning, and the shortcuts for a
\* single byte change nothing (operation.rs:203-319, 599-750; simd.rs:30-60;
\* tr.c:1513-1660).
FiltersIndependentOfReads ==
    (job.tool = "tr" /\ st.pc = "chunk") =>
        LET read == SubSeq(job.input, 1, Len(job.input) - Len(left))
        IN  st.rust.out = Expected(read) /\ st.c.out = Expected(read)
=============================================================================
