------------------------------- MODULE Frames -------------------------------
(* The frames of original-rust/src/frame.rs and translated-cpp/src/frame.cpp  *)
(* and how connection.rs writes them.  A byte is a string: "+", "-", ":",     *)
(* "$", "*", "CR", "LF", a digit, "bad" for one that is not UTF-8, or a word  *)
(* that counts as one byte.  v tells the two versions apart where they differ:*)
(* "rust" or "cpp".  A number never gets near 64 bits here.                   *)
EXTENDS Integers, SequencesExt

CRLF == <<"CR", "LF">>
DigitTexts == <<"0", "1", "2", "3", "4", "5", "6", "7", "8", "9">>
Digits == ToSet(DigitTexts)
DigitValue(c) == (CHOOSE i \in 1..10 : DigitTexts[i] = c) - 1
\* Any string is a byte; those that frames and commands are made of are named.
Octets == STRING \cup {"+", "-", ":", "$", "*", "CR", "LF"} \cup Digits
                 \cup {"get", "set", "publish", "ping", "subscribe", "unsubscribe",
                       "px", "PX", "OK", "PONG", "ERR"}
Utf8(text) == "bad" \notin ToSet(text)

\* Only the field its kind uses is not empty.
Frame(kind, n, text, parts) ==
    [kind |-> kind, n |-> n, text |-> text, parts |-> parts]
Simple(text) == Frame("simple", 0, text, <<>>)
Error(text) == Frame("error", 0, text, <<>>)
Integer(n) == Frame("integer", n, <<>>, <<>>)
Bulk(text) == Frame("bulk", 0, text, <<>>)
Null == Frame("null", 0, <<>>, <<>>)
Array(parts) == Frame("array", 0, <<>>, parts)

IsText(frame, text) == frame.kind \in {"simple", "bulk"} /\ frame.text = text

-----------------------------------------------------------------------------
\* What is read, the place after it, and whether there was enough to read.

Found(p, got) == [st |-> "ok", pos |-> p, got |-> got]
Stops(st) == [st |-> st, pos |-> 0, got |-> <<>>]
Incomplete == Stops("incomplete")
Invalid == Stops("invalid")

GetLine(buf, p) ==
    LET ends == {i \in p..(Len(buf) - 1) : SubSeq(buf, i, i + 1) = CRLF}
    IN  IF ends = {} THEN Incomplete
        ELSE Found(Min(ends) + 2, SubSeq(buf, p, Min(ends) - 1))

Skip(buf, p, n) == IF Len(buf) - p + 1 < n THEN Incomplete
                   ELSE Found(p + n, SubSeq(buf, p, p + n - 1))

\* The number of a line, if it is one: its leading digits; atoi also takes a
\* sign before them, and a sign alone.
Leading(text) == Max({i \in 0..Len(text) : ToSet(SubSeq(text, 1, i)) \subseteq Digits})
Value(digits) ==
    LET value[n \in 0..Len(digits)] ==
          IF n = 0 THEN 0 ELSE 10 * value[n - 1] + DigitValue(digits[n])
    IN  value[Len(digits)]
Unsigned(text, needed) ==
    {Value(SubSeq(text, 1, n)) : n \in {Leading(text)} \ (IF needed THEN {0} ELSE {})}
Decimal(v, line) ==
    CASE v = "rust" /\ line # <<>> /\ Head(line) = "+" -> Unsigned(Tail(line), FALSE)
      [] v = "rust" /\ line # <<>> /\ Head(line) = "-" ->
           Unsigned(Tail(line), FALSE) \cap {0}
      [] OTHER -> Unsigned(line, TRUE)

Numbered(pos, values) == IF values = {} THEN Invalid
                         ELSE Found(pos, CHOOSE n \in values : TRUE)
DecimalOf(v, line) == IF line.st = "ok" THEN Numbered(line.pos, Decimal(v, line.got))
                                        ELSE line
GetDecimal(v, buf, p) == DecimalOf(v, GetLine(buf, p))

\* What check skips of '-1\r\n', and one byte less of it.
NullCutShort == 3
NullLength == 4

\* What follows the length of a bulk, and what the '-' of a null begins.
BulkBytes(buf, len) ==
    IF len.st = "ok" THEN Skip(buf, len.pos, len.got + 2) ELSE len
IsNull(buf, p) == p < Len(buf) /\ buf[p + 1] = "-"

\* What check passes over at p: of an array, its length.
CheckAt(v, buf, p) ==
    CASE p > Len(buf) \/ (p = Len(buf) /\ buf[p] = "$") -> Incomplete
      [] p <= Len(buf) /\ buf[p] \in {"+", "-"} -> GetLine(buf, p + 1)
      [] p <= Len(buf) /\ buf[p] \in {":", "*"} -> GetDecimal(v, buf, p + 1)
      [] p < Len(buf) /\ buf[p] = "$" ->
           IF IsNull(buf, p) THEN Skip(buf, p + 1, NullLength)
           ELSE BulkBytes(buf, GetDecimal(v, buf, p + 1))
      [] OTHER -> Invalid

\* n frames from p on; those of an array are all to come before the rest.
Check(v, buf) ==
    LET check[p \in 1..(Len(buf) + 1)] ==
          LET after(n, r) == IF r.st # "ok" THEN r
                             ELSE check[r.pos][n + IF buf[p] = "*" THEN r.got ELSE 0]
          IN  [n \in Nat |-> IF n = 0 THEN Found(p, <<>>)
                             ELSE after(n - 1, CheckAt(v, buf, p))]
    IN  check[1][1]

\* What parse makes of what it read: a frame, and of the beginning of an array
\* one that holds how many are to come.
OfText(v, kind, line) ==
    CASE line.st # "ok" -> line
      [] line.st = "ok" /\ v = "rust" /\ ~Utf8(line.got) -> Invalid
      [] OTHER -> Found(line.pos, Frame(kind, 0, line.got, <<>>))
OfNumber(kind, r) ==
    IF r.st = "ok" THEN Found(r.pos, Frame(kind, r.got, <<>>, <<>>)) ELSE r
OfNull(line) ==
    CASE line.st # "ok" -> line
      [] line.st = "ok" /\ line.got # <<"-", "1">> -> Invalid
      [] OTHER -> Found(line.pos, Null)
OfBulk(r) ==
    IF r.st = "ok" THEN Found(r.pos, Bulk(SubSeq(r.got, 1, Len(r.got) - 2))) ELSE r

ParseAt(v, buf, p) ==
    CASE p > Len(buf) \/ (p = Len(buf) /\ buf[p] = "$") -> Incomplete
      [] p <= Len(buf) /\ buf[p] = "+" -> OfText(v, "simple", GetLine(buf, p + 1))
      [] p <= Len(buf) /\ buf[p] = "-" -> OfText(v, "error", GetLine(buf, p + 1))
      [] p <= Len(buf) /\ buf[p] \in {":", "*"} ->
           OfNumber(IF buf[p] = ":" THEN "integer" ELSE "array",
                    GetDecimal(v, buf, p + 1))
      [] p < Len(buf) /\ buf[p] = "$" ->
           IF IsNull(buf, p) THEN OfNull(GetLine(buf, p + 1))
           ELSE OfBulk(BulkBytes(buf, GetDecimal(v, buf, p + 1)))
      [] OTHER -> Invalid

\* After a check that succeeds; what follows a bulk's bytes is not looked at.
Parse(v, buf) ==
    LET parse[p \in 1..(Len(buf) + 1)] ==
          LET before(frame, rest) == [rest EXCEPT !.got = <<frame>> \o @]
              array(n, parts) == IF parts.st # "ok" THEN parts
                                 ELSE before(Array(parts.got), parse[parts.pos][n])
              after(n, r) == IF r.st # "ok" THEN r
                             ELSE IF r.got.kind = "array"
                             THEN array(n, parse[r.pos][r.got.n])
                             ELSE before(r.got, parse[r.pos][n])
          IN  [n \in Nat |-> IF n = 0 THEN Found(p, <<>>)
                             ELSE after(n - 1, ParseAt(v, buf, p))]
    IN  parse[1][1]

-----------------------------------------------------------------------------
\* write_frame

WriteDecimal(n) ==
    LET text[k \in 0..n] == IF k < 10 THEN <<DigitTexts[k + 1]>>
                            ELSE text[k \div 10] \o <<DigitTexts[(k % 10) + 1]>>
    IN  text[n] \o CRLF

WriteValue(frame) ==
    CASE frame.kind = "simple" -> <<"+">> \o frame.text \o CRLF
      [] frame.kind = "error" -> <<"-">> \o frame.text \o CRLF
      [] frame.kind = "integer" -> <<":">> \o WriteDecimal(frame.n)
      [] frame.kind = "null" -> <<"$", "-", "1">> \o CRLF
      [] frame.kind = "bulk" ->
           <<"$">> \o WriteDecimal(Len(frame.text)) \o frame.text \o CRLF

\* An array within an array is never written: unreachable!() in write_value.
WriteFrame(frame) ==
    IF frame.kind # "array" THEN WriteValue(frame)
    ELSE <<"*">> \o WriteDecimal(Len(frame.parts))
         \o FlattenSeq([i \in DOMAIN frame.parts |-> WriteValue(frame.parts[i])])
=============================================================================
