--------------------------- MODULE ReadingProofs ---------------------------
(* What programs make of the bytes they read, for any bytes and however the   *)
(* reads cut them.  read_frame: its frames, and that calls and their answers  *)
(* are read as what was written, by either version from either.  Then what a  *)
(* BufferedClient makes of a connection: it implements what StoreCalls        *)
(* promises, for any number of callers and calls, any requests and any        *)
(* capacity of its channel.  Then that hexyl prints what it is asked for.     *)
EXTENDS BufferedClient, Connection, Hexyl, SequenceTheorems, FiniteSetTheorems,
        WellFoundedInduction, TLAPS

-----------------------------------------------------------------------------
\* A set of numbers has a least one.
LEMMA Least ==
    ASSUME NEW S, S \subseteq Nat, S # {}
    PROVE  \E i \in S : \A j \in S : i <= j
<1> DEFINE R == {p \in Nat \X Nat : p[1] < p[2]}
<1>1. IsWellFoundedOn(R, Nat)
  BY NatLessThanWellFounded DEF OpToRel
<1>2. PICK i \in S : \A j \in S : <<j, i>> \notin R
  <2> HIDE DEF R
  <2> QED BY <1>1, WFMin
<1>3. \A j \in S : ~(j < i)
  BY <1>2
<1> QED BY <1>3

\* A set of numbers up to N has a greatest one.
LEMMA Greatest ==
    ASSUME NEW N \in Nat, NEW S, S \subseteq 0..N, S # {}
    PROVE  \E i \in S : \A j \in S : j <= i
<1> DEFINE T == {N - i : i \in S}
<1>1. T \subseteq Nat /\ T # {}
  <2>1. \A i \in S : N - i \in Nat
    OBVIOUS
  <2>2. PICK i \in S : TRUE
    OBVIOUS
  <2>3. N - i \in T
    OBVIOUS
  <2> QED BY <2>1, <2>3
<1> HIDE DEF T
<1>2. PICK k \in T : \A m \in T : k <= m
  BY <1>1, Least
<1> USE DEF T
<1>3. PICK i \in S : k = N - i
  OBVIOUS
<1>4. \A j \in S : N - i <= N - j
  BY <1>2, <1>3
<1> QED BY <1>3, <1>4

\* Min and Max of the community modules are the least and the greatest.
LEMMA MinIs ==
    ASSUME NEW S, S \subseteq Nat, S # {}
    PROVE  Min(S) \in S /\ \A j \in S : Min(S) <= j
BY Least DEF Min

LEMMA MaxIs ==
    ASSUME NEW N \in Nat, NEW S, S \subseteq 0..N, S # {}
    PROVE  Max(S) \in S /\ \A j \in S : j <= Max(S)
<1>1. \E i \in S : \A j \in S : i >= j
  <2>1. PICK i \in S : \A j \in S : j <= i
    BY Greatest
  <2>2. \A j \in S : i >= j
    BY <2>1
  <2> QED BY <2>2
<1> DEFINE m == CHOOSE x \in S : \A y \in S : x >= y
<1>2. m \in S /\ \A y \in S : m >= y
  <2> HIDE DEF m
  <2> QED BY <1>1 DEF m
<1>3. Max(S) = m
  BY DEF Max
<1> QED BY <1>2, <1>3

-----------------------------------------------------------------------------
\* Numbers.
LEMMA DigitIs == ASSUME NEW c \in Digits PROVE DigitValue(c) \in 0..9
<1>1. Digits = {DigitTexts[i] : i \in 1..10}
  BY DEF Digits, DigitTexts, ToSet
<1>2. \E i \in 1..10 : DigitTexts[i] = c
  BY <1>1
<1> DEFINE i == CHOOSE i \in 1..10 : DigitTexts[i] = c
<1>3. i \in 1..10
  BY <1>2
<1> HIDE DEF i
<1> QED BY <1>3 DEF i, DigitValue

\* f is what the function in Value gives up to k.
ValuesUpTo(digits, k, f) ==
    f = [n \in 0..k |-> IF n = 0 THEN 0 ELSE 10 * f[n - 1] + DigitValue(digits[n])]

\* The function in Value exists, and digits are a natural number.
LEMMA ValuesAre ==
    ASSUME NEW digits \in Seq(Digits)
    PROVE  \E f : /\ ValuesUpTo(digits, Len(digits), f)
                  /\ Value(digits) = f[Len(digits)]
                  /\ \A n \in 0..Len(digits) : f[n] \in Nat
<1> DEFINE Good(k) == \E f : ValuesUpTo(digits, k, f) /\ \A n \in 0..k : f[n] \in Nat
           Wrong == {k \in 0..Len(digits) : ~Good(k)}
<1>1. ASSUME Wrong # {} PROVE FALSE
  <2>1. PICK k \in Wrong : \A j \in Wrong : k <= j
    <3>1. Wrong \subseteq Nat
      OBVIOUS
    <3> HIDE DEF Wrong
    <3> QED BY <1>1, <3>1, Least
  <2>2. k \in 0..Len(digits) /\ ~Good(k)
    OBVIOUS
  <2>3. CASE k = 0
    <3>1. ValuesUpTo(digits, 0, [n \in 0..0 |-> 0])
      BY DEF ValuesUpTo
    <3>2. \A n \in 0..0 : [m \in 0..0 |-> 0][n] \in Nat
      OBVIOUS
    <3> QED BY <2>2, <2>3, <3>1, <3>2
  <2>4. CASE k # 0
    <3>1. k - 1 \in 0..Len(digits) /\ k - 1 \notin Wrong
      BY <2>1, <2>2, <2>4
    <3>2. Good(k - 1)
      BY <3>1
    <3> HIDE DEF Wrong
    <3>3. PICK f : ValuesUpTo(digits, k - 1, f) /\ \A n \in 0..k - 1 : f[n] \in Nat
      BY <3>2
    <3> DEFINE h == [n \in 0..k |-> IF n = 0 THEN 0
                                    ELSE 10 * f[n - 1] + DigitValue(digits[n])]
    <3>4. \A n \in 0..k - 1 : h[n] = f[n]
      <4>1. \A n \in 0..k - 1 : f[n] = IF n = 0 THEN 0
                                    ELSE 10 * f[n - 1] + DigitValue(digits[n])
        BY <3>3 DEF ValuesUpTo
      <4>2. \A n \in 0..k - 1 : n \in 0..k
        BY <2>2
      <4> QED BY <4>1, <4>2
    <3>5. ValuesUpTo(digits, k, h)
      <4>1. \A n \in 0..k : n # 0 => h[n - 1] = f[n - 1]
        <5> SUFFICES ASSUME NEW n \in 0..k, n # 0 PROVE h[n - 1] = f[n - 1]
          OBVIOUS
        <5>1. n - 1 \in 0..k - 1
          BY <2>2
        <5> HIDE DEF h
        <5> QED BY <3>4, <5>1
      <4>2. h = [n \in 0..k |-> IF n = 0 THEN 0
                                ELSE 10 * h[n - 1] + DigitValue(digits[n])]
        BY <4>1
      <4> HIDE DEF h
      <4> QED BY <4>2 DEF ValuesUpTo
    <3>6. \A n \in 0..k : h[n] \in Nat
      <4> SUFFICES ASSUME NEW n \in 0..k PROVE h[n] \in Nat
        OBVIOUS
      <4>1. n # 0 => n - 1 \in 0..k - 1 /\ n \in 1..Len(digits)
        BY <2>2
      <4>2. n # 0 => f[n - 1] \in Nat /\ DigitValue(digits[n]) \in 0..9
        BY <3>3, <4>1, DigitIs
      <4>3. h[n] = IF n = 0 THEN 0 ELSE 10 * f[n - 1] + DigitValue(digits[n])
        OBVIOUS
      <4> HIDE DEF h
      <4> QED BY <4>2, <4>3
    <3> HIDE DEF h
    <3> QED BY <2>2, <3>5, <3>6
  <2> QED BY <2>3, <2>4
<1> DEFINE N == Len(digits)
<1>2. Good(N)
  <2>1. N \in 0..Len(digits)
    OBVIOUS
  <2>2. N \notin Wrong
    BY <1>1
  <2> HIDE DEF N, Good
  <2> QED BY <2>1, <2>2
<1> DEFINE g == CHOOSE f : ValuesUpTo(digits, N, f)
<1>3. PICK f : ValuesUpTo(digits, N, f) /\ \A n \in 0..N : f[n] \in Nat
  BY <1>2
<1>4. ValuesUpTo(digits, N, g)
  BY <1>3
<1>5. Value(digits) = g[N]
  BY DEF Value, ValuesUpTo
<1>6. \A n \in 0..N : g[n] = f[n]
  <2> DEFINE Bad == {n \in 0..N : g[n] # f[n]}
  <2> SUFFICES ASSUME Bad # {} PROVE FALSE
    OBVIOUS
  <2>1. PICK n \in Bad : \A j \in Bad : n <= j
    <3>1. Bad \subseteq Nat
      OBVIOUS
    <3> HIDE DEF Bad
    <3> QED BY <3>1, Least
  <2>2. n \in 0..N /\ g[n] # f[n]
    OBVIOUS
  <2>3. n # 0 => n - 1 \in 0..N /\ g[n - 1] = f[n - 1]
    BY <2>1, <2>2
  <2>4. /\ g[n] = IF n = 0 THEN 0 ELSE 10 * g[n - 1] + DigitValue(digits[n])
        /\ f[n] = IF n = 0 THEN 0 ELSE 10 * f[n - 1] + DigitValue(digits[n])
    <3> HIDE DEF g, Bad
    <3> QED BY <1>3, <1>4, <2>2 DEF ValuesUpTo
  <2> HIDE DEF g, Bad
  <2> QED BY <2>2, <2>3, <2>4
<1> HIDE DEF g
<1> QED BY <1>3, <1>4, <1>5, <1>6

LEMMA ValueIs ==
    ASSUME NEW digits \in Seq(Digits)
    PROVE  Value(digits) \in Nat
<1>1. Len(digits) \in 0..Len(digits)
  OBVIOUS
<1> QED BY <1>1, ValuesAre

-----------------------------------------------------------------------------
\* What is read at one place, and what is read there of a longer buffer.
Extends(b, e) == Len(b) <= Len(e) /\ \A i \in 1..Len(b) : e[i] = b[i]

\* The longer buffer gives the same, or else the shorter one was read too
\* early, and what it lacks is needed.
SameOrNeedsMore(rb, re, b) ==
    \/ re = rb
    \/ rb.st = "incomplete" /\ (re.st = "ok" => re.pos > Len(b) + 1)

\* A result of a reader that starts at p and takes two bytes or more.
IsResult(r) == /\ r = [st |-> r.st, pos |-> r.pos, got |-> r.got]
              /\ r.st \in {"ok", "incomplete", "invalid"}
\* A result of a reader that ends at p or later, within the buffer.
EndsIn(r, p, b) == IsResult(r) /\ (r.st = "ok" => r.pos \in p..Len(b) + 1)

\* What a part of a buffer is.
LEMMA SubSeqIs ==
    ASSUME NEW S, NEW b \in Seq(S), NEW m \in Nat \ {0}, NEW n \in Nat, n <= Len(b)
    PROVE  /\ SubSeq(b, m, n) \in Seq(S)
           /\ Len(SubSeq(b, m, n)) = IF m <= n THEN n - m + 1 ELSE 0
           /\ \A i \in 1..n - m + 1 : SubSeq(b, m, n)[i] = b[m + i - 1]
<1>1. \A i \in m..n : b[i] \in S
  <2>1. \A i \in m..n : i \in 1..Len(b)
    OBVIOUS
  <2> QED BY <2>1
<1> QED BY <1>1, SubSeqProperties

\* A part of a buffer is that part of a longer one.
LEMMA SubSeqSame ==
    ASSUME NEW S, NEW b \in Seq(S), NEW e \in Seq(S), Extends(b, e),
           NEW m \in Nat \ {0}, NEW n \in Nat, n <= Len(b)
    PROVE  SubSeq(e, m, n) = SubSeq(b, m, n)
<1>0. Len(b) \in Nat /\ Len(e) \in Nat /\ n <= Len(e)
  BY DEF Extends
<1> DEFINE sb == SubSeq(b, m, n)
           se == SubSeq(e, m, n)
<1>1. sb \in Seq(S) /\ se \in Seq(S) /\ Len(sb) = Len(se)
      /\ Len(sb) = (IF m <= n THEN n - m + 1 ELSE 0)
  BY <1>0, SubSeqIs
<1>2. ASSUME NEW i \in 1..n - m + 1 PROVE sb[i] = se[i]
  <2>1. sb[i] = b[m + i - 1] /\ se[i] = e[m + i - 1]
    BY <1>0, SubSeqIs
  <2>2. m + i - 1 \in 1..Len(b)
    OBVIOUS
  <2> QED BY <2>1, <2>2 DEF Extends
<1>3. \A i \in 1..Len(sb) : sb[i] = se[i]
  <2>1. \A i \in 1..Len(sb) : i \in 1..n - m + 1
    BY <1>1
  <2> QED BY <1>2, <2>1
<1> HIDE DEF sb, se
<1>4. sb = se
  BY <1>1, <1>3, SeqEqual
<1> QED BY <1>4 DEF sb, se

\* Where the lines end.
LineEnds(b, p) == {i \in p..(Len(b) - 1) : b[i] = "CR" /\ b[i + 1] = "LF"}

\* get_line takes the first of these ends, if there is one.
LEMMA GetLineIs ==
    ASSUME NEW b \in Seq(Octets), NEW p \in Nat \ {0}
    PROVE  /\ LineEnds(b, p) = {} => GetLine(b, p) = Incomplete
           /\ LineEnds(b, p) # {} =>
                \E i \in LineEnds(b, p) :
                    /\ \A j \in LineEnds(b, p) : i <= j
                    /\ GetLine(b, p) = Found(i + 2, SubSeq(b, p, i - 1))
<1> DEFINE ends == {i \in p..(Len(b) - 1) : SubSeq(b, i, i + 1) = CRLF}
<1>1. ASSUME NEW i \in p..(Len(b) - 1)
      PROVE  SubSeq(b, i, i + 1) = CRLF <=> b[i] = "CR" /\ b[i + 1] = "LF"
  <2> DEFINE s == SubSeq(b, i, i + 1)
  <2>1. i \in Nat \ {0} /\ i + 1 \in Nat /\ i + 1 <= Len(b)
    OBVIOUS
  <2>2. s \in Seq(Octets) /\ Len(s) = 2 /\ s[1] = b[i] /\ s[2] = b[i + 1]
    <3>1. s \in Seq(Octets) /\ Len(s) = (i + 1) - i + 1
          /\ \A j \in 1..(i + 1) - i + 1 : s[j] = b[i + j - 1]
      BY <2>1, SubSeqIs
    <3> HIDE DEF s
    <3> QED BY <2>1, <3>1
  <2> HIDE DEF s
  <2> DEFINE B == Octets \cup {"CR", "LF"}
  <2>3. s \in Seq(B) /\ CRLF \in Seq(B) /\ Len(CRLF) = 2
        /\ CRLF[1] = "CR" /\ CRLF[2] = "LF"
    <3>1. CRLF = <<"CR", "LF">>
      BY DEF CRLF
    <3>2. Octets \subseteq B
      OBVIOUS
    <3>3. s \in Seq(B)
      <4> HIDE DEF B
      <4> QED BY <2>2, <3>2, SeqMonotonic
    <3> QED BY <3>1, <3>3
  <2>4. s[1] = CRLF[1] /\ s[2] = CRLF[2] => s = CRLF
    <3> SUFFICES ASSUME s[1] = CRLF[1], s[2] = CRLF[2] PROVE s = CRLF
      OBVIOUS
    <3>1. \A j \in 1..Len(s) : s[j] = CRLF[j]
      <4>1. \A j \in 1..2 : j = 1 \/ j = 2
        OBVIOUS
      <4> QED BY <2>2, <4>1
    <3> HIDE DEF B
    <3> QED BY <2>2, <2>3, <3>1, SeqEqual
  <2> QED BY <2>2, <2>3, <2>4 DEF s
<1>2. ends = LineEnds(b, p)
  BY <1>1 DEF LineEnds
<1>3. GetLine(b, p) = IF ends = {} THEN Incomplete
                      ELSE Found(Min(ends) + 2, SubSeq(b, p, Min(ends) - 1))
  BY DEF GetLine
<1> HIDE DEF ends
<1>4. CASE LineEnds(b, p) # {}
  <2>1. LineEnds(b, p) \subseteq Nat
    BY DEF LineEnds
  <2>2. Min(ends) \in LineEnds(b, p) /\ \A j \in LineEnds(b, p) : Min(ends) <= j
    BY <1>2, <1>4, <2>1, MinIs
  <2> QED BY <1>2, <1>3, <1>4, <2>2
<1> QED BY <1>2, <1>3, <1>4

\* A line takes two bytes or more.
LEMMA GetLineMoves ==
    ASSUME NEW b \in Seq(Octets), NEW p \in Nat \ {0}
    PROVE  /\ EndsIn(GetLine(b, p), p + 2, b)
           /\ GetLine(b, p).st # "invalid"
           /\ GetLine(b, p).st = "ok" => GetLine(b, p).got \in Seq(Octets)
<1>1. CASE LineEnds(b, p) = {}
  BY <1>1, GetLineIs DEF EndsIn, IsResult, Incomplete, Stops
<1>2. CASE LineEnds(b, p) # {}
  <2>1. PICK i \in LineEnds(b, p) : GetLine(b, p) = Found(i + 2, SubSeq(b, p, i - 1))
    BY <1>2, GetLineIs
  <2>2. i \in p..Len(b) - 1 /\ i + 2 \in (p + 2)..Len(b) + 1 /\ i - 1 \in Nat
        /\ i - 1 <= Len(b)
    BY DEF LineEnds
  <2>3. SubSeq(b, p, i - 1) \in Seq(Octets)
    BY <2>2, SubSeqIs
  <2> QED BY <2>1, <2>2, <2>3 DEF EndsIn, IsResult, Found
<1> QED BY <1>1, <1>2

\* A line of a buffer is the line of a longer one.
LEMMA GetLineLocal ==
    ASSUME NEW b \in Seq(Octets), NEW e \in Seq(Octets), Extends(b, e), NEW p \in Nat \ {0}
    PROVE  SameOrNeedsMore(GetLine(b, p), GetLine(e, p), b)
<1>0. Len(b) \in Nat /\ Len(e) \in Nat /\ Len(b) <= Len(e)
  BY DEF Extends
<1>1. LineEnds(b, p) = LineEnds(e, p) \cap 1..(Len(b) - 1)
  <2>1. \A i \in p..(Len(b) - 1) : /\ i \in p..(Len(e) - 1) /\ e[i] = b[i]
                                   /\ e[i + 1] = b[i + 1]
    BY <1>0 DEF Extends
  <2>2. \A i \in p..(Len(b) - 1) : i \in 1..(Len(b) - 1)
    OBVIOUS
  <2>3. \A i \in p..(Len(e) - 1) : i \in 1..(Len(b) - 1) => i \in p..(Len(b) - 1)
    OBVIOUS
  <2> QED BY <2>1, <2>2, <2>3 DEF LineEnds
<1>2. CASE LineEnds(b, p) # {}
  <2>1. PICK i \in LineEnds(b, p) :
            /\ \A j \in LineEnds(b, p) : i <= j
            /\ GetLine(b, p) = Found(i + 2, SubSeq(b, p, i - 1))
    BY <1>2, GetLineIs
  <2>2. PICK k \in LineEnds(e, p) :
            /\ \A j \in LineEnds(e, p) : k <= j
            /\ GetLine(e, p) = Found(k + 2, SubSeq(e, p, k - 1))
    BY <1>1, <1>2, GetLineIs
  <2>3. i \in p..(Len(b) - 1) /\ k \in p..(Len(e) - 1) /\ i \in LineEnds(e, p)
    BY <1>1 DEF LineEnds
  <2>4. k <= i
    BY <2>2, <2>3
  <2>5. k \in LineEnds(b, p)
    BY <1>1, <2>3, <2>4
  <2>6. k = i
    BY <2>1, <2>3, <2>4, <2>5
  <2>7. SubSeq(e, p, i - 1) = SubSeq(b, p, i - 1)
    <3>1. i - 1 \in Nat /\ i - 1 <= Len(b)
      BY <2>3
    <3> QED BY <3>1, SubSeqSame
  <2>8. GetLine(e, p) = GetLine(b, p)
    BY <2>1, <2>2, <2>6, <2>7
  <2> QED BY <2>8 DEF SameOrNeedsMore
<1>3. CASE LineEnds(b, p) = {}
  <2>1. GetLine(b, p).st = "incomplete"
    BY <1>3, GetLineIs DEF Incomplete, Stops
  <2>2. ASSUME GetLine(e, p).st = "ok" PROVE GetLine(e, p).pos > Len(b) + 1
    <3>1. LineEnds(e, p) # {}
      BY <2>2, GetLineIs DEF Incomplete, Stops
    <3>2. PICK k \in LineEnds(e, p) : GetLine(e, p) = Found(k + 2, SubSeq(e, p, k - 1))
      BY <3>1, GetLineIs
    <3>3. k \in p..(Len(e) - 1) /\ k \notin 1..(Len(b) - 1)
      BY <1>1, <1>3 DEF LineEnds
    <3>4. k + 2 > Len(b) + 1
      BY <1>0, <3>3
    <3> QED BY <3>2, <3>4 DEF Found
  <2> QED BY <2>1, <2>2 DEF SameOrNeedsMore
<1> QED BY <1>2, <1>3

\* skip takes n bytes, if they are there.
LEMMA SkipIs ==
    ASSUME NEW b \in Seq(Octets), NEW p \in Nat \ {0}, NEW n \in Nat
    PROVE  /\ EndsIn(Skip(b, p, n), p + n, b)
           /\ Skip(b, p, n).st # "invalid"
           /\ Skip(b, p, n).st = "ok" <=> p + n <= Len(b) + 1
           /\ Skip(b, p, n).st = "ok" => /\ Skip(b, p, n).pos = p + n
                                         /\ Skip(b, p, n).got \in Seq(Octets)
<1> Len(b) \in Nat
  OBVIOUS
<1>1. CASE Len(b) - p + 1 < n
  <2>1. ~(p + n <= Len(b) + 1)
    BY <1>1
  <2>2. Skip(b, p, n) = Incomplete
    BY <1>1 DEF Skip
  <2> QED BY <2>1, <2>2 DEF EndsIn, IsResult, Incomplete, Stops
<1>2. CASE ~(Len(b) - p + 1 < n)
  <2>1. p + n <= Len(b) + 1
    BY <1>2
  <2>2. Skip(b, p, n) = Found(p + n, SubSeq(b, p, p + n - 1))
    BY <1>2 DEF Skip
  <2>3. SubSeq(b, p, p + n - 1) \in Seq(Octets)
    <3>1. p + n - 1 \in Nat /\ p + n - 1 <= Len(b)
      BY <2>1
    <3> QED BY <3>1, SubSeqIs
  <2> QED BY <2>1, <2>2, <2>3 DEF EndsIn, IsResult, Found
<1> QED BY <1>1, <1>2

LEMMA SkipLocal ==
    ASSUME NEW b \in Seq(Octets), NEW e \in Seq(Octets), Extends(b, e),
           NEW p \in Nat \ {0}, NEW n \in Nat
    PROVE  SameOrNeedsMore(Skip(b, p, n), Skip(e, p, n), b)
<1>0. Len(b) \in Nat /\ Len(e) \in Nat /\ Len(b) <= Len(e)
  BY DEF Extends
<1>1. CASE p + n <= Len(b) + 1
  <2>1. ~(Len(b) - p + 1 < n) /\ ~(Len(e) - p + 1 < n)
    BY <1>0, <1>1
  <2>2. SubSeq(e, p, p + n - 1) = SubSeq(b, p, p + n - 1)
    <3>1. p + n - 1 \in Nat /\ p + n - 1 <= Len(b)
      BY <1>1
    <3> QED BY <3>1, SubSeqSame
  <2>3. Skip(e, p, n) = Skip(b, p, n)
    BY <2>1, <2>2 DEF Skip
  <2> QED BY <2>3 DEF SameOrNeedsMore
<1>2. CASE ~(p + n <= Len(b) + 1)
  <2>1. Skip(b, p, n).st = "incomplete"
    BY <1>2, SkipIs DEF EndsIn, IsResult
  <2>2. Skip(e, p, n).st = "ok" => Skip(e, p, n).pos > Len(b) + 1
    <3>1. Skip(e, p, n).st = "ok" => Skip(e, p, n).pos = p + n
      BY SkipIs
    <3>2. p + n > Len(b) + 1
      BY <1>0, <1>2
    <3> QED BY <3>1, <3>2
  <2> QED BY <2>1, <2>2 DEF SameOrNeedsMore
<1> QED BY <1>1, <1>2

\* The leading digits of a line are digits.
LEMMA LeadingDigits ==
    ASSUME NEW text \in Seq(Octets)
    PROVE  /\ Leading(text) \in 0..Len(text)
           /\ SubSeq(text, 1, Leading(text)) \in Seq(Digits)
<1> DEFINE S == {i \in 0..Len(text) : ToSet(SubSeq(text, 1, i)) \subseteq Digits}
<1>1. S # {}
  <2>1. SubSeq(text, 1, 0) = <<>>
    OBVIOUS
  <2>2. ToSet(<<>>) = {}
    BY DEF ToSet
  <2>3. 0 \in S
    <3>1. ToSet(SubSeq(text, 1, 0)) \subseteq Digits
      BY <2>1, <2>2
    <3>2. 0 \in 0..Len(text)
      OBVIOUS
    <3> QED BY <3>1, <3>2
  <2> QED BY <2>3
<1>2. Max(S) \in S
  <2>1. S \subseteq 0..Len(text) /\ Len(text) \in Nat
    OBVIOUS
  <2> HIDE DEF S
  <2> QED BY <1>1, <2>1, MaxIs
<1>3. Leading(text) \in S
  BY <1>2 DEF Leading
<1> DEFINE n == Leading(text)
           s == SubSeq(text, 1, n)
<1>4. n \in 0..Len(text) /\ ToSet(s) \subseteq Digits
  BY <1>3
<1>5. s \in Seq(Octets)
  <2>1. n \in Nat /\ n <= Len(text)
    BY <1>4
  <2> HIDE DEF n
  <2> QED BY <2>1, SubSeqIs
<1>6. s \in Seq(Digits)
  <2> HIDE DEF s, n
  <2>1. \A i \in 1..Len(s) : s[i] \in ToSet(s)
    BY <1>5 DEF ToSet
  <2> QED BY <1>4, <1>5, <2>1
<1> QED BY <1>4, <1>6

\* What is made of them is no number or one number.
LEMMA UnsignedIs ==
    ASSUME NEW text \in Seq(Octets), NEW needed PROVE Unsigned(text, needed) \subseteq Nat
<1>1. \A n \in {Leading(text)} : Value(SubSeq(text, 1, n)) \in Nat
  BY LeadingDigits, ValueIs
<1> QED BY <1>1 DEF Unsigned

LEMMA DecimalIs ==
    ASSUME NEW v, NEW line \in Seq(Octets) PROVE Decimal(v, line) \subseteq Nat
<1>1. line # <<>> => Tail(line) \in Seq(Octets)
  OBVIOUS
<1>2. CASE v = "rust" /\ line # <<>> /\ Head(line) = "+"
  <2>1. Decimal(v, line) = Unsigned(Tail(line), FALSE)
    BY <1>2 DEF Decimal
  <2> QED BY <1>1, <1>2, <2>1, UnsignedIs
<1>3. CASE v = "rust" /\ line # <<>> /\ Head(line) = "-"
  <2>1. Decimal(v, line) = Unsigned(Tail(line), FALSE) \cap {0}
    BY <1>3 DEF Decimal
  <2> QED BY <1>1, <1>3, <2>1, UnsignedIs
<1>4. CASE ~(v = "rust" /\ line # <<>> /\ Head(line) \in {"+", "-"})
  <2>1. Decimal(v, line) = Unsigned(line, TRUE)
    BY <1>4 DEF Decimal
  <2> QED BY <2>1, UnsignedIs
<1> QED BY <1>2, <1>3, <1>4

\* A number is read of a line.
LEMMA DecimalOfIs ==
    ASSUME NEW v, NEW line, IsResult(line), line.st = "ok" => line.got \in Seq(Octets)
    PROVE  LET r == DecimalOf(v, line)
           IN  /\ IsResult(r)
               /\ line.st # "ok" => r = line
               /\ r.st = "ok" => line.st = "ok" /\ r.pos = line.pos /\ r.got \in Nat
               /\ r.st = "incomplete" => line.st = "incomplete"
<1> DEFINE r == DecimalOf(v, line)
           values == Decimal(v, line.got)
<1>1. CASE line.st # "ok"
  <2>1. r = line
    BY <1>1 DEF DecimalOf
  <2> QED BY <1>1, <2>1
<1>2. CASE line.st = "ok" /\ values = {}
  <2>1. r = Invalid
    BY <1>2 DEF DecimalOf, Numbered
  <2> QED BY <1>2, <2>1 DEF Invalid, Stops, IsResult
<1>3. CASE line.st = "ok" /\ values # {}
  <2> DEFINE n == CHOOSE k \in values : TRUE
  <2>1. r = Found(line.pos, n)
    BY <1>3 DEF DecimalOf, Numbered
  <2>2. n \in Nat
    <3>1. n \in values
      BY <1>3
    <3>2. values \subseteq Nat
      BY <1>3, DecimalIs
    <3> QED BY <3>1, <3>2
  <2> HIDE DEF n
  <2> QED BY <1>3, <2>1, <2>2 DEF Found, IsResult
<1> QED BY <1>1, <1>2, <1>3

LEMMA GetDecimalMoves ==
    ASSUME NEW v, NEW b \in Seq(Octets), NEW p \in Nat \ {0}
    PROVE  /\ EndsIn(GetDecimal(v, b, p), p + 2, b)
           /\ GetDecimal(v, b, p).st = "ok" => GetDecimal(v, b, p).got \in Nat
<1> DEFINE line == GetLine(b, p)
<1>1. /\ EndsIn(line, p + 2, b)
      /\ line.st = "ok" => line.got \in Seq(Octets)
  BY GetLineMoves
<1>2. GetDecimal(v, b, p) = DecimalOf(v, line)
  BY DEF GetDecimal
<1> HIDE DEF line
<1> QED BY <1>1, <1>2, DecimalOfIs DEF EndsIn

LEMMA GetDecimalLocal ==
    ASSUME NEW v, NEW b \in Seq(Octets), NEW e \in Seq(Octets), Extends(b, e),
           NEW p \in Nat \ {0}
    PROVE  SameOrNeedsMore(GetDecimal(v, b, p), GetDecimal(v, e, p), b)
<1> DEFINE lb == GetLine(b, p)
           le == GetLine(e, p)
<1>1. SameOrNeedsMore(lb, le, b)
  BY GetLineLocal
<1>2. /\ IsResult(lb) /\ (lb.st = "ok" => lb.got \in Seq(Octets))
      /\ IsResult(le) /\ (le.st = "ok" => le.got \in Seq(Octets))
  BY GetLineMoves DEF EndsIn
<1>3. GetDecimal(v, b, p) = DecimalOf(v, lb) /\ GetDecimal(v, e, p) = DecimalOf(v, le)
  BY DEF GetDecimal
<1> HIDE DEF lb, le
<1>4. /\ lb.st # "ok" => DecimalOf(v, lb) = lb
      /\ DecimalOf(v, le).st = "ok" => le.st = "ok" /\ DecimalOf(v, le).pos = le.pos
  BY <1>2, DecimalOfIs
<1>5. CASE le = lb
  BY <1>3, <1>5 DEF SameOrNeedsMore
<1>6. CASE lb.st = "incomplete" /\ (le.st = "ok" => le.pos > Len(b) + 1)
  BY <1>3, <1>4, <1>6 DEF SameOrNeedsMore
<1> QED BY <1>1, <1>5, <1>6 DEF SameOrNeedsMore

\* The bytes of a bulk, after its length.
BulkAt(v, b, p) == BulkBytes(b, GetDecimal(v, b, p))

\* A bulk ends after its length and its bytes.
LEMMA BulkMoves ==
    ASSUME NEW v, NEW b \in Seq(Octets), NEW p \in Nat \ {0}
    PROVE  /\ EndsIn(BulkAt(v, b, p), p + 2, b)
           /\ BulkAt(v, b, p).st = "ok" => BulkAt(v, b, p).got \in Seq(Octets)
<1> DEFINE len == GetDecimal(v, b, p)
<1>1. EndsIn(len, p + 2, b) /\ (len.st = "ok" => len.got \in Nat)
  BY GetDecimalMoves
<1>2. BulkAt(v, b, p) = IF len.st = "ok" THEN Skip(b, len.pos, len.got + 2) ELSE len
  BY DEF BulkAt, BulkBytes
<1> HIDE DEF len
<1>3. CASE len.st = "ok"
  <2>1. len.pos \in (p + 2)..Len(b) + 1 /\ len.got + 2 \in Nat /\ len.pos \in Nat \ {0}
    BY <1>1, <1>3 DEF EndsIn
  <2> DEFINE at == len.pos
             n == len.got + 2
             r == Skip(b, at, n)
  <2>2. BulkAt(v, b, p) = r
    BY <1>2, <1>3
  <2> HIDE DEF r
  <2>3. at \in Nat \ {0} /\ n \in Nat /\ at >= p + 2
    BY <2>1
  <2> HIDE DEF at, n
  <2>4. EndsIn(r, at + n, b) /\ (r.st = "ok" => r.got \in Seq(Octets))
    BY <2>3, SkipIs DEF r
  <2>5. EndsIn(r, p + 2, b)
    BY <2>3, <2>4 DEF EndsIn
  <2> QED BY <2>2, <2>4, <2>5
<1>4. CASE len.st # "ok"
  BY <1>1, <1>2, <1>4 DEF EndsIn
<1> QED BY <1>3, <1>4

LEMMA BulkLocal ==
    ASSUME NEW v, NEW b \in Seq(Octets), NEW e \in Seq(Octets), Extends(b, e),
           NEW p \in Nat \ {0}
    PROVE  SameOrNeedsMore(BulkAt(v, b, p), BulkAt(v, e, p), b)
<1> DEFINE lb == GetDecimal(v, b, p)
           le == GetDecimal(v, e, p)
<1>1. SameOrNeedsMore(lb, le, b)
  BY GetDecimalLocal
<1>2. /\ EndsIn(lb, p + 2, b) /\ (lb.st = "ok" => lb.got \in Nat)
      /\ EndsIn(le, p + 2, e) /\ (le.st = "ok" => le.got \in Nat)
  BY GetDecimalMoves
<1>3. /\ BulkAt(v, b, p) = (IF lb.st = "ok" THEN Skip(b, lb.pos, lb.got + 2) ELSE lb)
      /\ BulkAt(v, e, p) = (IF le.st = "ok" THEN Skip(e, le.pos, le.got + 2) ELSE le)
  BY DEF BulkAt, BulkBytes
<1> HIDE DEF lb, le
<1>4. CASE le = lb /\ lb.st = "ok"
  <2> DEFINE at == lb.pos
             n == lb.got + 2
  <2>1. at \in Nat \ {0} /\ n \in Nat
    BY <1>2, <1>4 DEF EndsIn
  <2>2. BulkAt(v, b, p) = Skip(b, at, n) /\ BulkAt(v, e, p) = Skip(e, at, n)
    BY <1>3, <1>4
  <2> HIDE DEF at, n
  <2> QED BY <2>1, <2>2, SkipLocal
<1>5. CASE le = lb /\ lb.st # "ok"
  BY <1>3, <1>5 DEF SameOrNeedsMore
<1>6. CASE lb.st = "incomplete" /\ (le.st = "ok" => le.pos > Len(b) + 1)
  <2>1. BulkAt(v, b, p).st = "incomplete"
    BY <1>3, <1>6
  <2>2. CASE le.st # "ok"
    BY <1>3, <2>1, <2>2 DEF SameOrNeedsMore
  <2>3. CASE le.st = "ok"
    <3> DEFINE at == le.pos
               n == le.got + 2
    <3>1. at \in Nat \ {0} /\ n \in Nat /\ at > Len(b) + 1 /\ Len(b) \in Nat
      BY <1>2, <1>6, <2>3 DEF EndsIn
    <3>2. BulkAt(v, e, p) = Skip(e, at, n)
      BY <1>3, <2>3
    <3> HIDE DEF at, n
    <3>3. Skip(e, at, n).st = "ok" => Skip(e, at, n).pos = at + n
      BY <3>1, SkipIs
    <3>4. at + n > Len(b) + 1
      BY <3>1
    <3> QED BY <2>1, <3>2, <3>3, <3>4 DEF SameOrNeedsMore
  <2> QED BY <2>2, <2>3
<1> QED BY <1>1, <1>4, <1>5, <1>6 DEF SameOrNeedsMore

-----------------------------------------------------------------------------
\* What stands at a place.
Place(b, p) ==
    IF p > Len(b) \/ (p = Len(b) /\ b[p] = "$") THEN "end"
    ELSE IF b[p] \in {"+", "-"} THEN "line"
    ELSE IF b[p] \in {":", "*"} THEN "number"
    ELSE IF b[p] # "$" THEN "none"
    ELSE IF IsNull(b, p) THEN "null" ELSE "bulk"

\* What check and parse read depends on what stands there.
LEMMA CheckPlaces ==
    ASSUME NEW v, NEW b \in Seq(Octets), NEW p \in Nat \ {0}
    PROVE  CheckAt(v, b, p) = IF Place(b, p) = "end" THEN Incomplete
                              ELSE IF Place(b, p) = "line" THEN GetLine(b, p + 1)
                              ELSE IF Place(b, p) = "number" THEN GetDecimal(v, b, p + 1)
                              ELSE IF Place(b, p) = "none" THEN Invalid
                              ELSE IF Place(b, p) = "null" THEN Skip(b, p + 1, 4)
                              ELSE BulkAt(v, b, p + 1)
<1> DEFINE end == p > Len(b) \/ (p = Len(b) /\ b[p] = "$")
<1> Len(b) \in Nat
  OBVIOUS
<1>1. CASE end
  <2>1. Place(b, p) = "end"
    BY <1>1 DEF Place
  <2>2. CheckAt(v, b, p) = Incomplete
    BY <1>1 DEF CheckAt
  <2> QED BY <2>1, <2>2
<1>2. CASE ~end /\ b[p] \in {"+", "-"}
  <2>1. Place(b, p) = "line"
    BY <1>2 DEF Place
  <2>2. CheckAt(v, b, p) = GetLine(b, p + 1)
    BY <1>2 DEF CheckAt
  <2> QED BY <2>1, <2>2
<1>3. CASE ~end /\ b[p] \in {":", "*"}
  <2>1. Place(b, p) = "number"
    BY <1>3 DEF Place
  <2>2. CheckAt(v, b, p) = GetDecimal(v, b, p + 1)
    BY <1>3 DEF CheckAt
  <2> QED BY <2>1, <2>2
<1>4. CASE ~end /\ b[p] = "$" /\ IsNull(b, p)
  <2>1. Place(b, p) = "null"
    BY <1>4 DEF Place
  <2>2. CheckAt(v, b, p) = Skip(b, p + 1, 4)
    BY <1>4 DEF CheckAt, NullLength
  <2> QED BY <2>1, <2>2
<1>5. CASE ~end /\ b[p] = "$" /\ ~IsNull(b, p)
  <2>1. Place(b, p) = "bulk"
    BY <1>5 DEF Place
  <2>2. CheckAt(v, b, p) = BulkAt(v, b, p + 1)
    BY <1>5 DEF CheckAt, BulkAt
  <2> QED BY <2>1, <2>2
<1>6. CASE ~end /\ b[p] \notin {"+", "-", ":", "*", "$"}
  <2>1. Place(b, p) = "none"
    BY <1>6 DEF Place
  <2>2. CheckAt(v, b, p) = Invalid
    BY <1>6 DEF CheckAt
  <2> QED BY <2>1, <2>2
<1> QED BY <1>1, <1>2, <1>3, <1>4, <1>5, <1>6

LEMMA ParsePlaces ==
    ASSUME NEW v, NEW b \in Seq(Octets), NEW p \in Nat \ {0}
    PROVE  ParseAt(v, b, p) =
                IF Place(b, p) = "end" THEN Incomplete
                ELSE IF Place(b, p) = "line"
                     THEN OfText(v, IF b[p] = "+" THEN "simple" ELSE "error",
                                 GetLine(b, p + 1))
                ELSE IF Place(b, p) = "number"
                     THEN OfNumber(IF b[p] = ":" THEN "integer" ELSE "array",
                                   GetDecimal(v, b, p + 1))
                ELSE IF Place(b, p) = "none" THEN Invalid
                ELSE IF Place(b, p) = "null" THEN OfNull(GetLine(b, p + 1))
                ELSE OfBulk(BulkAt(v, b, p + 1))
<1> DEFINE end == p > Len(b) \/ (p = Len(b) /\ b[p] = "$")
<1> Len(b) \in Nat
  OBVIOUS
<1>1. CASE end
  <2>1. Place(b, p) = "end"
    BY <1>1 DEF Place
  <2>2. ParseAt(v, b, p) = Incomplete
    BY <1>1 DEF ParseAt
  <2> QED BY <2>1, <2>2
<1>2. CASE ~end /\ b[p] \in {"+", "-"}
  <2>1. Place(b, p) = "line"
    BY <1>2 DEF Place
  <2>2. ParseAt(v, b, p) = OfText(v, IF b[p] = "+" THEN "simple" ELSE "error",
                                  GetLine(b, p + 1))
    BY <1>2 DEF ParseAt
  <2> QED BY <2>1, <2>2
<1>3. CASE ~end /\ b[p] \in {":", "*"}
  <2>1. Place(b, p) = "number"
    BY <1>3 DEF Place
  <2>2. ParseAt(v, b, p) = OfNumber(IF b[p] = ":" THEN "integer" ELSE "array",
                                    GetDecimal(v, b, p + 1))
    BY <1>3 DEF ParseAt
  <2> QED BY <2>1, <2>2
<1>4. CASE ~end /\ b[p] = "$" /\ IsNull(b, p)
  <2>1. Place(b, p) = "null"
    BY <1>4 DEF Place
  <2>2. ParseAt(v, b, p) = OfNull(GetLine(b, p + 1))
    BY <1>4 DEF ParseAt
  <2> QED BY <2>1, <2>2
<1>5. CASE ~end /\ b[p] = "$" /\ ~IsNull(b, p)
  <2>1. Place(b, p) = "bulk"
    BY <1>5 DEF Place
  <2>2. ParseAt(v, b, p) = OfBulk(BulkAt(v, b, p + 1))
    BY <1>5 DEF ParseAt, BulkAt
  <2> QED BY <2>1, <2>2
<1>6. CASE ~end /\ b[p] \notin {"+", "-", ":", "*", "$"}
  <2>1. Place(b, p) = "none"
    BY <1>6 DEF Place
  <2>2. ParseAt(v, b, p) = Invalid
    BY <1>6 DEF ParseAt
  <2> QED BY <2>1, <2>2
<1> QED BY <1>1, <1>2, <1>3, <1>4, <1>5, <1>6

\* Unless the buffer ends there, the same stands there in a longer one.
LEMMA SamePlace ==
    ASSUME NEW b \in Seq(Octets), NEW e \in Seq(Octets), Extends(b, e),
           NEW p \in Nat \ {0}, Place(b, p) # "end"
    PROVE  Place(e, p) = Place(b, p) /\ p <= Len(b) /\ e[p] = b[p]
<1>1. Len(b) \in Nat /\ Len(e) \in Nat /\ Len(b) <= Len(e)
  BY DEF Extends
<1>2. p <= Len(b) /\ ~(p = Len(b) /\ b[p] = "$")
  BY <1>1 DEF Place
<1>3. e[p] = b[p] /\ ~(p = Len(e) /\ e[p] = "$") /\ p <= Len(e)
  BY <1>1, <1>2 DEF Extends
<1>4. p < Len(b) => p < Len(e) /\ e[p + 1] = b[p + 1]
  BY <1>1 DEF Extends
<1>5. b[p] = "$" => (IsNull(e, p) <=> IsNull(b, p))
  BY <1>1, <1>2, <1>4 DEF IsNull
<1> QED BY <1>1, <1>2, <1>3, <1>5 DEF Place

-----------------------------------------------------------------------------
\* check passes over three bytes or more, and over a length of an array.
LEMMA CheckAtMoves ==
    ASSUME NEW v, NEW b \in Seq(Octets), NEW p \in Nat \ {0}
    PROVE  /\ EndsIn(CheckAt(v, b, p), p + 3, b)
           /\ CheckAt(v, b, p).st = "ok" /\ b[p] = "*" => CheckAt(v, b, p).got \in Nat
<1> DEFINE q == p + 1
<1>1. q \in Nat \ {0} /\ q + 2 = p + 3 /\ 4 \in Nat
  OBVIOUS
<1>2. /\ EndsIn(Incomplete, p + 3, b) /\ EndsIn(Invalid, p + 3, b)
      /\ Incomplete.st # "ok" /\ Invalid.st # "ok"
  BY DEF Incomplete, Invalid, Stops, EndsIn, IsResult
<1>3. EndsIn(GetLine(b, q), p + 3, b)
  <2> HIDE DEF q
  <2> QED BY <1>1, GetLineMoves
<1>4. /\ EndsIn(GetDecimal(v, b, q), p + 3, b)
      /\ GetDecimal(v, b, q).st = "ok" => GetDecimal(v, b, q).got \in Nat
  <2> HIDE DEF q
  <2> QED BY <1>1, GetDecimalMoves
<1>5. EndsIn(BulkAt(v, b, q), p + 3, b)
  <2> HIDE DEF q
  <2> QED BY <1>1, BulkMoves
<1>6. EndsIn(Skip(b, q, 4), p + 3, b)
  <2>1. EndsIn(Skip(b, q, 4), q + 4, b)
    BY <1>1, SkipIs
  <2> QED BY <2>1 DEF EndsIn
<1>7. b[p] = "*" => Place(b, p) \in {"end", "number"}
  BY DEF Place
<1>8. Place(b, p) \in {"end", "line", "number", "none", "null", "bulk"}
  BY DEF Place
<1> DEFINE r == CheckAt(v, b, p)
<1>9. r = IF Place(b, p) = "end" THEN Incomplete
          ELSE IF Place(b, p) = "line" THEN GetLine(b, q)
          ELSE IF Place(b, p) = "number" THEN GetDecimal(v, b, q)
          ELSE IF Place(b, p) = "none" THEN Invalid
          ELSE IF Place(b, p) = "null" THEN Skip(b, q, 4)
          ELSE BulkAt(v, b, q)
  BY CheckPlaces
<1> HIDE DEF r, q
<1>10. EndsIn(r, p + 3, b)
  BY <1>2, <1>3, <1>4, <1>5, <1>6, <1>9
<1>11. r.st = "ok" /\ b[p] = "*" => r.got \in Nat
  BY <1>2, <1>4, <1>7, <1>9
<1> QED BY <1>10, <1>11 DEF r

\* What check passes over is the same in a longer buffer.
LEMMA CheckAtLocal ==
    ASSUME NEW v, NEW b \in Seq(Octets), NEW e \in Seq(Octets), Extends(b, e),
           NEW p \in 1..Len(b) + 1
    PROVE  SameOrNeedsMore(CheckAt(v, b, p), CheckAt(v, e, p), b)
<1> DEFINE q == p + 1
<1>1. p \in Nat \ {0} /\ q \in Nat \ {0} /\ 4 \in Nat /\ Len(b) \in Nat
  OBVIOUS
<1>2. CASE Place(b, p) = "end"
  <2>1. CheckAt(v, b, p).st = "incomplete"
    BY <1>1, <1>2, CheckPlaces DEF Incomplete, Stops
  <2>2. CheckAt(v, e, p).st = "ok" => CheckAt(v, e, p).pos >= p + 3
    BY <1>1, CheckAtMoves DEF EndsIn
  <2>3. p >= Len(b)
    BY <1>1, <1>2 DEF Place
  <2>4. CheckAt(v, e, p).st = "ok" => CheckAt(v, e, p).pos > Len(b) + 1
    <3>1. EndsIn(CheckAt(v, e, p), p + 3, e)
      BY <1>1, CheckAtMoves
    <3>2. Len(e) \in Nat
      OBVIOUS
    <3>3. CheckAt(v, e, p).st = "ok" => CheckAt(v, e, p).pos \in p + 3..Len(e) + 1
      BY <3>1 DEF EndsIn
    <3> QED BY <1>1, <2>3, <3>2, <3>3
  <2> QED BY <2>1, <2>4 DEF SameOrNeedsMore
<1>3. CASE Place(b, p) # "end"
  <2>1. Place(e, p) = Place(b, p)
    BY <1>1, <1>3, SamePlace
  <2>2. /\ SameOrNeedsMore(GetLine(b, q), GetLine(e, q), b)
        /\ SameOrNeedsMore(GetDecimal(v, b, q), GetDecimal(v, e, q), b)
        /\ SameOrNeedsMore(BulkAt(v, b, q), BulkAt(v, e, q), b)
        /\ SameOrNeedsMore(Skip(b, q, 4), Skip(e, q, 4), b)
    <3> HIDE DEF q
    <3> QED BY <1>1, GetLineLocal, GetDecimalLocal, BulkLocal, SkipLocal
  <2>3. SameOrNeedsMore(Invalid, Invalid, b)
    BY DEF SameOrNeedsMore
  <2>4. CheckAt(v, b, p) = IF Place(b, p) = "line" THEN GetLine(b, q)
          ELSE IF Place(b, p) = "number" THEN GetDecimal(v, b, q)
          ELSE IF Place(b, p) = "none" THEN Invalid
          ELSE IF Place(b, p) = "null" THEN Skip(b, q, 4)
          ELSE BulkAt(v, b, q)
    BY <1>1, <1>3, CheckPlaces
  <2>5. CheckAt(v, e, p) = IF Place(b, p) = "line" THEN GetLine(e, q)
          ELSE IF Place(b, p) = "number" THEN GetDecimal(v, e, q)
          ELSE IF Place(b, p) = "none" THEN Invalid
          ELSE IF Place(b, p) = "null" THEN Skip(e, q, 4)
          ELSE BulkAt(v, e, q)
    BY <1>1, <1>3, <2>1, CheckPlaces
  <2> HIDE DEF q
  <2> QED BY <2>2, <2>3, <2>4, <2>5
<1> QED BY <1>2, <1>3

\* What parse makes of what it read ends where that does, or fails.
Wraps(w, r) == /\ IsResult(w)
               /\ r.st # "ok" => w = r
               /\ w.st = "ok" => r.st = "ok" /\ w.pos = r.pos

\* Then it ends as far, and is the same whenever what was read is.
LEMMA WrapsMove ==
    ASSUME NEW w, NEW r, Wraps(w, r), NEW b \in Seq(Octets), NEW p \in Nat, EndsIn(r, p, b)
    PROVE  EndsIn(w, p, b)
BY DEF Wraps, EndsIn

LEMMA WrapsLocal ==
    ASSUME NEW wb, NEW rb, NEW we, NEW re, NEW b, Wraps(wb, rb), Wraps(we, re),
           SameOrNeedsMore(rb, re, b), re = rb => we = wb
    PROVE  SameOrNeedsMore(wb, we, b)
BY DEF Wraps, SameOrNeedsMore

\* What parse makes of a line, a number, a null and a bulk.
LEMMA OfTextWraps ==
    ASSUME NEW v, NEW kind, NEW r, IsResult(r)
    PROVE  /\ Wraps(OfText(v, kind, r), r)
           /\ OfText(v, kind, r).st = "ok" => OfText(v, kind, r).got.kind = kind
<1>1. CASE r.st # "ok"
  <2>1. OfText(v, kind, r) = r
    BY <1>1 DEF OfText
  <2> QED BY <1>1, <2>1 DEF Wraps
<1>2. CASE r.st = "ok" /\ v = "rust" /\ ~Utf8(r.got)
  <2>1. OfText(v, kind, r) = Invalid
    BY <1>2 DEF OfText
  <2> QED BY <1>2, <2>1 DEF Wraps, Invalid, Stops, IsResult
<1>3. CASE r.st = "ok" /\ ~(v = "rust" /\ ~Utf8(r.got))
  <2>1. OfText(v, kind, r) = Found(r.pos, Frame(kind, 0, r.got, <<>>))
    BY <1>3 DEF OfText
  <2> QED BY <1>3, <2>1 DEF Wraps, Found, IsResult, Frame
<1> QED BY <1>1, <1>2, <1>3

LEMMA OfNumberWraps ==
    ASSUME NEW kind, NEW r, IsResult(r)
    PROVE  /\ Wraps(OfNumber(kind, r), r)
           /\ OfNumber(kind, r).st = "ok" => /\ OfNumber(kind, r).got.kind = kind
                                             /\ OfNumber(kind, r).got.n = r.got
<1>1. CASE r.st # "ok"
  <2>1. OfNumber(kind, r) = r
    BY <1>1 DEF OfNumber
  <2> QED BY <1>1, <2>1 DEF Wraps
<1>2. CASE r.st = "ok"
  <2>1. OfNumber(kind, r) = Found(r.pos, Frame(kind, r.got, <<>>, <<>>))
    BY <1>2 DEF OfNumber
  <2> QED BY <1>2, <2>1 DEF Wraps, Found, IsResult, Frame
<1> QED BY <1>1, <1>2

LEMMA OfNullWraps ==
    ASSUME NEW r, IsResult(r)
    PROVE  /\ Wraps(OfNull(r), r)
           /\ OfNull(r).st = "ok" => r.got = <<"-", "1">> /\ OfNull(r).got.kind = "null"
<1>1. CASE r.st # "ok"
  <2>1. OfNull(r) = r
    BY <1>1 DEF OfNull
  <2> QED BY <1>1, <2>1 DEF Wraps
<1>2. CASE r.st = "ok" /\ r.got # <<"-", "1">>
  <2>1. OfNull(r) = Invalid
    BY <1>2 DEF OfNull
  <2> QED BY <1>2, <2>1 DEF Wraps, Invalid, Stops, IsResult
<1>3. CASE r.st = "ok" /\ r.got = <<"-", "1">>
  <2>1. OfNull(r) = Found(r.pos, Null)
    BY <1>3 DEF OfNull
  <2> QED BY <1>3, <2>1 DEF Wraps, Found, IsResult, Null, Frame
<1> QED BY <1>1, <1>2, <1>3

LEMMA OfBulkWraps ==
    ASSUME NEW r, IsResult(r)
    PROVE  /\ Wraps(OfBulk(r), r)
           /\ OfBulk(r).st = "ok" => OfBulk(r).got.kind = "bulk"
<1>1. CASE r.st # "ok"
  <2>1. OfBulk(r) = r
    BY <1>1 DEF OfBulk
  <2> QED BY <1>1, <2>1 DEF Wraps
<1>2. CASE r.st = "ok"
  <2>1. OfBulk(r) = Found(r.pos, Bulk(SubSeq(r.got, 1, Len(r.got) - 2)))
    BY <1>2 DEF OfBulk
  <2> QED BY <1>2, <2>1 DEF Wraps, Found, IsResult, Bulk, Frame
<1> QED BY <1>1, <1>2

-----------------------------------------------------------------------------
\* What parse reads at a place is what check passes over there.
LEMMA ParseAtIs ==
    ASSUME NEW v, NEW b \in Seq(Octets), NEW p \in 1..Len(b) + 1
    PROVE  LET r == ParseAt(v, b, p)
               c == CheckAt(v, b, p)
           IN  /\ EndsIn(r, p + 3, b)
               /\ r.st = "ok" => /\ c.st = "ok" /\ c.pos = r.pos
                                 /\ r.got.kind = "array" <=> b[p] = "*"
                                 /\ b[p] = "*" => r.got.n = c.got /\ r.got.n \in Nat
<1> DEFINE r == ParseAt(v, b, p)
           c == CheckAt(v, b, p)
           q == p + 1
<1>1. p \in Nat \ {0} /\ q \in Nat \ {0} /\ p + 3 \in Nat /\ q + 2 = p + 3 /\ 4 \in Nat
      /\ Len(b) \in Nat
  OBVIOUS
<1>2. /\ EndsIn(GetLine(b, q), q + 2, b)
      /\ EndsIn(GetDecimal(v, b, q), q + 2, b)
      /\ GetDecimal(v, b, q).st = "ok" => GetDecimal(v, b, q).got \in Nat
      /\ EndsIn(BulkAt(v, b, q), q + 2, b)
  <2> HIDE DEF q
  <2> QED BY <1>1, GetLineMoves, GetDecimalMoves, BulkMoves
<1>3. Place(b, p) \in {"end", "line", "number", "none", "null", "bulk"}
  BY DEF Place
<1>4. CASE Place(b, p) \in {"end", "none"}
  <2>1. r \in {Incomplete, Invalid}
    BY <1>1, <1>4, ParsePlaces
  <2> QED BY <2>1 DEF EndsIn, IsResult, Incomplete, Invalid, Stops
<1>5. CASE Place(b, p) = "line"
  <2> DEFINE line == GetLine(b, q)
             kind == IF b[p] = "+" THEN "simple" ELSE "error"
  <2>1. r = OfText(v, kind, line) /\ c = line
    BY <1>1, <1>5, ParsePlaces, CheckPlaces
  <2>2. b[p] # "*" /\ kind # "array"
    BY <1>5 DEF Place
  <2> HIDE DEF r, c, line, kind
  <2>3. EndsIn(line, p + 3, b)
    BY <1>1, <1>2 DEF line
  <2>4. Wraps(r, line) /\ (r.st = "ok" => r.got.kind = kind)
    BY <2>1, <2>3, OfTextWraps DEF EndsIn
  <2>5. EndsIn(r, p + 3, b)
    BY <1>1, <2>3, <2>4, WrapsMove
  <2> QED BY <2>1, <2>2, <2>4, <2>5 DEF Wraps, r, c
<1>6. CASE Place(b, p) = "number"
  <2> DEFINE num == GetDecimal(v, b, q)
             kind == IF b[p] = ":" THEN "integer" ELSE "array"
  <2>1. r = OfNumber(kind, num) /\ c = num
    BY <1>1, <1>6, ParsePlaces, CheckPlaces
  <2>2. kind = "array" <=> b[p] = "*"
    BY <1>6 DEF Place
  <2> HIDE DEF r, c, num, kind
  <2>3. EndsIn(num, p + 3, b) /\ (num.st = "ok" => num.got \in Nat)
    BY <1>1, <1>2 DEF num
  <2>4. Wraps(r, num) /\ (r.st = "ok" => r.got.kind = kind /\ r.got.n = num.got)
    BY <2>1, <2>3, OfNumberWraps DEF EndsIn
  <2>5. EndsIn(r, p + 3, b)
    BY <1>1, <2>3, <2>4, WrapsMove
  <2> QED BY <2>1, <2>2, <2>3, <2>4, <2>5 DEF Wraps, r, c
<1>7. CASE Place(b, p) = "bulk"
  <2> DEFINE bulk == BulkAt(v, b, q)
  <2>1. r = OfBulk(bulk) /\ c = bulk
    BY <1>1, <1>7, ParsePlaces, CheckPlaces
  <2>2. b[p] # "*"
    BY <1>7 DEF Place
  <2> HIDE DEF r, c, bulk
  <2>3. EndsIn(bulk, p + 3, b)
    BY <1>1, <1>2 DEF bulk
  <2>4. Wraps(r, bulk) /\ (r.st = "ok" => r.got.kind = "bulk")
    BY <2>1, <2>3, OfBulkWraps DEF EndsIn
  <2>5. EndsIn(r, p + 3, b)
    BY <1>1, <2>3, <2>4, WrapsMove
  <2> QED BY <2>1, <2>2, <2>4, <2>5 DEF Wraps, r, c
<1>8. CASE Place(b, p) = "null"
  <2> DEFINE line == GetLine(b, q)
  <2>1. r = OfNull(line) /\ c = Skip(b, q, 4)
    BY <1>1, <1>8, ParsePlaces, CheckPlaces
  <2>2. b[p] # "*"
    BY <1>8 DEF Place
  <2> HIDE DEF r, c
  <2>3. EndsIn(line, p + 3, b)
    BY <1>1, <1>2
  <2>4. Wraps(r, line) /\ (r.st = "ok" => r.got.kind = "null" /\ line.got = <<"-", "1">>)
    <3> HIDE DEF line
    <3> QED BY <2>1, <2>3, OfNullWraps DEF EndsIn
  <2>5. EndsIn(r, p + 3, b)
    <3> HIDE DEF line
    <3> QED BY <1>1, <2>3, <2>4, WrapsMove
  <2>6. ASSUME r.st = "ok" PROVE c.st = "ok" /\ c.pos = r.pos
    <3>1. line.st = "ok" /\ r.pos = line.pos /\ Len(line.got) = 2
      <4> HIDE DEF line
      <4>1. line.st = "ok" /\ r.pos = line.pos /\ line.got = <<"-", "1">>
        BY <2>4, <2>6 DEF Wraps
      <4> QED BY <4>1
    <3>2. LineEnds(b, q) # {}
      BY <1>1, <3>1, GetLineIs DEF Incomplete, Stops
    <3>3. PICK i \in LineEnds(b, q) : line = Found(i + 2, SubSeq(b, q, i - 1))
      BY <1>1, <3>2, GetLineIs
    <3>4. i \in q..Len(b) - 1 /\ i - 1 \in Nat /\ i - 1 <= Len(b)
      BY <1>1 DEF LineEnds
    <3>5. Len(SubSeq(b, q, i - 1)) = IF q <= i - 1 THEN (i - 1) - q + 1 ELSE 0
      <4> HIDE DEF q
      <4> QED BY <1>1, <3>4, SubSeqIs
    <3>6. line.got = SubSeq(b, q, i - 1) /\ line.pos = i + 2
      BY <3>3 DEF Found
    <3> HIDE DEF line
    <3>7. i = q + 2
      BY <1>1, <3>1, <3>4, <3>5, <3>6
    <3>8. q + 4 <= Len(b) + 1 /\ r.pos = q + 4
      BY <1>1, <3>1, <3>4, <3>6, <3>7
    <3>9. (c.st = "ok" <=> q + 4 <= Len(b) + 1) /\ (c.st = "ok" => c.pos = q + 4)
      <4> HIDE DEF q
      <4> QED BY <1>1, <2>1, SkipIs
    <3> QED BY <3>8, <3>9
  <2> QED BY <2>2, <2>4, <2>5, <2>6 DEF r, c
<1> QED BY <1>3, <1>4, <1>5, <1>6, <1>7, <1>8

\* What parse reads is the same in a longer buffer.
LEMMA ParseAtLocal ==
    ASSUME NEW v, NEW b \in Seq(Octets), NEW e \in Seq(Octets), Extends(b, e),
           NEW p \in 1..Len(b) + 1
    PROVE  SameOrNeedsMore(ParseAt(v, b, p), ParseAt(v, e, p), b)
<1> DEFINE q == p + 1
           rb == ParseAt(v, b, p)
           re == ParseAt(v, e, p)
<1>1. p \in Nat \ {0} /\ q \in Nat \ {0} /\ 4 \in Nat /\ Len(b) \in Nat /\ Len(e) \in Nat
      /\ Len(b) <= Len(e) /\ p \in 1..Len(e) + 1
  BY DEF Extends
<1>2. CASE Place(b, p) = "end"
  <2>1. rb.st = "incomplete"
    BY <1>1, <1>2, ParsePlaces DEF Incomplete, Stops
  <2>2. p >= Len(b)
    BY <1>1, <1>2 DEF Place
  <2>3. EndsIn(re, p + 3, e)
    BY <1>1, ParseAtIs
  <2> HIDE DEF rb, re
  <2>4. re.st = "ok" => re.pos > Len(b) + 1
    BY <1>1, <2>2, <2>3 DEF EndsIn
  <2> QED BY <2>1, <2>4 DEF SameOrNeedsMore, rb, re
<1>3. CASE Place(b, p) # "end"
  <2>1. Place(e, p) = Place(b, p) /\ e[p] = b[p]
    BY <1>1, <1>3, SamePlace
  <2>2. /\ SameOrNeedsMore(GetLine(b, q), GetLine(e, q), b)
        /\ SameOrNeedsMore(GetDecimal(v, b, q), GetDecimal(v, e, q), b)
        /\ SameOrNeedsMore(BulkAt(v, b, q), BulkAt(v, e, q), b)
    <3> HIDE DEF q
    <3> QED BY <1>1, GetLineLocal, GetDecimalLocal, BulkLocal
  <2>3. /\ IsResult(GetLine(b, q)) /\ IsResult(GetLine(e, q))
        /\ IsResult(GetDecimal(v, b, q)) /\ IsResult(GetDecimal(v, e, q))
        /\ IsResult(BulkAt(v, b, q)) /\ IsResult(BulkAt(v, e, q))
    <3> HIDE DEF q
    <3> QED BY <1>1, GetLineMoves, GetDecimalMoves, BulkMoves DEF EndsIn
  <2>4. CASE Place(b, p) = "none"
    <3>1. rb = Invalid /\ re = Invalid
      BY <1>1, <2>1, <2>4, ParsePlaces
    <3> QED BY <3>1 DEF SameOrNeedsMore
  <2>5. CASE Place(b, p) = "line"
    <3> DEFINE lb == GetLine(b, q)
               le == GetLine(e, q)
               kind == IF b[p] = "+" THEN "simple" ELSE "error"
    <3>1. rb = OfText(v, kind, lb) /\ re = OfText(v, kind, le)
      BY <1>1, <2>1, <2>5, ParsePlaces
    <3>2. IsResult(lb) /\ IsResult(le) /\ SameOrNeedsMore(lb, le, b)
      BY <2>2, <2>3
    <3> HIDE DEF lb, le, kind, rb, re
    <3>3. Wraps(rb, lb) /\ Wraps(re, le) /\ (le = lb => re = rb)
      BY <3>1, <3>2, OfTextWraps
    <3>4. SameOrNeedsMore(rb, re, b)
      BY <3>2, <3>3, WrapsLocal
    <3> QED BY <3>4 DEF rb, re
  <2>6. CASE Place(b, p) = "number"
    <3> DEFINE lb == GetDecimal(v, b, q)
               le == GetDecimal(v, e, q)
               kind == IF b[p] = ":" THEN "integer" ELSE "array"
    <3>1. rb = OfNumber(kind, lb) /\ re = OfNumber(kind, le)
      BY <1>1, <2>1, <2>6, ParsePlaces
    <3>2. IsResult(lb) /\ IsResult(le) /\ SameOrNeedsMore(lb, le, b)
      BY <2>2, <2>3
    <3> HIDE DEF lb, le, kind, rb, re
    <3>3. Wraps(rb, lb) /\ Wraps(re, le) /\ (le = lb => re = rb)
      BY <3>1, <3>2, OfNumberWraps
    <3>4. SameOrNeedsMore(rb, re, b)
      BY <3>2, <3>3, WrapsLocal
    <3> QED BY <3>4 DEF rb, re
  <2>7. CASE Place(b, p) = "null"
    <3> DEFINE lb == GetLine(b, q)
               le == GetLine(e, q)
    <3>1. rb = OfNull(lb) /\ re = OfNull(le)
      BY <1>1, <2>1, <2>7, ParsePlaces
    <3>2. IsResult(lb) /\ IsResult(le) /\ SameOrNeedsMore(lb, le, b)
      BY <2>2, <2>3
    <3> HIDE DEF lb, le, rb, re
    <3>3. Wraps(rb, lb) /\ Wraps(re, le) /\ (le = lb => re = rb)
      BY <3>1, <3>2, OfNullWraps
    <3>4. SameOrNeedsMore(rb, re, b)
      BY <3>2, <3>3, WrapsLocal
    <3> QED BY <3>4 DEF rb, re
  <2>8. CASE Place(b, p) = "bulk"
    <3> DEFINE lb == BulkAt(v, b, q)
               le == BulkAt(v, e, q)
    <3>1. rb = OfBulk(lb) /\ re = OfBulk(le)
      BY <1>1, <2>1, <2>8, ParsePlaces
    <3>2. IsResult(lb) /\ IsResult(le) /\ SameOrNeedsMore(lb, le, b)
      BY <2>2, <2>3
    <3> HIDE DEF lb, le, rb, re
    <3>3. Wraps(rb, lb) /\ Wraps(re, le) /\ (le = lb => re = rb)
      BY <3>1, <3>2, OfBulkWraps
    <3>4. SameOrNeedsMore(rb, re, b)
      BY <3>2, <3>3, WrapsLocal
    <3> QED BY <3>4 DEF rb, re
  <2>9. Place(b, p) \in {"end", "line", "number", "none", "null", "bulk"}
    BY DEF Place
  <2> QED BY <1>3, <2>4, <2>5, <2>6, <2>7, <2>8, <2>9
<1> QED BY <1>2, <1>3

-----------------------------------------------------------------------------
\* The functions check and parse of a buffer, from a place on.
CheckStep(v, b, p, n, f) ==
    IF n = 0 THEN Found(p, <<>>)
    ELSE IF CheckAt(v, b, p).st # "ok" THEN CheckAt(v, b, p)
    ELSE f[CheckAt(v, b, p).pos][n - 1 + IF b[p] = "*" THEN CheckAt(v, b, p).got ELSE 0]
CheckRow(v, b, p, f) == [n \in Nat |-> CheckStep(v, b, p, n, f)]
Checks(v, b, k, f) == f = [p \in k..(Len(b) + 1) |-> CheckRow(v, b, p, f)]

\* A frame and those after it.
Prepend(frame, rest) == [rest EXCEPT !.got = <<frame>> \o @]
ParseStep(v, b, p, n, f) ==
    LET r == ParseAt(v, b, p)
        parts == f[r.pos][r.got.n]
    IN  IF n = 0 THEN Found(p, <<>>)
        ELSE IF r.st # "ok" THEN r
        ELSE IF r.got.kind = "array"
        THEN IF parts.st # "ok" THEN parts
             ELSE Prepend(Array(parts.got), f[parts.pos][n - 1])
        ELSE Prepend(r.got, f[r.pos][n - 1])
ParseRow(v, b, p, f) == [n \in Nat |-> ParseStep(v, b, p, n, f)]
Parses(v, b, k, f) == f = [p \in k..(Len(b) + 1) |-> ParseRow(v, b, p, f)]

CheckFrom(v, b) == CHOOSE f : Checks(v, b, 1, f)
ParseFrom(v, b) == CHOOSE f : Parses(v, b, 1, f)

\* Check and Parse are these functions at the beginning.
LEMMA CheckUnfolds ==
    ASSUME NEW v, NEW b PROVE Check(v, b) = CheckFrom(v, b)[1][1]
BY DEF Check, CheckFrom, Checks, CheckRow, CheckStep

LEMMA ParseUnfolds ==
    ASSUME NEW v, NEW b PROVE Parse(v, b) = ParseFrom(v, b)[1][1]
BY DEF Parse, ParseFrom, Parses, ParseRow, ParseStep, Prepend

\* Induction from the end of a buffer to its beginning.
LEMMA Backwards ==
    ASSUME NEW N \in Nat, NEW Good,
           \A k \in 1..N : (\A j \in k + 1..N : j \in Good) => k \in Good
    PROVE  \A k \in 1..N : k \in Good
<1> DEFINE Bad == {k \in 1..N : k \notin Good}
<1> SUFFICES ASSUME Bad # {} PROVE FALSE
  OBVIOUS
<1>1. Bad \subseteq 0..N
  OBVIOUS
<1>2. PICK k \in Bad : \A j \in Bad : j <= k
  <2> HIDE DEF Bad
  <2> QED BY <1>1, Greatest
<1>3. \A j \in k + 1..N : j \in Good
  BY <1>2
<1> QED BY <1>3

\* The function check exists from the end on backwards.
LEMMA ChecksExtend ==
    ASSUME NEW v, NEW b \in Seq(Octets), NEW k \in 1..Len(b) + 1, NEW f,
           Checks(v, b, k + 1, f)
    PROVE  \E g : Checks(v, b, k, g)
<1> DEFINE g == [p \in k..(Len(b) + 1) |-> IF p = k THEN CheckRow(v, b, k, f) ELSE f[p]]
<1>1. Len(b) \in Nat /\ k \in Nat
  OBVIOUS
<1>2. \A p \in k + 1..(Len(b) + 1) : f[p] = CheckRow(v, b, p, f)
  BY DEF Checks
<1>3. ASSUME NEW p \in k..(Len(b) + 1) PROVE g[p] = CheckRow(v, b, p, f)
  <2>1. p # k => p \in k + 1..(Len(b) + 1)
    BY <1>1
  <2> QED BY <1>2, <2>1
<1>4. \A p \in k + 1..(Len(b) + 1) : g[p] = f[p]
  <2>1. \A p \in k + 1..(Len(b) + 1) : p \in k..(Len(b) + 1)
    BY <1>1
  <2> HIDE DEF g
  <2> QED BY <1>2, <1>3, <2>1
<1>5. ASSUME NEW p \in k..(Len(b) + 1) PROVE CheckRow(v, b, p, f) = CheckRow(v, b, p, g)
  <2>1. CheckAt(v, b, p).st = "ok" => CheckAt(v, b, p).pos \in p + 3..Len(b) + 1
    BY <1>1, CheckAtMoves DEF EndsIn
  <2>2. CheckAt(v, b, p).st = "ok" => CheckAt(v, b, p).pos \in k + 1..Len(b) + 1
    BY <1>1, <2>1
  <2> HIDE DEF g
  <2>3. \A n \in Nat : CheckStep(v, b, p, n, f) = CheckStep(v, b, p, n, g)
    BY <1>4, <2>2 DEF CheckStep
  <2> QED BY <2>3 DEF CheckRow
<1>6. g = [p \in k..(Len(b) + 1) |-> CheckRow(v, b, p, g)]
  <2>1. \A p \in k..(Len(b) + 1) : g[p] = CheckRow(v, b, p, g)
    <3> HIDE DEF g
    <3> QED BY <1>3, <1>5
  <2>2. g = [p \in k..(Len(b) + 1) |-> g[p]]
    OBVIOUS
  <2> HIDE DEF g
  <2> QED BY <2>1, <2>2
<1> HIDE DEF g
<1> QED BY <1>6 DEF Checks

LEMMA ChecksExist ==
    ASSUME NEW v, NEW b \in Seq(Octets)
    PROVE  Checks(v, b, 1, CheckFrom(v, b))
<1> DEFINE Good == {k \in 1..Len(b) + 2 : \E f : Checks(v, b, k, f)}
           N == Len(b) + 2
<1>1. N \in Nat /\ 1 \in 1..N
  OBVIOUS
<1>2. ASSUME NEW k \in 1..N, \A j \in k + 1..N : j \in Good PROVE k \in Good
  <2>1. CASE k = N
    <3>1. Checks(v, b, N, [p \in N..(Len(b) + 1) |-> 0])
      BY DEF Checks
    <3> QED BY <2>1, <3>1
  <2>2. CASE k # N
    <3>1. k \in 1..Len(b) + 1 /\ k + 1 \in k + 1..N
      BY <2>2
    <3>2. PICK f : Checks(v, b, k + 1, f)
      BY <1>2, <3>1
    <3>3. \E g : Checks(v, b, k, g)
      BY <3>1, <3>2, ChecksExtend
    <3> QED BY <3>3
  <2> QED BY <2>1, <2>2
<1>3. 1 \in Good
  <2> HIDE DEF Good, N
  <2> QED BY <1>1, <1>2, Backwards
<1>4. \E f : Checks(v, b, 1, f)
  BY <1>3
<1> QED BY <1>4 DEF CheckFrom

\* A sequence of something.
IsSeq(s) == \E S : s \in Seq(S)

\* A result of parse from p on.
Parsed(r, p, b) == EndsIn(r, p, b) /\ (r.st = "ok" => IsSeq(r.got))

\* Hence check does at each place what its definition says.
LEMMA CheckFromIs ==
    ASSUME NEW v, NEW b \in Seq(Octets)
    PROVE  \A p \in 1..Len(b) + 1 : \A n \in Nat :
              CheckFrom(v, b)[p][n] = CheckStep(v, b, p, n, CheckFrom(v, b))
<1> DEFINE f == CheckFrom(v, b)
<1>1. Checks(v, b, 1, f)
  BY ChecksExist
<1> HIDE DEF f
<1>2. \A p \in 1..(Len(b) + 1) : f[p] = CheckRow(v, b, p, f)
  BY <1>1 DEF Checks
<1>3. \A p \in 1..Len(b) + 1 : \A n \in Nat : f[p][n] = CheckStep(v, b, p, n, f)
  BY <1>2 DEF CheckRow
<1> QED BY <1>3 DEF f

\* check never goes back.
LEMMA CheckMoves ==
    ASSUME NEW v, NEW b \in Seq(Octets)
    PROVE  \A p \in 1..Len(b) + 1 : \A n \in Nat : EndsIn(CheckFrom(v, b)[p][n], p, b)
<1> DEFINE f == CheckFrom(v, b)
           Good == {p \in 1..Len(b) + 1 : \A n \in Nat : EndsIn(f[p][n], p, b)}
           N == Len(b) + 1
<1>1. \A p \in 1..N : \A n \in Nat : f[p][n] = CheckStep(v, b, p, n, f)
  BY CheckFromIs
<1>2. N \in Nat /\ N = Len(b) + 1
  OBVIOUS
<1> HIDE DEF f, N
<1>3. ASSUME NEW p \in 1..N, \A q \in p + 1..N : q \in Good PROVE p \in Good
  <2> SUFFICES ASSUME NEW n \in Nat PROVE EndsIn(f[p][n], p, b)
    BY <1>2
  <2> DEFINE r == CheckAt(v, b, p)
             m == n - 1 + IF b[p] = "*" THEN r.got ELSE 0
  <2>1. f[p][n] = IF n = 0 THEN Found(p, <<>>) ELSE IF r.st # "ok" THEN r ELSE f[r.pos][m]
    BY <1>1 DEF CheckStep
  <2>2. EndsIn(r, p + 3, b) /\ (r.st = "ok" /\ b[p] = "*" => r.got \in Nat)
    BY CheckAtMoves
  <2>3. r.st = "ok" => r.pos \in p + 1..N
    <3> HIDE DEF r
    <3> QED BY <1>2, <2>2 DEF EndsIn
  <2>4. r.st = "ok" /\ n # 0 => m \in Nat
    BY <2>2
  <2> HIDE DEF r, m
  <2>5. r.st = "ok" /\ n # 0 => EndsIn(f[r.pos][m], r.pos, b)
    BY <1>2, <1>3, <2>3, <2>4
  <2>6. CASE n = 0
    <3>1. f[p][n] = Found(p, <<>>)
      BY <2>1, <2>6
    <3>2. EndsIn(Found(p, <<>>), p, b)
      BY <1>2 DEF EndsIn, IsResult, Found
    <3> QED BY <3>1, <3>2
  <2>7. CASE n # 0 /\ r.st # "ok"
    BY <2>1, <2>2, <2>7 DEF EndsIn
  <2>8. CASE n # 0 /\ r.st = "ok"
    <3>1. EndsIn(f[p][n], r.pos, b)
      BY <2>1, <2>5, <2>8
    <3> QED BY <1>2, <2>3, <2>8, <3>1 DEF EndsIn
  <2> QED BY <2>6, <2>7, <2>8
<1>4. \A p \in 1..N : p \in Good
  <2> HIDE DEF Good
  <2> QED BY <1>2, <1>3, Backwards
<1> QED BY <1>2, <1>4 DEF f

-----------------------------------------------------------------------------
LEMMA BeforeIs ==
    ASSUME NEW frame, NEW rest, NEW p, NEW b, Parsed(rest, p, b)
    PROVE  /\ Parsed(Prepend(frame, rest), p, b)
           /\ Prepend(frame, rest) = [st |-> rest.st, pos |-> rest.pos,
                                     got |-> <<frame>> \o rest.got]
<1>1. rest = [st |-> rest.st, pos |-> rest.pos, got |-> rest.got]
  BY DEF Parsed, EndsIn, IsResult
<1>2. Prepend(frame, rest) = [st |-> rest.st, pos |-> rest.pos, got |-> <<frame>> \o rest.got]
  <2> DEFINE w == <<frame>> \o rest.got
  <2>1. Prepend(frame, rest) = [rest EXCEPT !.got = w]
    BY DEF Prepend
  <2> HIDE DEF w
  <2>2. [rest EXCEPT !.got = w] = [st |-> rest.st, pos |-> rest.pos, got |-> w]
    <3>1. PICK s, q, g : rest = [st |-> s, pos |-> q, got |-> g]
      BY <1>1
    <3>2. [rest EXCEPT !.got = w] = [st |-> s, pos |-> q, got |-> w]
      BY <3>1
    <3> QED BY <3>1, <3>2
  <2> QED BY <2>1, <2>2 DEF w
<1>3. ASSUME rest.st = "ok" PROVE IsSeq(<<frame>> \o rest.got)
  <2>1. PICK S : rest.got \in Seq(S)
    BY <1>3 DEF Parsed, IsSeq
  <2> DEFINE T == S \cup {frame}
  <2>2. rest.got \in Seq(T)
    <3>1. S \subseteq T
      OBVIOUS
    <3> HIDE DEF T
    <3> QED BY <2>1, <3>1, SeqMonotonic
  <2>3. <<frame>> \in Seq(T)
    OBVIOUS
  <2> HIDE DEF T
  <2>4. <<frame>> \o rest.got \in Seq(T)
    BY <2>2, <2>3
  <2> QED BY <2>4 DEF IsSeq
<1> QED BY <1>2, <1>3 DEF Parsed, EndsIn, IsResult

\* What parse does at a place, in terms of what it does further on.
LEMMA ParseStepCases ==
    ASSUME NEW v, NEW b \in Seq(Octets), NEW p \in 1..Len(b) + 1, NEW n \in Nat, NEW f,
           \A q \in p + 1..Len(b) + 1 : \A m \in Nat : Parsed(f[q][m], q, b)
    PROVE  LET s == ParseStep(v, b, p, n, f)
               r == ParseAt(v, b, p)
               parts == f[r.pos][r.got.n]
           IN  \/ n = 0 /\ s = Found(p, <<>>)
               \/ n # 0 /\ r.st # "ok" /\ s = r
               \/ /\ n # 0 /\ r.st = "ok" /\ b[p] # "*" /\ n - 1 \in Nat
                  /\ r.pos \in p + 1..Len(b) + 1
                  /\ s = Prepend(r.got, f[r.pos][n - 1])
               \/ /\ n # 0 /\ r.st = "ok" /\ b[p] = "*" /\ r.got.n \in Nat
                  /\ r.pos \in p + 1..Len(b) + 1
                  /\ \/ parts.st # "ok" /\ s = parts
                     \/ /\ parts.st = "ok" /\ parts.pos \in p + 1..Len(b) + 1 /\ n - 1 \in Nat
                        /\ s = Prepend(Array(parts.got), f[parts.pos][n - 1])
<1> DEFINE s == ParseStep(v, b, p, n, f)
           r == ParseAt(v, b, p)
           parts == f[r.pos][r.got.n]
<1>1. Len(b) \in Nat /\ (n # 0 => n - 1 \in Nat)
  OBVIOUS
<1>2. s = IF n = 0 THEN Found(p, <<>>)
          ELSE IF r.st # "ok" THEN r
          ELSE IF r.got.kind = "array"
          THEN IF parts.st # "ok" THEN parts
               ELSE Prepend(Array(parts.got), f[parts.pos][n - 1])
          ELSE Prepend(r.got, f[r.pos][n - 1])
  BY DEF ParseStep
<1>3. /\ EndsIn(r, p + 3, b)
      /\ r.st = "ok" => (r.got.kind = "array" <=> b[p] = "*")
      /\ r.st = "ok" /\ b[p] = "*" => r.got.n \in Nat
  BY ParseAtIs
<1> HIDE DEF s, r
<1>4. r.st = "ok" => r.pos \in p + 1..Len(b) + 1
  BY <1>1, <1>3 DEF EndsIn
<1>5. r.st = "ok" /\ b[p] = "*" => Parsed(parts, r.pos, b)
  BY <1>3, <1>4
<1> HIDE DEF parts
<1>6. r.st = "ok" /\ b[p] = "*" /\ parts.st = "ok" => parts.pos \in p + 1..Len(b) + 1
  BY <1>1, <1>4, <1>5 DEF Parsed, EndsIn
<1>7. CASE n = 0
  BY <1>2, <1>7 DEF s, r, parts
<1>8. CASE n # 0 /\ r.st # "ok"
  BY <1>2, <1>8 DEF s, r, parts
<1>9. CASE n # 0 /\ r.st = "ok" /\ b[p] # "*"
  <2>1. s = Prepend(r.got, f[r.pos][n - 1])
    BY <1>2, <1>3, <1>9
  <2> QED BY <1>1, <1>4, <1>9, <2>1 DEF s, r, parts
<1>10. CASE n # 0 /\ r.st = "ok" /\ b[p] = "*" /\ parts.st # "ok"
  <2>1. s = parts
    BY <1>2, <1>3, <1>10
  <2> QED BY <1>3, <1>4, <1>10, <2>1 DEF s, r, parts
<1>11. CASE n # 0 /\ r.st = "ok" /\ b[p] = "*" /\ parts.st = "ok"
  <2>1. s = Prepend(Array(parts.got), f[parts.pos][n - 1])
    BY <1>2, <1>3, <1>11
  <2> QED BY <1>1, <1>3, <1>4, <1>6, <1>11, <2>1 DEF s, r, parts
<1> QED BY <1>7, <1>8, <1>9, <1>10, <1>11

\* Then its result is one of parse.
LEMMA ParseStepParsed ==
    ASSUME NEW v, NEW b \in Seq(Octets), NEW p \in 1..Len(b) + 1, NEW n \in Nat, NEW f,
           \A q \in p + 1..Len(b) + 1 : \A m \in Nat : Parsed(f[q][m], q, b)
    PROVE  Parsed(ParseStep(v, b, p, n, f), p, b)
<1> DEFINE s == ParseStep(v, b, p, n, f)
           r == ParseAt(v, b, p)
           parts == f[r.pos][r.got.n]
<1>1. Len(b) \in Nat
  OBVIOUS
<1>2. \/ n = 0 /\ s = Found(p, <<>>)
      \/ n # 0 /\ r.st # "ok" /\ s = r
      \/ /\ n # 0 /\ r.st = "ok" /\ b[p] # "*" /\ n - 1 \in Nat
         /\ r.pos \in p + 1..Len(b) + 1
         /\ s = Prepend(r.got, f[r.pos][n - 1])
      \/ /\ n # 0 /\ r.st = "ok" /\ b[p] = "*" /\ r.got.n \in Nat
         /\ r.pos \in p + 1..Len(b) + 1
         /\ \/ parts.st # "ok" /\ s = parts
            \/ /\ parts.st = "ok" /\ parts.pos \in p + 1..Len(b) + 1 /\ n - 1 \in Nat
               /\ s = Prepend(Array(parts.got), f[parts.pos][n - 1])
  BY ParseStepCases
<1>3. EndsIn(r, p + 3, b)
  BY ParseAtIs
<1>4. ASSUME NEW x, NEW q \in p + 1..Len(b) + 1, Parsed(x, q, b) PROVE Parsed(x, p, b)
  BY <1>1, <1>4 DEF Parsed, EndsIn
<1>5. ASSUME NEW frame, NEW q \in p + 1..Len(b) + 1, NEW m \in Nat
      PROVE  Parsed(Prepend(frame, f[q][m]), p, b)
  <2>1. Parsed(Prepend(frame, f[q][m]), q, b)
    BY BeforeIs
  <2> QED BY <1>4, <2>1
<1>6. Parsed(Found(p, <<>>), p, b)
  <2>1. <<>> \in Seq({})
    OBVIOUS
  <2>2. IsSeq(<<>>)
    BY <2>1 DEF IsSeq
  <2> QED BY <1>1, <2>2 DEF Parsed, EndsIn, IsResult, Found
<1>7. r.st # "ok" => Parsed(r, p, b)
  BY <1>3 DEF Parsed, EndsIn
<1> HIDE DEF s, r
<1>8. r.st = "ok" /\ r.pos \in p + 1..Len(b) + 1 /\ r.got.n \in Nat => Parsed(parts, p, b)
  BY <1>4
<1> HIDE DEF parts
<1> QED BY <1>2, <1>5, <1>6, <1>7, <1>8 DEF s

\* It depends only on what is further on.
LEMMA ParseStepSame ==
    ASSUME NEW v, NEW b \in Seq(Octets), NEW p \in 1..Len(b) + 1, NEW n \in Nat, NEW f, NEW g,
           \A q \in p + 1..Len(b) + 1 : \A m \in Nat : Parsed(f[q][m], q, b),
           \A q \in p + 1..Len(b) + 1 : g[q] = f[q]
    PROVE  ParseStep(v, b, p, n, g) = ParseStep(v, b, p, n, f)
<1> DEFINE r == ParseAt(v, b, p)
           parts == f[r.pos][r.got.n]
<1>1. Len(b) \in Nat
  OBVIOUS
<1>2. \A h : ParseStep(v, b, p, n, h) =
          IF n = 0 THEN Found(p, <<>>)
          ELSE IF r.st # "ok" THEN r
          ELSE IF r.got.kind = "array"
          THEN IF h[r.pos][r.got.n].st # "ok" THEN h[r.pos][r.got.n]
               ELSE Prepend(Array(h[r.pos][r.got.n].got), h[h[r.pos][r.got.n].pos][n - 1])
          ELSE Prepend(r.got, h[r.pos][n - 1])
  BY DEF ParseStep
<1>3. /\ EndsIn(r, p + 3, b)
      /\ r.st = "ok" => (r.got.kind = "array" <=> b[p] = "*")
      /\ r.st = "ok" /\ b[p] = "*" => r.got.n \in Nat
  BY ParseAtIs
<1> HIDE DEF r
<1>4. r.st = "ok" => r.pos \in p + 1..Len(b) + 1 /\ g[r.pos] = f[r.pos]
  BY <1>1, <1>3 DEF EndsIn
<1>5. r.st = "ok" /\ b[p] = "*" => Parsed(parts, r.pos, b)
  BY <1>3, <1>4
<1>6. r.st = "ok" => g[r.pos][r.got.n] = parts
  BY <1>4
<1> HIDE DEF parts
<1>7. r.st = "ok" /\ b[p] = "*" /\ parts.st = "ok" =>
          parts.pos \in p + 1..Len(b) + 1 /\ g[parts.pos] = f[parts.pos]
  BY <1>1, <1>4, <1>5 DEF Parsed, EndsIn
<1>8. f[r.pos][r.got.n] = parts
  BY DEF parts
<1>9. CASE n = 0 \/ r.st # "ok"
  BY <1>2, <1>9
<1>10. CASE n # 0 /\ r.st = "ok" /\ r.got.kind # "array"
  BY <1>2, <1>4, <1>10
<1>11. CASE n # 0 /\ r.st = "ok" /\ r.got.kind = "array"
  <2>1. /\ ParseStep(v, b, p, n, f) = IF parts.st # "ok" THEN parts
               ELSE Prepend(Array(parts.got), f[parts.pos][n - 1])
        /\ ParseStep(v, b, p, n, g) = IF parts.st # "ok" THEN parts
               ELSE Prepend(Array(parts.got), g[parts.pos][n - 1])
    BY <1>2, <1>6, <1>8, <1>11
  <2>2. parts.st = "ok" => g[parts.pos] = f[parts.pos]
    BY <1>3, <1>7, <1>11
  <2> QED BY <2>1, <2>2
<1> QED BY <1>9, <1>10, <1>11

\* f is the function parse from k on, and its results are those of parse.
ParsesFrom(v, b, k, f) ==
    /\ Parses(v, b, k, f)
    /\ \A p \in k..(Len(b) + 1) : \A n \in Nat : Parsed(f[p][n], p, b)

\* The function parse exists from the end on backwards: with the bounds, as
\* what follows an array is read where its parts end.
LEMMA ParsesExtend ==
    ASSUME NEW v, NEW b \in Seq(Octets), NEW k \in 1..Len(b) + 1, NEW f,
           ParsesFrom(v, b, k + 1, f)
    PROVE  \E g : ParsesFrom(v, b, k, g)
<1> DEFINE g == [p \in k..(Len(b) + 1) |-> IF p = k THEN ParseRow(v, b, k, f) ELSE f[p]]
<1>1. Len(b) \in Nat /\ k \in Nat
  OBVIOUS
<1>2. /\ \A p \in k + 1..(Len(b) + 1) : f[p] = ParseRow(v, b, p, f)
      /\ \A p \in k + 1..(Len(b) + 1) : \A n \in Nat : Parsed(f[p][n], p, b)
  BY DEF ParsesFrom, Parses
<1>3. ASSUME NEW p \in k..(Len(b) + 1) PROVE g[p] = ParseRow(v, b, p, f)
  <2>1. p # k => p \in k + 1..(Len(b) + 1)
    BY <1>1
  <2> QED BY <1>2, <2>1
<1>4. \A p \in k + 1..(Len(b) + 1) : g[p] = f[p]
  <2>1. \A p \in k + 1..(Len(b) + 1) : p \in k..(Len(b) + 1)
    BY <1>1
  <2> HIDE DEF g
  <2> QED BY <1>2, <1>3, <2>1
<1> HIDE DEF g
<1>5. ASSUME NEW p \in k..(Len(b) + 1)
      PROVE  /\ p \in 1..Len(b) + 1
             /\ \A q \in p + 1..Len(b) + 1 : \A m \in Nat : Parsed(f[q][m], q, b)
             /\ \A q \in p + 1..Len(b) + 1 : g[q] = f[q]
  <2>1. \A q \in p + 1..Len(b) + 1 : q \in k + 1..(Len(b) + 1)
    BY <1>1
  <2>2. p \in 1..Len(b) + 1
    BY <1>1
  <2> QED BY <1>2, <1>4, <2>1, <2>2
<1>6. ASSUME NEW p \in k..(Len(b) + 1)
      PROVE  /\ ParseRow(v, b, p, g) = ParseRow(v, b, p, f)
             /\ \A n \in Nat : Parsed(ParseRow(v, b, p, f)[n], p, b)
  <2>1. \A n \in Nat : ParseStep(v, b, p, n, g) = ParseStep(v, b, p, n, f)
    BY <1>5, ParseStepSame
  <2>2. \A n \in Nat : Parsed(ParseStep(v, b, p, n, f), p, b)
    BY <1>5, ParseStepParsed
  <2> QED BY <2>1, <2>2 DEF ParseRow
<1>7. g = [p \in k..(Len(b) + 1) |-> ParseRow(v, b, p, g)]
  <2>1. \A p \in k..(Len(b) + 1) : g[p] = ParseRow(v, b, p, g)
    BY <1>3, <1>6
  <2>2. g = [p \in k..(Len(b) + 1) |-> g[p]]
    BY DEF g
  <2> QED BY <2>1, <2>2
<1>8. \A p \in k..(Len(b) + 1) : \A n \in Nat : Parsed(g[p][n], p, b)
  BY <1>3, <1>6
<1> QED BY <1>7, <1>8 DEF ParsesFrom, Parses

LEMMA ParsesExist ==
    ASSUME NEW v, NEW b \in Seq(Octets)
    PROVE  Parses(v, b, 1, ParseFrom(v, b))
<1> DEFINE Good == {k \in 1..Len(b) + 2 : \E f : ParsesFrom(v, b, k, f)}
           N == Len(b) + 2
<1>1. N \in Nat /\ 1 \in 1..N
  OBVIOUS
<1>2. ASSUME NEW k \in 1..N, \A j \in k + 1..N : j \in Good PROVE k \in Good
  <2>1. CASE k = N
    <3>1. ParsesFrom(v, b, N, [p \in N..(Len(b) + 1) |-> 0])
      <4>1. N..(Len(b) + 1) = {}
        OBVIOUS
      <4> QED BY <4>1 DEF Parses, ParsesFrom
    <3> QED BY <2>1, <3>1
  <2>2. CASE k # N
    <3>1. k \in 1..Len(b) + 1 /\ k + 1 \in k + 1..N
      BY <2>2
    <3>2. PICK f : ParsesFrom(v, b, k + 1, f)
      BY <1>2, <3>1
    <3>3. \E g : ParsesFrom(v, b, k, g)
      BY <3>1, <3>2, ParsesExtend
    <3> QED BY <3>3
  <2> QED BY <2>1, <2>2
<1>3. 1 \in Good
  <2> HIDE DEF Good, N
  <2> QED BY <1>1, <1>2, Backwards
<1>4. \E f : ParsesFrom(v, b, 1, f)
  BY <1>3
<1>5. \E f : Parses(v, b, 1, f)
  BY <1>4 DEF ParsesFrom
<1> QED BY <1>5 DEF ParseFrom

\* Hence parse does at each place what its definition says.
LEMMA ParseFromIs ==
    ASSUME NEW v, NEW b \in Seq(Octets)
    PROVE  \A p \in 1..Len(b) + 1 : \A n \in Nat :
              /\ ParseFrom(v, b)[p][n] = ParseStep(v, b, p, n, ParseFrom(v, b))
              /\ Parsed(ParseFrom(v, b)[p][n], p, b)
<1> DEFINE f == ParseFrom(v, b)
           Good == {p \in 1..Len(b) + 1 : \A n \in Nat : Parsed(f[p][n], p, b)}
           N == Len(b) + 1
<1>1. Parses(v, b, 1, f)
  BY ParsesExist
<1>2. N \in Nat /\ N = Len(b) + 1
  OBVIOUS
<1> HIDE DEF f
<1>3. \A p \in 1..(Len(b) + 1) : f[p] = ParseRow(v, b, p, f)
  BY <1>1 DEF Parses
<1>4. \A p \in 1..Len(b) + 1 : \A n \in Nat : f[p][n] = ParseStep(v, b, p, n, f)
  BY <1>3 DEF ParseRow
<1> HIDE DEF N
<1>5. ASSUME NEW p \in 1..N, \A q \in p + 1..N : q \in Good PROVE p \in Good
  <2>1. \A n \in Nat : Parsed(ParseStep(v, b, p, n, f), p, b)
    <3>1. p \in 1..Len(b) + 1
      BY <1>2
    <3>2. \A q \in p + 1..Len(b) + 1 : \A m \in Nat : Parsed(f[q][m], q, b)
      BY <1>2, <1>5
    <3> QED BY <3>1, <3>2, ParseStepParsed
  <2> QED BY <1>2, <1>4, <2>1
<1>6. \A p \in 1..N : p \in Good
  <2> HIDE DEF Good
  <2> QED BY <1>2, <1>5, Backwards
<1> QED BY <1>2, <1>4, <1>6 DEF f

\* What check counts for the frames that parse reads, and for m more.
LEMMA CountsMore ==
    ASSUME NEW v, NEW b \in Seq(Octets)
    PROVE  \A p \in 1..Len(b) + 1 : \A n, m \in Nat :
              ParseFrom(v, b)[p][n].st = "ok" =>
                  CheckFrom(v, b)[p][n + m] = CheckFrom(v, b)[ParseFrom(v, b)[p][n].pos][m]
<1> DEFINE f == ParseFrom(v, b)
           c == CheckFrom(v, b)
           N == Len(b) + 1
           Good == {p \in 1..Len(b) + 1 : \A n, m \in Nat :
                      f[p][n].st = "ok" => c[p][n + m] = c[f[p][n].pos][m]}
<1>1. N \in Nat /\ N = Len(b) + 1
  OBVIOUS
<1>2. /\ \A p \in 1..N : \A n \in Nat : c[p][n] = CheckStep(v, b, p, n, c)
      /\ \A p \in 1..N : \A n \in Nat : f[p][n] = ParseStep(v, b, p, n, f)
      /\ \A p \in 1..N : \A n \in Nat : Parsed(f[p][n], p, b)
  BY CheckFromIs, ParseFromIs
<1> HIDE DEF f, c, N
<1>3. ASSUME NEW p \in 1..N, \A q \in p + 1..N : q \in Good PROVE p \in Good
  <2> SUFFICES ASSUME NEW n \in Nat, NEW m \in Nat, f[p][n].st = "ok"
               PROVE  c[p][n + m] = c[f[p][n].pos][m]
    BY <1>1
  <2> DEFINE s == f[p][n]
             r == ParseAt(v, b, p)
             k == CheckAt(v, b, p)
             parts == f[r.pos][r.got.n]
  <2>1. p \in 1..Len(b) + 1 /\ \A q \in p + 1..Len(b) + 1 : \A i \in Nat : Parsed(f[q][i], q, b)
    BY <1>1, <1>2
  <2>2. \/ n = 0 /\ s = Found(p, <<>>)
        \/ n # 0 /\ r.st # "ok" /\ s = r
        \/ /\ n # 0 /\ r.st = "ok" /\ b[p] # "*" /\ n - 1 \in Nat
           /\ r.pos \in p + 1..Len(b) + 1
           /\ s = Prepend(r.got, f[r.pos][n - 1])
        \/ /\ n # 0 /\ r.st = "ok" /\ b[p] = "*" /\ r.got.n \in Nat
           /\ r.pos \in p + 1..Len(b) + 1
           /\ \/ parts.st # "ok" /\ s = parts
              \/ /\ parts.st = "ok" /\ parts.pos \in p + 1..Len(b) + 1 /\ n - 1 \in Nat
                 /\ s = Prepend(Array(parts.got), f[parts.pos][n - 1])
    BY <1>2, <2>1, ParseStepCases
  <2>3. r.st = "ok" => /\ k.st = "ok" /\ k.pos = r.pos
                       /\ b[p] = "*" => k.got = r.got.n
    BY <2>1, ParseAtIs
  <2>4. n + m \in Nat /\ c[p][n + m] = IF n + m = 0 THEN Found(p, <<>>)
              ELSE IF k.st # "ok" THEN k
              ELSE c[k.pos][n + m - 1 + IF b[p] = "*" THEN k.got ELSE 0]
    <3>1. n + m \in Nat
      OBVIOUS
    <3> QED BY <1>2, <3>1 DEF CheckStep
  <2>5. \A q \in p + 1..Len(b) + 1 : \A i, j \in Nat :
            f[q][i].st = "ok" => c[q][i + j] = c[f[q][i].pos][j]
    BY <1>1, <1>3
  <2>6. ASSUME NEW q \in p + 1..Len(b) + 1, NEW frame, n - 1 \in Nat,
               s = Prepend(frame, f[q][n - 1])
        PROVE  c[q][(n - 1) + m] = c[s.pos][m]
    <3>1. Parsed(f[q][n - 1], q, b)
      BY <2>1, <2>6
    <3>2. s.st = f[q][n - 1].st /\ s.pos = f[q][n - 1].pos
      <4> HIDE DEF s
      <4>1. s = [st |-> f[q][n - 1].st, pos |-> f[q][n - 1].pos,
                 got |-> <<frame>> \o f[q][n - 1].got]
        BY <2>6, <3>1, BeforeIs
      <4> QED BY <4>1
    <3> QED BY <2>5, <2>6, <3>2
  <2> HIDE DEF s, r, k, parts
  <2>7. CASE n = 0
    BY <2>2, <2>7 DEF Found, s
  <2>8. CASE n # 0 /\ r.st # "ok"
    BY <2>2, <2>8 DEF s
  <2>9. CASE n # 0 /\ r.st = "ok" /\ b[p] # "*"
    <3>1. c[r.pos][(n - 1) + m] = c[s.pos][m]
      BY <2>2, <2>6, <2>9
    <3>2. c[p][n + m] = c[r.pos][n + m - 1 + 0]
      BY <2>3, <2>4, <2>9
    <3>3. n + m - 1 + 0 = (n - 1) + m
      OBVIOUS
    <3> QED BY <3>1, <3>2, <3>3 DEF s
  <2>10. CASE n # 0 /\ r.st = "ok" /\ b[p] = "*"
    <3>1. /\ r.got.n \in Nat /\ r.pos \in p + 1..Len(b) + 1 /\ n - 1 \in Nat
          /\ parts.st = "ok" /\ parts.pos \in p + 1..Len(b) + 1
          /\ s = Prepend(Array(parts.got), f[parts.pos][n - 1])
      <4>1. parts.st = "ok"
        BY <2>2, <2>10, BeforeIs DEF s
      <4> QED BY <2>2, <2>10, <4>1
    <3>2. c[parts.pos][(n - 1) + m] = c[s.pos][m]
      BY <2>6, <3>1
    <3>3. c[r.pos][r.got.n + ((n - 1) + m)] = c[parts.pos][(n - 1) + m]
      <4>1. (n - 1) + m \in Nat
        BY <3>1
      <4>2. f[r.pos][r.got.n] = parts
        BY DEF parts
      <4>3. \A i, j \in Nat : f[r.pos][i].st = "ok" =>
                c[r.pos][i + j] = c[f[r.pos][i].pos][j]
        BY <2>5, <3>1
      <4> DEFINE j == (n - 1) + m
      <4> HIDE DEF j
      <4>4. j \in Nat
        BY <4>1 DEF j
      <4>5. c[r.pos][r.got.n + j] = c[parts.pos][j]
        BY <3>1, <4>2, <4>3, <4>4
      <4> QED BY <4>5 DEF j
    <3>4. c[p][n + m] = c[r.pos][n + m - 1 + r.got.n]
      BY <2>3, <2>4, <2>10
    <3>5. n + m - 1 + r.got.n = r.got.n + ((n - 1) + m)
      BY <3>1
    <3> QED BY <3>2, <3>3, <3>4, <3>5 DEF s
  <2> QED BY <2>7, <2>8, <2>9, <2>10
<1>4. \A p \in 1..N : p \in Good
  <2> HIDE DEF Good
  <2> QED BY <1>1, <1>3, Backwards
<1> QED BY <1>1, <1>4 DEF f, c

\* What check and parse give is the same for a longer buffer, or they need more.
LEMMA CheckLocal ==
    ASSUME NEW v, NEW b \in Seq(Octets), NEW e \in Seq(Octets), Extends(b, e)
    PROVE  \A p \in 1..Len(b) + 1 : \A n \in Nat :
              SameOrNeedsMore(CheckFrom(v, b)[p][n], CheckFrom(v, e)[p][n], b)
<1> DEFINE cb == CheckFrom(v, b)
           ce == CheckFrom(v, e)
           N == Len(b) + 1
           Good == {p \in 1..Len(b) + 1 : \A n \in Nat : SameOrNeedsMore(cb[p][n], ce[p][n], b)}
<1>1. N \in Nat /\ N = Len(b) + 1 /\ N <= Len(e) + 1 /\ Len(e) \in Nat
  BY DEF Extends
<1>2. /\ \A p \in 1..Len(b) + 1 : \A n \in Nat : cb[p][n] = CheckStep(v, b, p, n, cb)
      /\ \A p \in 1..Len(e) + 1 : \A n \in Nat : ce[p][n] = CheckStep(v, e, p, n, ce)
      /\ \A p \in 1..Len(e) + 1 : \A n \in Nat : EndsIn(ce[p][n], p, e)
  BY CheckFromIs, CheckMoves
<1> HIDE DEF cb, ce, N
<1>3. ASSUME NEW p \in 1..N, \A q \in p + 1..N : q \in Good PROVE p \in Good
  <2> SUFFICES ASSUME NEW n \in Nat PROVE SameOrNeedsMore(cb[p][n], ce[p][n], b)
    BY <1>1
  <2> DEFINE rb == CheckAt(v, b, p)
             re == CheckAt(v, e, p)
             mb == n - 1 + IF b[p] = "*" THEN rb.got ELSE 0
             me == n - 1 + IF e[p] = "*" THEN re.got ELSE 0
  <2>1. p \in 1..Len(b) + 1 /\ p \in 1..Len(e) + 1
    BY <1>1
  <2>2. /\ cb[p][n] = IF n = 0 THEN Found(p, <<>>) ELSE IF rb.st # "ok" THEN rb ELSE cb[rb.pos][mb]
        /\ ce[p][n] = IF n = 0 THEN Found(p, <<>>) ELSE IF re.st # "ok" THEN re ELSE ce[re.pos][me]
    BY <1>2, <2>1 DEF CheckStep
  <2>3. /\ EndsIn(rb, p + 3, b) /\ (rb.st = "ok" /\ b[p] = "*" => rb.got \in Nat)
        /\ EndsIn(re, p + 3, e) /\ (re.st = "ok" /\ e[p] = "*" => re.got \in Nat)
    BY <2>1, CheckAtMoves
  <2>4. SameOrNeedsMore(rb, re, b)
    BY <2>1, CheckAtLocal
  <2>5. /\ rb.st = "ok" /\ n # 0 => mb \in Nat
        /\ re.st = "ok" /\ n # 0 => me \in Nat
    BY <2>3
  <2>6. re = rb /\ b[p] = e[p] => me = mb
    OBVIOUS
  <2> HIDE DEF rb, re, mb, me
  <2>7. /\ rb.st = "ok" => rb.pos \in p + 1..Len(b) + 1 /\ p \in 1..Len(b)
        /\ re.st = "ok" => re.pos \in p + 1..Len(e) + 1
    BY <1>1, <2>1, <2>3 DEF EndsIn
  <2>8. CASE n = 0
    BY <2>2, <2>8 DEF SameOrNeedsMore
  <2>9. CASE n # 0 /\ re = rb /\ rb.st # "ok"
    BY <2>2, <2>9 DEF SameOrNeedsMore
  <2>10. CASE n # 0 /\ re = rb /\ rb.st = "ok"
    <3>1. b[p] = e[p]
      BY <2>7, <2>10 DEF Extends
    <3>2. cb[p][n] = cb[rb.pos][mb] /\ ce[p][n] = ce[rb.pos][mb]
      BY <2>2, <2>6, <2>10, <3>1
    <3>3. rb.pos \in Good /\ mb \in Nat
      BY <1>1, <1>3, <2>5, <2>7, <2>10
    <3> QED BY <3>2, <3>3
  <2>11. CASE n # 0 /\ re # rb /\ re.st # "ok"
    <3>1. rb.st = "incomplete"
      BY <2>4, <2>11 DEF SameOrNeedsMore
    <3> QED BY <2>2, <2>11, <3>1 DEF SameOrNeedsMore
  <2>12. CASE n # 0 /\ re # rb /\ re.st = "ok"
    <3>1. rb.st = "incomplete" /\ re.pos > Len(b) + 1
      BY <2>4, <2>12 DEF SameOrNeedsMore
    <3>2. cb[p][n] = rb /\ ce[p][n] = ce[re.pos][me]
      BY <2>2, <2>12, <3>1
    <3>3. EndsIn(ce[re.pos][me], re.pos, e)
      BY <1>2, <2>1, <2>5, <2>7, <2>12
    <3>4. ce[p][n].st = "ok" => ce[p][n].pos > Len(b) + 1
      BY <1>1, <2>7, <2>12, <3>1, <3>2, <3>3 DEF EndsIn
    <3> QED BY <3>1, <3>2, <3>4 DEF SameOrNeedsMore
  <2> QED BY <2>8, <2>9, <2>10, <2>11, <2>12
<1>4. \A p \in 1..N : p \in Good
  <2> HIDE DEF Good
  <2> QED BY <1>1, <1>3, Backwards
<1> QED BY <1>1, <1>4 DEF cb, ce

LEMMA BeforeLocal ==
    ASSUME NEW x, NEW y, NEW b, NEW e, NEW p, NEW q, Parsed(x, p, b), Parsed(y, q, e),
           SameOrNeedsMore(x, y, b), NEW frame
    PROVE  SameOrNeedsMore(Prepend(frame, x), Prepend(frame, y), b)
<1>1. /\ Prepend(frame, x) = [st |-> x.st, pos |-> x.pos, got |-> <<frame>> \o x.got]
      /\ Prepend(frame, y) = [st |-> y.st, pos |-> y.pos, got |-> <<frame>> \o y.got]
  BY BeforeIs
<1>2. /\ Prepend(frame, x).st = x.st
      /\ Prepend(frame, y).st = y.st /\ Prepend(frame, y).pos = y.pos
  BY <1>1
<1>3. x = y => Prepend(frame, x) = Prepend(frame, y)
  OBVIOUS
<1> QED BY <1>2, <1>3 DEF SameOrNeedsMore

LEMMA ParseLocal ==
    ASSUME NEW v, NEW b \in Seq(Octets), NEW e \in Seq(Octets), Extends(b, e)
    PROVE  \A p \in 1..Len(b) + 1 : \A n \in Nat :
              SameOrNeedsMore(ParseFrom(v, b)[p][n], ParseFrom(v, e)[p][n], b)
<1> DEFINE fb == ParseFrom(v, b)
           fe == ParseFrom(v, e)
           N == Len(b) + 1
           Good == {p \in 1..Len(b) + 1 : \A n \in Nat : SameOrNeedsMore(fb[p][n], fe[p][n], b)}
<1>1. N \in Nat /\ N = Len(b) + 1 /\ N <= Len(e) + 1 /\ Len(e) \in Nat
  BY DEF Extends
<1>2. /\ \A p \in 1..Len(b) + 1 : \A n \in Nat : fb[p][n] = ParseStep(v, b, p, n, fb)
      /\ \A p \in 1..Len(b) + 1 : \A n \in Nat : Parsed(fb[p][n], p, b)
      /\ \A p \in 1..Len(e) + 1 : \A n \in Nat : fe[p][n] = ParseStep(v, e, p, n, fe)
      /\ \A p \in 1..Len(e) + 1 : \A n \in Nat : Parsed(fe[p][n], p, e)
  BY ParseFromIs
<1> HIDE DEF fb, fe, N
<1>3. ASSUME NEW p \in 1..N, \A q \in p + 1..N : q \in Good PROVE p \in Good
  <2> SUFFICES ASSUME NEW n \in Nat PROVE SameOrNeedsMore(fb[p][n], fe[p][n], b)
    BY <1>1
  <2> DEFINE sb == fb[p][n]
             se == fe[p][n]
             rb == ParseAt(v, b, p)
             re == ParseAt(v, e, p)
             pb == fb[rb.pos][rb.got.n]
             pe == fe[re.pos][re.got.n]
  <2>1. /\ p \in 1..Len(b) + 1 /\ p \in 1..Len(e) + 1
        /\ \A q \in p + 1..Len(b) + 1 : \A i \in Nat : Parsed(fb[q][i], q, b)
        /\ \A q \in p + 1..Len(e) + 1 : \A i \in Nat : Parsed(fe[q][i], q, e)
        /\ \A q \in p + 1..Len(b) + 1 : q \in 1..Len(e) + 1 /\ q \in p + 1..Len(e) + 1
    BY <1>1, <1>2
  <2>0. sb = ParseStep(v, b, p, n, fb) /\ se = ParseStep(v, e, p, n, fe)
    BY <1>2, <2>1
  <2>2. \/ n = 0 /\ sb = Found(p, <<>>)
        \/ n # 0 /\ rb.st # "ok" /\ sb = rb
        \/ /\ n # 0 /\ rb.st = "ok" /\ b[p] # "*" /\ n - 1 \in Nat
           /\ rb.pos \in p + 1..Len(b) + 1
           /\ sb = Prepend(rb.got, fb[rb.pos][n - 1])
        \/ /\ n # 0 /\ rb.st = "ok" /\ b[p] = "*" /\ rb.got.n \in Nat
           /\ rb.pos \in p + 1..Len(b) + 1
           /\ \/ pb.st # "ok" /\ sb = pb
              \/ /\ pb.st = "ok" /\ pb.pos \in p + 1..Len(b) + 1 /\ n - 1 \in Nat
                 /\ sb = Prepend(Array(pb.got), fb[pb.pos][n - 1])
    BY <2>0, <2>1, ParseStepCases
  <2>3. \/ n = 0 /\ se = Found(p, <<>>)
        \/ n # 0 /\ re.st # "ok" /\ se = re
        \/ /\ n # 0 /\ re.st = "ok" /\ e[p] # "*" /\ n - 1 \in Nat
           /\ re.pos \in p + 1..Len(e) + 1
           /\ se = Prepend(re.got, fe[re.pos][n - 1])
        \/ /\ n # 0 /\ re.st = "ok" /\ e[p] = "*" /\ re.got.n \in Nat
           /\ re.pos \in p + 1..Len(e) + 1
           /\ \/ pe.st # "ok" /\ se = pe
              \/ /\ pe.st = "ok" /\ pe.pos \in p + 1..Len(e) + 1 /\ n - 1 \in Nat
                 /\ se = Prepend(Array(pe.got), fe[pe.pos][n - 1])
    BY <2>0, <2>1, ParseStepCases
  <2>4. SameOrNeedsMore(rb, re, b) /\ EndsIn(rb, p + 3, b)
    BY <2>1, ParseAtLocal, ParseAtIs
  <2>5. pb = fb[rb.pos][rb.got.n] /\ pe = fe[re.pos][re.got.n]
    OBVIOUS
  <2>6. \A q \in p + 1..Len(b) + 1 : \A i \in Nat :
            Parsed(fb[q][i], q, b) /\ Parsed(fe[q][i], q, e) /\ SameOrNeedsMore(fb[q][i], fe[q][i], b)
    BY <1>1, <1>3, <2>1
  <2>7. \A frame : \A q \in p + 1..Len(b) + 1 : \A i \in Nat :
            SameOrNeedsMore(Prepend(frame, fb[q][i]), Prepend(frame, fe[q][i]), b)
    BY <2>6, BeforeLocal, Zenon
  <2>8. ASSUME NEW frame, NEW q \in p + 1..Len(e) + 1, NEW i \in Nat, q > Len(b) + 1,
               Prepend(frame, fe[q][i]).st = "ok"
        PROVE  Prepend(frame, fe[q][i]).pos > Len(b) + 1
    <3>1. Parsed(Prepend(frame, fe[q][i]), q, e)
      BY <2>1, BeforeIs
    <3> DEFINE w == Prepend(frame, fe[q][i])
    <3>2. w.pos \in q..Len(e) + 1
      <4> HIDE DEF w
      <4> QED BY <2>8, <3>1 DEF Parsed, EndsIn, w
    <3> HIDE DEF w
    <3>3. w.pos > Len(b) + 1
      BY <1>1, <2>8, <3>2
    <3> QED BY <3>3 DEF w
  <2>9. sb = fb[p][n] /\ se = fe[p][n]
    OBVIOUS
  <2> HIDE DEF sb, se, rb, re, pb, pe
  <2>10. rb.st = "ok" => p \in 1..Len(b)
    BY <1>1, <2>1, <2>4 DEF EndsIn
  <2>11. CASE n = 0
    BY <2>2, <2>3, <2>9, <2>11 DEF SameOrNeedsMore
  <2>12. CASE n # 0 /\ re = rb /\ rb.st # "ok"
    BY <2>2, <2>3, <2>9, <2>12 DEF SameOrNeedsMore
  <2>13. CASE n # 0 /\ re = rb /\ rb.st = "ok"
    <3>1. b[p] = e[p]
      BY <2>10, <2>13 DEF Extends
    <3>2. CASE b[p] # "*"
      <4>1. /\ n - 1 \in Nat /\ rb.pos \in p + 1..Len(b) + 1
            /\ sb = Prepend(rb.got, fb[rb.pos][n - 1])
            /\ se = Prepend(rb.got, fe[rb.pos][n - 1])
        BY <2>2, <2>3, <2>13, <3>1, <3>2
      <4> QED BY <2>7, <2>9, <4>1
    <3>3. CASE b[p] = "*"
      <4>1. /\ rb.got.n \in Nat /\ rb.pos \in p + 1..Len(b) + 1
            /\ \/ pb.st # "ok" /\ sb = pb
               \/ /\ pb.st = "ok" /\ pb.pos \in p + 1..Len(b) + 1 /\ n - 1 \in Nat
                  /\ sb = Prepend(Array(pb.got), fb[pb.pos][n - 1])
            /\ \/ pe.st # "ok" /\ se = pe
               \/ /\ pe.st = "ok" /\ pe.pos \in p + 1..Len(e) + 1 /\ n - 1 \in Nat
                  /\ se = Prepend(Array(pe.got), fe[pe.pos][n - 1])
        BY <2>2, <2>3, <2>13, <3>1, <3>3
      <4>2. SameOrNeedsMore(pb, pe, b)
        BY <2>5, <2>6, <2>13, <4>1
      <4>3. CASE pe = pb
        <5>1. CASE pb.st # "ok"
          BY <2>9, <4>1, <4>3, <5>1 DEF SameOrNeedsMore
        <5>2. CASE pb.st = "ok"
          BY <2>7, <2>9, <4>1, <4>3, <5>2
        <5> QED BY <5>1, <5>2
      <4>4. CASE pe # pb
        <5>1. pb.st = "incomplete" /\ (pe.st = "ok" => pe.pos > Len(b) + 1)
          BY <4>2, <4>4 DEF SameOrNeedsMore
        <5>2. sb.st = "incomplete"
          BY <4>1, <5>1
        <5>3. se.st = "ok" => se.pos > Len(b) + 1
          BY <2>8, <4>1, <5>1
        <5> QED BY <2>9, <5>2, <5>3 DEF SameOrNeedsMore
      <4> QED BY <4>3, <4>4
    <3> QED BY <3>2, <3>3
  <2>14. CASE n # 0 /\ re # rb
    <3>1. rb.st = "incomplete" /\ (re.st = "ok" => re.pos > Len(b) + 1)
      BY <2>4, <2>14 DEF SameOrNeedsMore
    <3>2. sb.st = "incomplete"
      BY <2>2, <2>14, <3>1
    <3>3. CASE re.st # "ok"
      BY <2>3, <2>9, <2>14, <3>2, <3>3 DEF SameOrNeedsMore
    <3>4. CASE re.st = "ok" /\ e[p] # "*"
      <4>1. se.st = "ok" => se.pos > Len(b) + 1
        BY <2>3, <2>8, <2>14, <3>1, <3>4
      <4> QED BY <2>9, <3>2, <4>1 DEF SameOrNeedsMore
    <3>5. CASE re.st = "ok" /\ e[p] = "*"
      <4>1. Parsed(pe, re.pos, e)
        BY <2>1, <2>3, <2>5, <2>14, <3>5
      <4>2. pe.st = "ok" => pe.pos > Len(b) + 1
        <5>1. re.pos \in p + 1..Len(e) + 1
          BY <2>3, <2>14, <3>5
        <5> QED BY <1>1, <3>1, <3>5, <4>1, <5>1 DEF Parsed, EndsIn
      <4>3. se.st = "ok" => se.pos > Len(b) + 1
        BY <2>3, <2>8, <2>14, <3>5, <4>2
      <4> QED BY <2>9, <3>2, <4>3 DEF SameOrNeedsMore
    <3> QED BY <3>3, <3>4, <3>5
  <2> QED BY <2>11, <2>12, <2>13, <2>14
<1>4. \A p \in 1..N : p \in Good
  <2> HIDE DEF Good
  <2> QED BY <1>1, <1>3, Backwards
<1> QED BY <1>1, <1>4 DEF fb, fe

\* One check and one parse: more than nothing is read.
LEMMA CheckIs ==
    ASSUME NEW v, NEW b \in Seq(Octets)
    PROVE  /\ EndsIn(Check(v, b), 4, b)
           /\ b = <<>> => Check(v, b).st # "ok" /\ Check(v, b).st # "invalid"
<1> DEFINE f == CheckFrom(v, b)
           r == CheckAt(v, b, 1)
           m == 1 - 1 + IF b[1] = "*" THEN r.got ELSE 0
<1>1. Len(b) \in Nat /\ 1 \in 1..Len(b) + 1 /\ 1 \in Nat
  OBVIOUS
<1>2. f[1][1] = IF r.st # "ok" THEN r ELSE f[r.pos][m]
  <2>1. f[1][1] = CheckStep(v, b, 1, 1, f)
    BY <1>1, CheckFromIs
  <2> QED BY <2>1 DEF CheckStep
<1>3. EndsIn(r, 4, b) /\ (r.st = "ok" /\ b[1] = "*" => r.got \in Nat)
  <2>1. 1 \in Nat \ {0} /\ 1 + 3 = 4
    OBVIOUS
  <2> QED BY <2>1, CheckAtMoves
<1>4. r.st = "ok" => m \in Nat
  BY <1>3
<1>5. b = <<>> => r = Incomplete
  <2>1. b = <<>> => Len(b) = 0
    OBVIOUS
  <2> QED BY <2>1 DEF CheckAt
<1>6. Check(v, b) = f[1][1]
  BY CheckUnfolds
<1>7. \A p \in 1..Len(b) + 1 : \A n \in Nat : EndsIn(f[p][n], p, b)
  BY CheckMoves
<1> HIDE DEF f, r, m
<1>8. CASE r.st # "ok"
  BY <1>2, <1>3, <1>5, <1>6, <1>8 DEF EndsIn, Incomplete, Stops
<1>9. CASE r.st = "ok"
  <2>1. r.pos \in 4..Len(b) + 1
    BY <1>3, <1>9 DEF EndsIn
  <2>2. r.pos \in 1..Len(b) + 1
    BY <1>1, <2>1
  <2>3. EndsIn(f[r.pos][m], r.pos, b)
    BY <1>4, <1>7, <1>9, <2>2
  <2>4. EndsIn(f[r.pos][m], 4, b)
    BY <1>1, <2>1, <2>3 DEF EndsIn
  <2>5. b # <<>>
    BY <1>5, <1>9 DEF Incomplete, Stops
  <2> QED BY <1>2, <1>6, <1>9, <2>4, <2>5
<1> QED BY <1>8, <1>9

\* check counts what parse reads.
LEMMA ParseIs ==
    ASSUME NEW v, NEW b \in Seq(Octets)
    PROVE  /\ Parsed(Parse(v, b), 1, b)
           /\ Parse(v, b).st = "ok" => Check(v, b).st = "ok" /\ Check(v, b).pos = Parse(v, b).pos
<1> DEFINE f == ParseFrom(v, b)
           c == CheckFrom(v, b)
<1>1. Len(b) \in Nat /\ 1 \in 1..Len(b) + 1 /\ 1 \in Nat /\ 0 \in Nat /\ 1 + 0 = 1
  OBVIOUS
<1>2. Parse(v, b) = f[1][1] /\ Check(v, b) = c[1][1]
  BY CheckUnfolds, ParseUnfolds
<1>3. Parsed(f[1][1], 1, b)
  BY <1>1, ParseFromIs
<1>4. f[1][1].st = "ok" => c[1][1 + 0] = c[f[1][1].pos][0]
  BY <1>1, CountsMore
<1>5. \A p \in 1..Len(b) + 1 : c[p][0] = Found(p, <<>>)
  BY <1>1, CheckFromIs DEF CheckStep
<1> HIDE DEF f, c
<1>6. f[1][1].st = "ok" => f[1][1].pos \in 1..Len(b) + 1
  BY <1>3 DEF Parsed, EndsIn
<1>7. f[1][1].st = "ok" => c[1][1] = Found(f[1][1].pos, <<>>)
  BY <1>1, <1>4, <1>5, <1>6
<1> QED BY <1>2, <1>3, <1>7 DEF Found

\* What is checked and parsed of a buffer is what is of a longer one.
LEMMA CheckStable ==
    ASSUME NEW v, NEW b \in Seq(Octets), NEW e \in Seq(Octets), Extends(b, e)
    PROVE  SameOrNeedsMore(Check(v, b), Check(v, e), b) /\ SameOrNeedsMore(Parse(v, b), Parse(v, e), b)
<1>1. 1 \in 1..Len(b) + 1 /\ 1 \in Nat
  OBVIOUS
<1> QED BY <1>1, CheckLocal, ParseLocal, CheckUnfolds, ParseUnfolds

\* What parse_frame returns; on nothing it asks for more.
LEMMA ParseFrameIs ==
    ASSUME NEW v, NEW b \in Seq(Octets)
    PROVE  /\ Parsed(ParseFrame(v, b), 4, b)
           /\ ParseFrame(v, b).st = "invalid" => b # <<>>
<1> DEFINE c == Check(v, b)
           r == Parse(v, b)
<1>1. EndsIn(c, 4, b) /\ (b = <<>> => c.st # "ok" /\ c.st # "invalid")
  BY CheckIs
<1>2. Parsed(r, 1, b)
  BY ParseIs
<1>3. ParseFrame(v, b) = Checked(v, c, r)
  BY DEF ParseFrame
<1> HIDE DEF c, r
<1>4. CASE c.st # "ok"
  <2>1. Checked(v, c, r) = c
    BY <1>4 DEF Checked
  <2> QED BY <1>1, <1>3, <1>4, <2>1 DEF Parsed, EndsIn, IsResult
<1>5. CASE c.st = "ok" /\ r.st = "incomplete" /\ v = "rust"
  <2>1. Checked(v, c, r) = Invalid
    BY <1>5 DEF Checked
  <2> QED BY <1>1, <1>3, <1>5, <2>1 DEF Parsed, EndsIn, IsResult, Invalid, Stops
<1>6. CASE c.st = "ok" /\ ~(r.st = "incomplete" /\ v = "rust")
  <2>1. Checked(v, c, r) = [r EXCEPT !.pos = c.pos]
    BY <1>6 DEF Checked
  <2>2. PICK s, q, g : r = [st |-> s, pos |-> q, got |-> g]
    BY <1>2 DEF Parsed, EndsIn, IsResult
  <2>3. Checked(v, c, r) = [st |-> r.st, pos |-> c.pos, got |-> r.got]
    BY <2>1, <2>2
  <2> QED BY <1>1, <1>2, <1>3, <1>6, <2>3 DEF Parsed, EndsIn, IsResult
<1> QED BY <1>4, <1>5, <1>6

\* A frame that parse_frame takes, or an error it reports, is that of a longer
\* buffer: more bytes change only what was incomplete.
LEMMA ParseFrameStable ==
    ASSUME NEW v, NEW b \in Seq(Octets), NEW e \in Seq(Octets), Extends(b, e)
    PROVE  /\ ParseFrame(v, b).st = "ok" => ParseFrame(v, e) = ParseFrame(v, b)
           /\ ParseFrame(v, b).st = "invalid" => ParseFrame(v, e).st = "invalid"
<1> DEFINE cb == Check(v, b)
           ce == Check(v, e)
           rb == Parse(v, b)
           re == Parse(v, e)
<1>1. SameOrNeedsMore(cb, ce, b) /\ SameOrNeedsMore(rb, re, b)
  BY CheckStable
<1>2. /\ EndsIn(cb, 4, b) /\ Parsed(rb, 1, b) /\ Parsed(re, 1, e)
      /\ re.st = "ok" => ce.st = "ok" /\ ce.pos = re.pos
  BY CheckIs, ParseIs
<1>3. ParseFrame(v, b) = Checked(v, cb, rb) /\ ParseFrame(v, e) = Checked(v, ce, re)
  BY DEF ParseFrame
<1> HIDE DEF cb, ce, rb, re
<1>4. \A c, r : Checked(v, c, r) =
          IF c.st # "ok" THEN c
          ELSE IF r.st = "incomplete" /\ v = "rust" THEN Invalid
          ELSE [r EXCEPT !.pos = c.pos]
  BY DEF Checked
<1>5. /\ [rb EXCEPT !.pos = cb.pos] = [st |-> rb.st, pos |-> cb.pos, got |-> rb.got]
      /\ [re EXCEPT !.pos = ce.pos] = [st |-> re.st, pos |-> ce.pos, got |-> re.got]
  <2>1. PICK s, q, g : rb = [st |-> s, pos |-> q, got |-> g]
    BY <1>2 DEF Parsed, EndsIn, IsResult
  <2>2. PICK s2, q2, g2 : re = [st |-> s2, pos |-> q2, got |-> g2]
    BY <1>2 DEF Parsed, EndsIn, IsResult
  <2>3. [rb EXCEPT !.pos = cb.pos] = [st |-> rb.st, pos |-> cb.pos, got |-> rb.got]
    BY <2>1
  <2>4. [re EXCEPT !.pos = ce.pos] = [st |-> re.st, pos |-> ce.pos, got |-> re.got]
    BY <2>2
  <2> QED BY <2>3, <2>4
<1>6. Invalid.st = "invalid"
  BY DEF Invalid, Stops
<1>7. /\ rb.st \in {"ok", "incomplete", "invalid"} /\ re.st \in {"ok", "incomplete", "invalid"}
      /\ cb.st \in {"ok", "incomplete", "invalid"}
      /\ cb.st = "ok" => cb.pos \in 4..Len(b) + 1
  BY <1>2 DEF Parsed, EndsIn, IsResult
<1>8. CASE cb.st # "ok"
  BY <1>1, <1>3, <1>4, <1>7, <1>8 DEF SameOrNeedsMore
<1>9. CASE cb.st = "ok" /\ re = rb
  <2>1. ce = cb
    BY <1>1, <1>9 DEF SameOrNeedsMore
  <2> QED BY <1>3, <1>9, <2>1
<1>10. CASE cb.st = "ok" /\ re # rb
  <2>1. ce = cb /\ rb.st = "incomplete" /\ (re.st = "ok" => re.pos > Len(b) + 1)
    BY <1>1, <1>10 DEF SameOrNeedsMore
  <2>2. re.st # "ok"
    <3>1. Len(b) \in Nat
      OBVIOUS
    <3> QED BY <1>2, <1>7, <1>10, <2>1, <3>1
  <2>3. CASE v = "rust"
    <3>1. ParseFrame(v, e).st = "invalid"
      <4>1. CASE re.st = "incomplete"
        BY <1>3, <1>4, <1>6, <1>10, <2>1, <2>3, <4>1
      <4>2. CASE re.st = "invalid"
        <5>1. Checked(v, ce, re) = [st |-> re.st, pos |-> ce.pos, got |-> re.got]
          BY <1>4, <1>5, <1>10, <2>1, <4>2
        <5> QED BY <1>3, <4>2, <5>1
      <4> QED BY <1>7, <2>2, <4>1, <4>2
    <3>2. ParseFrame(v, b).st = "invalid"
      BY <1>3, <1>4, <1>6, <1>10, <2>1, <2>3
    <3> QED BY <3>1, <3>2
  <2>4. CASE v # "rust"
    <3>1. ParseFrame(v, b).st = "incomplete"
      <4>1. Checked(v, cb, rb) = [st |-> rb.st, pos |-> cb.pos, got |-> rb.got]
        BY <1>4, <1>5, <1>10, <2>4
      <4> QED BY <1>3, <2>1, <4>1
    <3> QED BY <3>1
  <2> QED BY <2>3, <2>4
<1> QED BY <1>8, <1>9, <1>10

-----------------------------------------------------------------------------
\* What is left of a sequence from a place on.
RestFrom(s, p) == SubSeq(s, p, Len(s))

LEMMA AfterIs ==
    ASSUME NEW S, NEW s \in Seq(S), NEW p \in 1..Len(s) + 1
    PROVE  /\ RestFrom(s, p) \in Seq(S)
           /\ Len(RestFrom(s, p)) = Len(s) - p + 1
           /\ \A i \in 1..Len(s) - p + 1 : RestFrom(s, p)[i] = s[p + i - 1]
<1>1. p \in Nat \ {0} /\ Len(s) \in Nat /\ Len(s) <= Len(s)
  OBVIOUS
<1> DEFINE n == Len(s)
<1>2. n \in Nat /\ p \in 1..n + 1 /\ n = Len(s)
  OBVIOUS
<1>3. /\ RestFrom(s, p) \in Seq(S)
      /\ Len(RestFrom(s, p)) = IF p <= n THEN n - p + 1 ELSE 0
      /\ \A i \in 1..n - p + 1 : RestFrom(s, p)[i] = s[p + i - 1]
  BY <1>1, SubSeqIs DEF RestFrom
<1> HIDE DEF n
<1>4. p > n => n - p + 1 = 0
  BY <1>1, <1>2
<1>5. Len(RestFrom(s, p)) = n - p + 1
  BY <1>1, <1>2, <1>3, <1>4
<1> QED BY <1>2, <1>3, <1>5

LEMMA AfterConcat ==
    ASSUME NEW S, NEW s \in Seq(S), NEW t \in Seq(S), NEW p \in 1..Len(s) + 1
    PROVE  RestFrom(s, p) \o t = RestFrom(s \o t, p)
<1> DEFINE w == s \o t
           x == RestFrom(s, p)
           y == RestFrom(w, p)
           m == Len(s)
           n == Len(t)
<1>1. /\ w \in Seq(S) /\ Len(w) = m + n
      /\ \A i \in 1..m + n : w[i] = IF i <= m THEN s[i] ELSE t[i - m]
  BY ConcatProperties
<1>2. m \in Nat /\ n \in Nat /\ p \in 1..m + 1
  OBVIOUS
<1>3. x \in Seq(S) /\ Len(x) = m - p + 1 /\ \A i \in 1..m - p + 1 : x[i] = s[p + i - 1]
  BY AfterIs
<1>4. y \in Seq(S) /\ Len(y) = m + n - p + 1
      /\ \A i \in 1..m + n - p + 1 : y[i] = w[p + i - 1]
  <2> HIDE DEF w
  <2>1. p \in 1..Len(w) + 1
    BY <1>1, <1>2
  <2>2. y \in Seq(S) /\ Len(y) = Len(w) - p + 1
        /\ \A i \in 1..Len(w) - p + 1 : y[i] = w[p + i - 1]
    BY <1>1, <2>1, AfterIs
  <2>3. Len(w) = m + n
    BY <1>1
  <2> QED BY <2>2, <2>3
<1>5. x \o t \in Seq(S) /\ Len(x \o t) = Len(x) + n
      /\ \A i \in 1..Len(x) + n : (x \o t)[i] = IF i <= Len(x) THEN x[i] ELSE t[i - Len(x)]
  <2> HIDE DEF x
  <2> QED BY <1>3, ConcatProperties
<1> DEFINE z == x \o t
<1>6. z \in Seq(S) /\ Len(z) = m - p + 1 + n
      /\ \A i \in 1..m - p + 1 + n : z[i] = IF i <= m - p + 1 THEN x[i] ELSE t[i - (m - p + 1)]
  BY <1>3, <1>5
<1> HIDE DEF w, x, y, z, m, n
<1>7. Len(z) = Len(y)
  BY <1>2, <1>4, <1>6
<1>8. ASSUME NEW i \in 1..Len(z) PROVE z[i] = y[i]
  <2>1. i \in 1..m - p + 1 + n /\ i \in 1..m + n - p + 1
    BY <1>2, <1>6
  <2>2. p + i - 1 \in 1..m + n
    BY <1>2, <2>1
  <2>3. y[i] = IF p + i - 1 <= m THEN s[p + i - 1] ELSE t[p + i - 1 - m]
    <3>1. y[i] = w[p + i - 1]
      BY <1>4, <2>1
    <3> DEFINE k == p + i - 1
    <3>2. w[k] = IF k <= m THEN s[k] ELSE t[k - m]
      <4>1. k \in 1..m + n
        BY <2>2
      <4> HIDE DEF k
      <4> QED BY <1>1, <4>1
    <3> QED BY <1>2, <2>1, <2>2, <3>1, <3>2
  <2>4. CASE i <= m - p + 1
    <3>1. i \in 1..m - p + 1 /\ p + i - 1 <= m
      BY <1>2, <2>1, <2>4
    <3>2. z[i] = s[p + i - 1]
      BY <1>3, <1>6, <2>1, <3>1
    <3> QED BY <2>3, <3>1, <3>2
  <2>5. CASE i > m - p + 1
    <3>1. p + i - 1 > m /\ i - (m - p + 1) = p + i - 1 - m /\ ~(i <= m - p + 1)
      BY <1>2, <2>1, <2>5
    <3>2. ~(p + i - 1 <= m)
      BY <1>2, <2>1, <3>1
    <3>3. z[i] = t[i - (m - p + 1)] /\ y[i] = t[p + i - 1 - m]
      BY <1>6, <2>1, <2>3, <3>1, <3>2
    <3> QED BY <3>1, <3>3
  <2> QED BY <1>2, <2>1, <2>4, <2>5
<1>9. z = y
  BY <1>4, <1>6, <1>7, <1>8, SeqEqual
<1> QED BY <1>9 DEF z, y, x, w

LEMMA AfterAfter ==
    ASSUME NEW S, NEW s \in Seq(S), NEW p \in 1..Len(s) + 1, NEW q \in 1..Len(RestFrom(s, p)) + 1
    PROVE  /\ p + q - 1 \in 1..Len(s) + 1
           /\ RestFrom(RestFrom(s, p), q) = RestFrom(s, p + q - 1)
<1> DEFINE x == RestFrom(s, p)
           y == RestFrom(x, q)
           r == p + q - 1
           z == RestFrom(s, r)
           n == Len(s)
<1>1. n \in Nat /\ p \in 1..n + 1 /\ n = Len(s)
  OBVIOUS
<1>2. x \in Seq(S) /\ Len(x) = n - p + 1 /\ \A i \in 1..n - p + 1 : x[i] = s[p + i - 1]
  BY AfterIs
<1>3. q \in 1..Len(x) + 1
  OBVIOUS
<1> HIDE DEF n, x
<1>4. r \in 1..n + 1 /\ r - 1 = (p - 1) + (q - 1) /\ q \in Nat /\ p \in Nat
  BY <1>1, <1>2, <1>3
<1>5. y \in Seq(S) /\ Len(y) = Len(x) - q + 1 /\ \A i \in 1..Len(x) - q + 1 : y[i] = x[q + i - 1]
  BY <1>2, <1>3, AfterIs
<1>6. z \in Seq(S) /\ Len(z) = n - r + 1 /\ \A i \in 1..n - r + 1 : z[i] = s[r + i - 1]
  <2> HIDE DEF r
  <2> QED BY <1>1, <1>4, AfterIs
<1>r. r = p + q - 1
  OBVIOUS
<1> HIDE DEF y, z, r
<1>7. Len(y) = Len(z)
  BY <1>1, <1>2, <1>3, <1>4, <1>5, <1>6, <1>r
<1>8. ASSUME NEW i \in 1..Len(y) PROVE y[i] = z[i]
  <2>1. i \in 1..Len(x) - q + 1 /\ i \in 1..n - r + 1 /\ q + i - 1 \in 1..n - p + 1
    BY <1>1, <1>2, <1>3, <1>4, <1>5, <1>6, <1>7, <1>r
  <2>2. p + (q + i - 1) - 1 = r + i - 1
    BY <1>4, <1>r, <2>1
  <2>3. y[i] = s[p + (q + i - 1) - 1] /\ z[i] = s[r + i - 1]
    BY <1>2, <1>5, <1>6, <2>1
  <2> QED BY <2>2, <2>3
<1>9. y = z
  BY <1>5, <1>6, <1>7, <1>8, SeqEqual
<1> QED BY <1>1, <1>4, <1>9 DEF x, y, z, r

\* A sequence is extended by what is appended to it.
LEMMA ConcatExtends ==
    ASSUME NEW S, NEW s \in Seq(S), NEW t \in Seq(S)
    PROVE  Extends(s, s \o t)
<1>1. Len(s) \in Nat /\ Len(t) \in Nat /\ Len(s \o t) = Len(s) + Len(t)
      /\ \A i \in 1..Len(s) + Len(t) : (s \o t)[i] = IF i <= Len(s) THEN s[i] ELSE t[i - Len(s)]
  BY ConcatProperties
<1> QED BY <1>1 DEF Extends

\* Three sequences have a set in common.
LEMMA SeqsConcat ==
    ASSUME NEW s, NEW t, NEW u, IsSeq(s), IsSeq(t), IsSeq(u)
    PROVE  IsSeq(s \o t) /\ (s \o t) \o u = s \o (t \o u)
<1>1. PICK A : s \in Seq(A)
  BY DEF IsSeq
<1>2. PICK B : t \in Seq(B)
  BY DEF IsSeq
<1>3. PICK C : u \in Seq(C)
  BY DEF IsSeq
<1> DEFINE S == A \cup B \cup C
<1>4. A \subseteq S /\ B \subseteq S /\ C \subseteq S
  OBVIOUS
<1> HIDE DEF S
<1>5. s \in Seq(S) /\ t \in Seq(S) /\ u \in Seq(S)
  BY <1>1, <1>2, <1>3, <1>4, SeqMonotonic
<1>6. s \o t \in Seq(S) /\ (s \o t) \o u = s \o (t \o u)
  BY <1>5, ConcatAssociative
<1> QED BY <1>6 DEF IsSeq

LEMMA PrefixOfConcat ==
    ASSUME NEW s, NEW t, IsSeq(s), IsSeq(t)
    PROVE  IsPrefix(s, s \o t)
<1>1. PICK A : s \in Seq(A)
  BY DEF IsSeq
<1>2. PICK B : t \in Seq(B)
  BY DEF IsSeq
<1> DEFINE S == A \cup B
<1>3. A \subseteq S /\ B \subseteq S
  OBVIOUS
<1> HIDE DEF S
<1>4. s \in Seq(S) /\ t \in Seq(S)
  BY <1>1, <1>2, <1>3, SeqMonotonic
<1>5. s \o t \in Seq(S) /\ Extends(s, s \o t)
  BY <1>4, ConcatExtends, ConcatProperties
<1>6. SubSeq(s \o t, 1, Len(s)) = SubSeq(s, 1, Len(s))
  <2>1. 1 \in Nat \ {0} /\ Len(s) \in Nat /\ Len(s) <= Len(s)
    BY <1>4
  <2> DEFINE w == s \o t
  <2>2. w \in Seq(S) /\ Extends(s, w)
    BY <1>5
  <2> HIDE DEF w
  <2>3. SubSeq(w, 1, Len(s)) = SubSeq(s, 1, Len(s))
    BY <1>4, <2>1, <2>2, SubSeqSame
  <2> QED BY <2>3 DEF w
<1> QED BY <1>5, <1>6 DEF IsPrefix, Extends

\* The function read of Whole, from a place on.
WholeStep(v, input, p, f) ==
    LET r == ParseFrame(v, RestFrom(input, p))
    IN  IF r.st = "ok" THEN [f[p + r.pos - 1] EXCEPT !.out = r.got \o @]
        ELSE [out |-> <<>>, status |-> AtEnd(v, RestFrom(input, p))]
Wholes(v, input, k, f) == f = [p \in k..(Len(input) + 1) |-> WholeStep(v, input, p, f)]
WholeFrom(v, input) == CHOOSE f : Wholes(v, input, 1, f)

\* Whole is this function at the beginning.
LEMMA WholeUnfolds ==
    ASSUME NEW v, NEW input PROVE Whole(v, input) = WholeFrom(v, input)[1]
BY DEF Whole, WholeFrom, Wholes, WholeStep, RestFrom

\* The frames of a stream and how it ends.
IsRun(w) == w = [out |-> w.out, status |-> w.status] /\ IsSeq(w.out)

\* A frame of the whole input ends further on.
LEMMA WholeStepIs ==
    ASSUME NEW v, NEW input \in Seq(Octets), NEW p \in 1..Len(input) + 1
    PROVE  LET rest == RestFrom(input, p)
               r == ParseFrame(v, rest)
           IN  /\ rest \in Seq(Octets) /\ Len(rest) = Len(input) - p + 1
               /\ Parsed(r, 4, rest)
               /\ r.st = "ok" => p + r.pos - 1 \in p + 1..Len(input) + 1
<1> DEFINE rest == RestFrom(input, p)
           r == ParseFrame(v, rest)
<1>1. rest \in Seq(Octets) /\ Len(rest) = Len(input) - p + 1
  BY AfterIs
<1>2. Parsed(r, 4, rest)
  <2> HIDE DEF rest
  <2> QED BY <1>1, ParseFrameIs
<1> HIDE DEF rest, r
<1>3. r.st = "ok" => r.pos \in 4..Len(rest) + 1
  BY <1>2 DEF Parsed, EndsIn
<1>4. Len(input) \in Nat /\ p \in 1..Len(input) + 1
  OBVIOUS
<1>5. r.st = "ok" => p + r.pos - 1 \in p + 1..Len(input) + 1
  BY <1>1, <1>3, <1>4
<1> QED BY <1>1, <1>2, <1>5 DEF r, rest

\* From a place on there are a frame and those from its end on, or no more.
LEMMA WholeStepRuns ==
    ASSUME NEW v, NEW input \in Seq(Octets), NEW p \in 1..Len(input) + 1, NEW f,
           \A q \in p + 1..Len(input) + 1 : IsRun(f[q])
    PROVE  LET rest == RestFrom(input, p)
               r == ParseFrame(v, rest)
               more == f[p + r.pos - 1]
           IN  /\ IsRun(WholeStep(v, input, p, f))
               /\ r.st = "ok" => WholeStep(v, input, p, f)
                                    = [out |-> r.got \o more.out, status |-> more.status]
               /\ r.st # "ok" => WholeStep(v, input, p, f)
                                    = [out |-> <<>>, status |-> AtEnd(v, rest)]
<1> DEFINE rest == RestFrom(input, p)
           r == ParseFrame(v, rest)
           more == f[p + r.pos - 1]
           w == WholeStep(v, input, p, f)
<1>1. /\ Parsed(r, 4, rest)
      /\ r.st = "ok" => p + r.pos - 1 \in p + 1..Len(input) + 1
  BY WholeStepIs
<1>2. w = IF r.st = "ok" THEN [more EXCEPT !.out = r.got \o @]
          ELSE [out |-> <<>>, status |-> AtEnd(v, rest)]
  BY DEF WholeStep
<1>3. IsSeq(<<>>)
  <2>1. <<>> \in Seq({})
    OBVIOUS
  <2> QED BY <2>1 DEF IsSeq
<1>4. r.st = "ok" => IsRun(more)
  BY <1>1
<1> HIDE DEF rest, r, more, w
<1>5. CASE r.st # "ok"
  BY <1>2, <1>3, <1>5 DEF IsRun, w, r, rest, more
<1>6. CASE r.st = "ok"
  <2>1. PICK o, s : more = [out |-> o, status |-> s]
    BY <1>4, <1>6 DEF IsRun
  <2> DEFINE x == r.got \o more.out
  <2>2. w = [more EXCEPT !.out = x]
    BY <1>2, <1>6
  <2>3. IsSeq(x)
    <3>1. IsSeq(r.got) /\ IsSeq(more.out)
      BY <1>1, <1>4, <1>6 DEF Parsed, IsRun
    <3> QED BY <1>3, <3>1, SeqsConcat
  <2>4. x = r.got \o more.out
    OBVIOUS
  <2> HIDE DEF x
  <2>5. w = [out |-> x, status |-> more.status]
    BY <2>1, <2>2
  <2> QED BY <1>6, <2>3, <2>4, <2>5 DEF IsRun, w, r, rest, more
<1> QED BY <1>5, <1>6

\* f is the function read of Whole from k on.
WholesRun(v, input, k, f) ==
    /\ Wholes(v, input, k, f)
    /\ \A p \in k..(Len(input) + 1) : IsRun(f[p])

\* The function read of Whole exists from the end on backwards.
LEMMA WholesExtend ==
    ASSUME NEW v, NEW input \in Seq(Octets), NEW k \in 1..Len(input) + 1, NEW f,
           WholesRun(v, input, k + 1, f)
    PROVE  \E g : WholesRun(v, input, k, g)
<1> DEFINE N == Len(input) + 1
           g == [p \in k..N |-> IF p = k THEN WholeStep(v, input, k, f) ELSE f[p]]
<1>1. N \in Nat /\ k \in Nat /\ N = Len(input) + 1
  OBVIOUS
<1>2. /\ \A p \in k + 1..N : f[p] = WholeStep(v, input, p, f)
      /\ \A p \in k + 1..N : IsRun(f[p])
  BY DEF WholesRun, Wholes
<1> HIDE DEF N
<1>3. ASSUME NEW p \in k..N PROVE g[p] = WholeStep(v, input, p, f)
  <2>1. p # k => p \in k + 1..N
    BY <1>1
  <2> QED BY <1>2, <2>1
<1>4. \A p \in k + 1..N : g[p] = f[p]
  <2>1. \A p \in k + 1..N : p \in k..N
    BY <1>1
  <2> HIDE DEF g
  <2> QED BY <1>2, <1>3, <2>1
<1>5. g = [p \in k..N |-> g[p]]
  OBVIOUS
<1> HIDE DEF g
<1>6. ASSUME NEW p \in k..N
      PROVE  /\ WholeStep(v, input, p, g) = WholeStep(v, input, p, f)
             /\ IsRun(WholeStep(v, input, p, f))
  <2>1. p \in 1..Len(input) + 1 /\ \A q \in p + 1..Len(input) + 1 : q \in k + 1..N
    BY <1>1
  <2>2. \A q \in p + 1..Len(input) + 1 : IsRun(f[q]) /\ g[q] = f[q]
    BY <1>2, <1>4, <2>1
  <2>3. IsRun(WholeStep(v, input, p, f))
    BY <2>1, <2>2, WholeStepRuns
  <2>4. ParseFrame(v, RestFrom(input, p)).st = "ok" =>
            p + ParseFrame(v, RestFrom(input, p)).pos - 1 \in p + 1..Len(input) + 1
    BY <2>1, WholeStepIs
  <2>5. WholeStep(v, input, p, g) = WholeStep(v, input, p, f)
    BY <2>2, <2>4 DEF WholeStep
  <2> QED BY <2>3, <2>5
<1>7. \A p \in k..N : g[p] = WholeStep(v, input, p, g) /\ IsRun(g[p])
  BY <1>3, <1>6
<1>8. g = [p \in k..N |-> WholeStep(v, input, p, g)]
  BY <1>5, <1>7
<1> QED BY <1>1, <1>7, <1>8 DEF WholesRun, Wholes

LEMMA WholeFromIs ==
    ASSUME NEW v, NEW input \in Seq(Octets)
    PROVE  \A p \in 1..Len(input) + 1 :
              /\ WholeFrom(v, input)[p] = WholeStep(v, input, p, WholeFrom(v, input))
              /\ IsRun(WholeFrom(v, input)[p])
<1> DEFINE Good == {k \in 1..Len(input) + 2 : \E f : WholesRun(v, input, k, f)}
           M == Len(input) + 2
           f == WholeFrom(v, input)
           N == Len(input) + 1
           Runs == {p \in 1..Len(input) + 1 : IsRun(f[p])}
<1>1. M \in Nat /\ 1 \in 1..M /\ N \in Nat /\ N = Len(input) + 1
  OBVIOUS
<1>2. ASSUME NEW k \in 1..M, \A j \in k + 1..M : j \in Good PROVE k \in Good
  <2>1. CASE k = M
    <3>1. WholesRun(v, input, M, [p \in M..(Len(input) + 1) |-> 0])
      <4>1. M..(Len(input) + 1) = {}
        OBVIOUS
      <4> QED BY <4>1 DEF Wholes, WholesRun
    <3> QED BY <2>1, <3>1
  <2>2. CASE k # M
    <3>1. k \in 1..Len(input) + 1 /\ k + 1 \in k + 1..M
      BY <2>2
    <3>2. PICK h : WholesRun(v, input, k + 1, h)
      BY <1>2, <3>1
    <3>3. \E g : WholesRun(v, input, k, g)
      BY <3>1, <3>2, WholesExtend
    <3> QED BY <3>3
  <2> QED BY <2>1, <2>2
<1>3. 1 \in Good
  <2> HIDE DEF Good, M
  <2> QED BY <1>1, <1>2, Backwards
<1>4. \E h : Wholes(v, input, 1, h)
  BY <1>3 DEF WholesRun
<1>5. Wholes(v, input, 1, f)
  BY <1>4 DEF WholeFrom
<1> HIDE DEF f, N
<1>6. \A p \in 1..N : f[p] = WholeStep(v, input, p, f)
  BY <1>1, <1>5 DEF Wholes
<1>7. ASSUME NEW p \in 1..N, \A q \in p + 1..N : q \in Runs PROVE p \in Runs
  <2>1. p \in 1..Len(input) + 1 /\ \A q \in p + 1..Len(input) + 1 : IsRun(f[q])
    BY <1>1, <1>7
  <2>2. IsRun(WholeStep(v, input, p, f))
    BY <2>1, WholeStepRuns
  <2> QED BY <1>6, <2>1, <2>2
<1>8. \A p \in 1..N : p \in Runs
  <2> HIDE DEF Runs
  <2> QED BY <1>1, <1>7, Backwards
<1> QED BY <1>1, <1>6, <1>8 DEF f

\* What is buffered and what is left are the input from a place that is reached
\* by taking the frames that are out.
ReachedInv ==
    LET f == WholeFrom(job.v, job.input)
    IN  \E p \in 1..Len(job.input) + 1 :
           /\ st.buffer \o left = RestFrom(job.input, p)
           /\ Whole(job.v, job.input) = [out |-> st.out \o f[p].out, status |-> f[p].status]
           /\ st.pc = "done" => f[p].out = <<>> /\ st.status = f[p].status
\* The types of what a connection keeps.
ConnectionTypeInv ==
    /\ job.tool = "connection" /\ job.input \in Seq(Octets)
    /\ left \in Seq(Octets)
    /\ st = [pc |-> st.pc, buffer |-> st.buffer, out |-> st.out, status |-> st.status]
    /\ st.buffer \in Seq(Octets) /\ IsSeq(st.out)
\* A read is asked for only when the buffer is incomplete.
AsksInv == st.pc = "reading" => ParseFrame(job.v, st.buffer).st = "incomplete"
\* The inductive invariant.
FramesIInv == ConnectionTypeInv /\ ReachedInv /\ AsksInv

\* It holds when the connection is opened.
LEMMA ConnectionInit ==
    ASSUME InitConnection PROVE FramesIInv
<1> DEFINE f == WholeFrom(job.v, job.input)
           input == job.input
<1>1. /\ job.tool = "connection" /\ input \in Seq(Octets) /\ left = input
      /\ st = [pc |-> "parse", buffer |-> <<>>, out |-> <<>>, status |-> "open"]
  BY DEF InitConnection, Opened
<1>2. <<>> \in Seq(Octets) /\ IsSeq(<<>>)
  <2>1. <<>> \in Seq(Octets)
    OBVIOUS
  <2> QED BY <2>1 DEF IsSeq
<1>3. ConnectionTypeInv
  BY <1>1, <1>2 DEF ConnectionTypeInv
<1>4. Whole(job.v, input) = f[1] /\ IsRun(f[1]) /\ 1 \in 1..Len(input) + 1
  <2>1. 1 \in 1..Len(input) + 1
    BY <1>1
  <2> QED BY <1>1, <2>1, WholeUnfolds, WholeFromIs
<1>5. <<>> \o left = RestFrom(input, 1)
  BY <1>1, SubSeqFull, ConcatEmptySeq DEF RestFrom
<1>6. <<>> \o f[1].out = f[1].out
  <2>1. PICK S : f[1].out \in Seq(S)
    BY <1>4 DEF IsRun, IsSeq
  <2> DEFINE o == f[1].out
  <2> HIDE DEF o
  <2>2. <<>> \o o = o
    BY <2>1, ConcatEmptySeq DEF o
  <2> QED BY <2>2 DEF o
<1>7. st.buffer = <<>> /\ st.out = <<>> /\ st.pc = "parse"
  BY <1>1
<1> HIDE DEF f
<1>8. Whole(job.v, input) = [out |-> st.out \o f[1].out, status |-> f[1].status]
  BY <1>4, <1>6, <1>7 DEF IsRun
<1>9. ReachedInv
  BY <1>4, <1>5, <1>7, <1>8 DEF ReachedInv, f
<1>10. AsksInv
  BY <1>7 DEF AsksInv
<1> QED BY <1>3, <1>9, <1>10 DEF FramesIInv

\* The frames of the input from where the buffer begins.
LEMMA FromHere ==
    ASSUME FramesIInv, NEW p \in 1..Len(job.input) + 1,
           st.buffer \o left = RestFrom(job.input, p)
    PROVE  LET f == WholeFrom(job.v, job.input)
               rest == RestFrom(job.input, p)
               r == ParseFrame(job.v, rest)
               b == ParseFrame(job.v, st.buffer)
           IN  /\ rest \in Seq(Octets)
               /\ b.st = "ok" => r = b /\ b.pos \in 4..Len(st.buffer) + 1 /\ IsSeq(b.got)
               /\ b.st = "invalid" => r.st = "invalid" /\ rest # <<>>
               /\ r.st = "ok" => /\ p + r.pos - 1 \in 1..Len(job.input) + 1
                                 /\ f[p] = [out |-> r.got \o f[p + r.pos - 1].out,
                                            status |-> f[p + r.pos - 1].status]
               /\ r.st # "ok" => f[p] = [out |-> <<>>, status |-> AtEnd(job.v, rest)]
<1> DEFINE input == job.input
           v == job.v
           f == WholeFrom(v, input)
           rest == RestFrom(input, p)
           r == ParseFrame(v, rest)
           b == ParseFrame(v, st.buffer)
<1>1. input \in Seq(Octets) /\ left \in Seq(Octets) /\ st.buffer \in Seq(Octets)
  BY DEF FramesIInv, ConnectionTypeInv
<1>2. \A q \in 1..Len(input) + 1 : f[q] = WholeStep(v, input, q, f) /\ IsRun(f[q])
  BY <1>1, WholeFromIs
<1>3. /\ rest \in Seq(Octets)
      /\ r.st = "ok" => p + r.pos - 1 \in p + 1..Len(input) + 1
  BY <1>1, WholeStepIs
<1>4. /\ Parsed(b, 4, st.buffer)
      /\ b.st = "invalid" => st.buffer # <<>>
  BY <1>1, ParseFrameIs
<1>5. /\ b.st = "ok" => r = b
      /\ b.st = "invalid" => r.st = "invalid"
  <2>1. Extends(st.buffer, rest)
    BY <1>1, ConcatExtends
  <2> HIDE DEF rest
  <2> QED BY <1>1, <1>3, <2>1, ParseFrameStable
<1>6. b.st = "invalid" => rest # <<>>
  <2> DEFINE s == st.buffer
  <2>1. s \in Seq(Octets) /\ left \in Seq(Octets) /\ rest = s \o left
    BY <1>1
  <2> HIDE DEF s, rest
  <2>2. \A x, y \in Seq(Octets) : x \o y = <<>> => x = <<>>
    BY ConcatEqualIffEmpty
  <2>3. rest = <<>> => s = <<>>
    BY <2>1, <2>2
  <2> QED BY <1>4, <2>3 DEF s
<1>7. \A q \in p + 1..Len(input) + 1 : q \in 1..Len(input) + 1
  <2>1. Len(input) \in Nat
    BY <1>1
  <2> QED BY <2>1
<1>8. /\ r.st = "ok" => f[p] = [out |-> r.got \o f[p + r.pos - 1].out,
                                status |-> f[p + r.pos - 1].status]
      /\ r.st # "ok" => f[p] = [out |-> <<>>, status |-> AtEnd(v, rest)]
  <2>1. \A q \in p + 1..Len(input) + 1 : IsRun(f[q])
    BY <1>2, <1>7
  <2> HIDE DEF f, v, input
  <2>2. p \in 1..Len(input) + 1
    BY DEF input
  <2>3. /\ r.st = "ok" => WholeStep(v, input, p, f)
                             = [out |-> r.got \o f[p + r.pos - 1].out,
                                status |-> f[p + r.pos - 1].status]
        /\ r.st # "ok" => WholeStep(v, input, p, f)
                             = [out |-> <<>>, status |-> AtEnd(v, rest)]
    BY <1>1, <2>1, <2>2, WholeStepRuns
  <2> QED BY <1>2, <2>2, <2>3
<1> HIDE DEF f, rest, r, b
<1>9. r.st = "ok" => p + r.pos - 1 \in 1..Len(input) + 1
  BY <1>3, <1>7
<1>10. b.st = "ok" => b.pos \in 4..Len(st.buffer) + 1 /\ IsSeq(b.got)
  BY <1>4 DEF Parsed, EndsIn
<1> QED BY <1>3, <1>5, <1>6, <1>8, <1>9, <1>10 DEF f, rest, r, b

\* A frame taken from the buffer is the next of the whole input.
LEMMA TakesFrame ==
    ASSUME FramesIInv, TakeFrame PROVE FramesIInv'
<1> DEFINE input == job.input
           f == WholeFrom(job.v, input)
           b == ParseFrame(job.v, st.buffer)
<1>1. /\ input \in Seq(Octets) /\ left \in Seq(Octets) /\ st.buffer \in Seq(Octets)
      /\ IsSeq(st.out)
      /\ st = [pc |-> st.pc, buffer |-> st.buffer, out |-> st.out, status |-> st.status]
      /\ job.tool = "connection"
  BY DEF FramesIInv, ConnectionTypeInv
<1>2. /\ b.st = "ok" /\ st.pc = "parse" /\ job' = job /\ left' = left
      /\ st' = [st EXCEPT !.out = @ \o b.got, !.buffer = SubSeq(@, b.pos, Len(@))]
  BY DEF TakeFrame, Reads, Stay
<1>3. PICK p \in 1..Len(input) + 1 :
           /\ st.buffer \o left = RestFrom(input, p)
           /\ Whole(job.v, input) = [out |-> st.out \o f[p].out, status |-> f[p].status]
  BY DEF FramesIInv, ReachedInv
<1> DEFINE q == p + b.pos - 1
           rest == RestFrom(input, p)
<1>4. /\ b.pos \in 4..Len(st.buffer) + 1 /\ IsSeq(b.got)
      /\ q \in 1..Len(input) + 1
      /\ f[p] = [out |-> b.got \o f[q].out, status |-> f[q].status]
  <2> DEFINE r == ParseFrame(job.v, rest)
  <2>1. /\ r = b /\ b.pos \in 4..Len(st.buffer) + 1 /\ IsSeq(b.got)
        /\ r.st = "ok" => /\ p + r.pos - 1 \in 1..Len(input) + 1
                          /\ f[p] = [out |-> r.got \o f[p + r.pos - 1].out,
                                     status |-> f[p + r.pos - 1].status]
    BY <1>2, <1>3, FromHere
  <2> HIDE DEF r, b, f
  <2> QED BY <1>2, <2>1
<1>5. st' = [pc |-> st.pc, buffer |-> RestFrom(st.buffer, b.pos), out |-> st.out \o b.got,
             status |-> st.status]
  <2> DEFINE x == st.out \o b.got
             y == SubSeq(st.buffer, b.pos, Len(st.buffer))
  <2>1. st' = [st EXCEPT !.out = x, !.buffer = y]
    BY <1>2
  <2> HIDE DEF x, y
  <2>2. st' = [pc |-> st.pc, buffer |-> y, out |-> x, status |-> st.status]
    <3>1. PICK s1, s2, s3, s4 : st = [pc |-> s1, buffer |-> s2, out |-> s3, status |-> s4]
      BY <1>1
    <3> QED BY <2>1, <3>1
  <2> QED BY <2>2 DEF x, y, RestFrom
<1>6. /\ RestFrom(st.buffer, b.pos) \in Seq(Octets)
      /\ RestFrom(st.buffer, b.pos) \o left = RestFrom(input, q)
  <2> DEFINE buffer == st.buffer
             k == b.pos
  <2>1. /\ buffer \in Seq(Octets) /\ k \in 1..Len(buffer) + 1 /\ left \in Seq(Octets)
        /\ input \in Seq(Octets) /\ p \in 1..Len(input) + 1
        /\ rest = buffer \o left /\ rest = RestFrom(input, p) /\ q = p + k - 1
    <3>1. Len(buffer) \in Nat
      BY <1>1
    <3> QED BY <1>1, <1>3, <1>4, <3>1
  <2> HIDE DEF buffer, k, input, rest, b, q
  <2>2. RestFrom(buffer, k) \in Seq(Octets) /\ RestFrom(buffer, k) \o left = RestFrom(rest, k)
    <3>1. RestFrom(buffer, k) \in Seq(Octets)
      BY <2>1, AfterIs
    <3>2. RestFrom(buffer, k) \o left = RestFrom(buffer \o left, k)
      BY <2>1, AfterConcat
    <3> QED BY <2>1, <3>1, <3>2
  <2>3. k \in 1..Len(rest) + 1
    <3>1. \A x, y \in Seq(Octets) : Len(x \o y) = Len(x) + Len(y)
                                    /\ Len(x) \in Nat /\ Len(y) \in Nat
      BY ConcatProperties
    <3>2. Len(rest) = Len(buffer) + Len(left) /\ Len(left) \in Nat /\ Len(buffer) \in Nat
      BY <2>1, <3>1
    <3> QED BY <2>1, <3>2
  <2>4. RestFrom(rest, k) = RestFrom(input, p + k - 1)
    BY <2>1, <2>3, AfterAfter
  <2> QED BY <2>1, <2>2, <2>4 DEF buffer, k
<1>7. IsSeq(st.out \o b.got) /\ st.out \o f[p].out = (st.out \o b.got) \o f[q].out
  <2>1. IsSeq(f[q].out)
    <3> HIDE DEF q
    <3> QED BY <1>1, <1>4, WholeFromIs DEF IsRun
  <2> DEFINE o == f[q].out
             g == b.got
             s == st.out
  <2>2. IsSeq(s) /\ IsSeq(g) /\ IsSeq(o)
    BY <1>1, <1>4, <2>1
  <2>3. f[p].out = g \o o
    <3> DEFINE z == f[p]
               status == f[q].status
    <3>1. z = [out |-> g \o o, status |-> status]
      BY <1>4
    <3> HIDE DEF z, g, o, status
    <3>2. z.out = g \o o
      BY <3>1
    <3> QED BY <3>2 DEF z
  <2> HIDE DEF o, g, s, f
  <2>4. IsSeq(s \o g) /\ (s \o g) \o o = s \o (g \o o)
    BY <2>2, SeqsConcat
  <2>5. s \o f[p].out = (s \o g) \o o
    BY <2>3, <2>4
  <2> QED BY <2>4, <2>5 DEF o, g, s
<1> DEFINE x == RestFrom(st.buffer, b.pos)
           y == st.out \o b.got
<1>8. /\ st'.pc = "parse" /\ st'.buffer = x /\ st'.out = y
      /\ st' = [pc |-> st'.pc, buffer |-> st'.buffer, out |-> st'.out, status |-> st'.status]
  <2>1. st' = [pc |-> "parse", buffer |-> x, out |-> y, status |-> st.status]
    BY <1>2, <1>5
  <2> HIDE DEF x, y
  <2> QED BY <2>1
<1>9. f[p].status = f[q].status
  <2> DEFINE w == f[p]
             o == b.got \o f[q].out
             status == f[q].status
  <2>1. w = [out |-> o, status |-> status]
    BY <1>4
  <2> HIDE DEF w, o, status
  <2>2. w.status = status
    BY <2>1
  <2> QED BY <2>2 DEF w, status
<1>10. /\ x \in Seq(Octets) /\ x \o left = RestFrom(input, q) /\ IsSeq(y)
       /\ Whole(job.v, input) = [out |-> y \o f[q].out, status |-> f[q].status]
  BY <1>3, <1>6, <1>7, <1>9
<1> HIDE DEF f, b, q, x, y
<1>11. ConnectionTypeInv'
  BY <1>1, <1>2, <1>8, <1>10 DEF ConnectionTypeInv
<1>12. AsksInv'
  BY <1>8 DEF AsksInv
<1>13. ReachedInv'
  <2>1. /\ st'.buffer \o left' = RestFrom(input, q)
        /\ Whole(job.v, input) = [out |-> st'.out \o f[q].out, status |-> f[q].status]
        /\ st'.pc # "done"
    BY <1>2, <1>8, <1>10
  <2> QED BY <1>2, <1>4, <2>1 DEF ReachedInv, f
<1> QED BY <1>11, <1>12, <1>13 DEF FramesIInv

\* A step that only moves what is left to the buffer, or nothing.
LEMMA KeepsPlace ==
    ASSUME FramesIInv, job' = job, st'.out = st.out, st'.pc # "done",
           st.buffer \o left = st'.buffer \o left',
           st.pc # "done"
    PROVE  ReachedInv'
BY DEF FramesIInv, ReachedInv

\* Asking for more, giving a read up and receiving a piece keep the place.
LEMMA NeedsMoreKeeps ==
    ASSUME FramesIInv, NeedsMore PROVE FramesIInv'
<1>1. /\ ParseFrame(job.v, st.buffer).st = "incomplete" /\ st.pc = "parse"
      /\ job' = job /\ left' = left
      /\ st' = [st EXCEPT !.pc = "reading"]
  BY DEF NeedsMore, Reads, Stay
<1>2. ConnectionTypeInv
  BY DEF FramesIInv
<1>3. st' = [pc |-> "reading", buffer |-> st.buffer, out |-> st.out, status |-> st.status]
  <2>1. PICK s1, s2, s3, s4 : st = [pc |-> s1, buffer |-> s2, out |-> s3, status |-> s4]
    BY <1>2 DEF ConnectionTypeInv
  <2> QED BY <1>1, <2>1
<1>4. ConnectionTypeInv'
  BY <1>1, <1>2, <1>3 DEF ConnectionTypeInv
<1>5. AsksInv'
  BY <1>1, <1>3 DEF AsksInv
<1>6. ReachedInv'
  BY <1>1, <1>3, KeepsPlace
<1> QED BY <1>4, <1>5, <1>6 DEF FramesIInv

LEMMA CancelKeeps ==
    ASSUME FramesIInv, Cancel PROVE FramesIInv'
<1>1. st.pc = "reading" /\ job' = job /\ left' = left /\ st' = [st EXCEPT !.pc = "parse"]
  BY DEF Cancel, Reads, Stay
<1>2. ConnectionTypeInv
  BY DEF FramesIInv
<1>3. st' = [pc |-> "parse", buffer |-> st.buffer, out |-> st.out, status |-> st.status]
  <2>1. PICK s1, s2, s3, s4 : st = [pc |-> s1, buffer |-> s2, out |-> s3, status |-> s4]
    BY <1>2 DEF ConnectionTypeInv
  <2> QED BY <1>1, <2>1
<1>4. ConnectionTypeInv'
  BY <1>1, <1>2, <1>3 DEF ConnectionTypeInv
<1>5. AsksInv'
  BY <1>3 DEF AsksInv
<1>6. ReachedInv'
  BY <1>1, <1>3, KeepsPlace
<1> QED BY <1>4, <1>5, <1>6 DEF FramesIInv

LEMMA ReceiveKeeps ==
    ASSUME FramesIInv, NEW k \in 1..Len(left), ReceivePiece(k) PROVE FramesIInv'
<1>1. /\ st.pc = "reading" /\ job' = job
      /\ left' = RestFrom(left, k + 1)
      /\ st' = [st EXCEPT !.pc = "parse", !.buffer = @ \o SubSeq(left, 1, k)]
  BY DEF ReceivePiece, Reads, Consume, Piece, RestFrom
<1>2. ConnectionTypeInv
  BY DEF FramesIInv
<1>3. left \in Seq(Octets) /\ st.buffer \in Seq(Octets)
  BY <1>2 DEF ConnectionTypeInv
<1> DEFINE x == SubSeq(left, 1, k)
           y == RestFrom(left, k + 1)
<1>4. x \in Seq(Octets) /\ y \in Seq(Octets) /\ x \o y = left
  <2>1. k \in Nat /\ Len(left) \in Nat /\ k <= Len(left) /\ 1 \in Nat \ {0}
        /\ k + 1 \in 1..Len(left) + 1
    BY <1>3
  <2>2. x \in Seq(Octets)
    BY <1>3, <2>1, SubSeqIs
  <2>3. y \in Seq(Octets)
    BY <1>3, <2>1, AfterIs
  <2>4. SubSeq(left, 1, k) \o SubSeq(left, k + 1, Len(left)) = SubSeq(left, 1, Len(left))
    BY <1>3, <2>1, ConcatAdjacentSubSeq
  <2>5. SubSeq(left, 1, Len(left)) = left
    BY <1>3, SubSeqFull
  <2> QED BY <2>2, <2>3, <2>4, <2>5 DEF RestFrom
<1>5. left' = y /\ st' = [st EXCEPT !.pc = "parse", !.buffer = st.buffer \o x]
  BY <1>1
<1> HIDE DEF x, y
<1>6. st.buffer \o x \in Seq(Octets) /\ (st.buffer \o x) \o y = st.buffer \o left
  <2> DEFINE s == st.buffer
  <2>1. s \in Seq(Octets)
    BY <1>3
  <2> HIDE DEF s
  <2>2. \A u, w, z \in Seq(Octets) : u \o w \in Seq(Octets)
                                       /\ (u \o w) \o z = u \o (w \o z)
    BY ConcatAssociative
  <2> QED BY <1>4, <2>1, <2>2 DEF s
<1>7. st' = [pc |-> "parse", buffer |-> st.buffer \o x, out |-> st.out, status |-> st.status]
  <2> DEFINE z == st.buffer \o x
  <2>1. st' = [st EXCEPT !.pc = "parse", !.buffer = z]
    BY <1>5
  <2> HIDE DEF z
  <2>2. st' = [pc |-> "parse", buffer |-> z, out |-> st.out, status |-> st.status]
    <3>1. PICK s1, s2, s3, s4 : st = [pc |-> s1, buffer |-> s2, out |-> s3, status |-> s4]
      BY <1>2 DEF ConnectionTypeInv
    <3> QED BY <2>1, <3>1
  <2> QED BY <2>2 DEF z
<1>8. ConnectionTypeInv'
  BY <1>1, <1>2, <1>4, <1>5, <1>6, <1>7 DEF ConnectionTypeInv
<1>9. AsksInv'
  BY <1>7 DEF AsksInv
<1>10. ReachedInv'
  <2>1. st.buffer \o left = st'.buffer \o left'
    BY <1>5, <1>6, <1>7
  <2> QED BY <1>1, <1>7, <2>1, KeepsPlace
<1> QED BY <1>8, <1>9, <1>10 DEF FramesIInv

\* The frames are all out and the status is that of the whole input.
LEMMA EndsAsWhole ==
    ASSUME FramesIInv, st.pc # "done", job' = job, left' = left, NEW status,
           st' = [st EXCEPT !.pc = "done", !.status = status],
           \A p \in 1..Len(job.input) + 1 :
              st.buffer \o left = RestFrom(job.input, p) =>
                 WholeFrom(job.v, job.input)[p] = [out |-> <<>>, status |-> status]
    PROVE  FramesIInv'
<1>1. ConnectionTypeInv
  BY DEF FramesIInv
<1>2. st' = [pc |-> "done", buffer |-> st.buffer, out |-> st.out, status |-> status]
  <2>1. PICK s1, s2, s3, s4 : st = [pc |-> s1, buffer |-> s2, out |-> s3, status |-> s4]
    BY <1>1 DEF ConnectionTypeInv
  <2> QED BY <2>1
<1>3. ConnectionTypeInv'
  BY <1>1, <1>2 DEF ConnectionTypeInv
<1>4. AsksInv'
  BY <1>2 DEF AsksInv
<1>5. ReachedInv'
  <2> DEFINE f == WholeFrom(job.v, job.input)
  <2>1. PICK p \in 1..Len(job.input) + 1 :
           /\ st.buffer \o left = RestFrom(job.input, p)
           /\ Whole(job.v, job.input) = [out |-> st.out \o f[p].out, status |-> f[p].status]
    BY DEF FramesIInv, ReachedInv
  <2>2. f[p].out = <<>> /\ f[p].status = status
    BY <2>1
  <2> HIDE DEF f
  <2>3. /\ st'.buffer \o left' = RestFrom(job.input, p)
        /\ Whole(job.v, job.input) = [out |-> st'.out \o f[p].out, status |-> f[p].status]
        /\ f[p].out = <<>> /\ st'.status = f[p].status
    BY <1>2, <2>1, <2>2
  <2> QED BY <2>1, <2>3 DEF ReachedInv, f
<1> QED BY <1>3, <1>4, <1>5 DEF FramesIInv

\* An error of the buffer is one of the whole input.
LEMMA MalformedEnds ==
    ASSUME FramesIInv, Malformed PROVE FramesIInv'
<1>1. /\ ParseFrame(job.v, st.buffer).st = "invalid" /\ st.pc # "done"
      /\ job' = job /\ left' = left
      /\ st' = [st EXCEPT !.pc = "done", !.status = "error"]
  BY DEF Malformed, Reads, Stay
<1>2. ASSUME NEW p \in 1..Len(job.input) + 1, st.buffer \o left = RestFrom(job.input, p)
      PROVE  WholeFrom(job.v, job.input)[p] = [out |-> <<>>, status |-> "error"]
  <2>1. /\ ParseFrame(job.v, RestFrom(job.input, p)).st = "invalid" /\ RestFrom(job.input, p) # <<>>
        /\ ParseFrame(job.v, RestFrom(job.input, p)).st # "ok" =>
              WholeFrom(job.v, job.input)[p]
                 = [out |-> <<>>, status |-> AtEnd(job.v, RestFrom(job.input, p))]
    BY <1>1, <1>2, FromHere
  <2> QED BY <2>1 DEF AtEnd
<1> QED BY <1>1, <1>2, EndsAsWhole

\* When nothing is left the buffer is all that is left of the whole input.
LEMMA EndOfStreamEnds ==
    ASSUME FramesIInv, EndOfStream PROVE FramesIInv'
<1>1. /\ st.pc = "reading" /\ left = <<>> /\ job' = job /\ left' = left
      /\ st' = [st EXCEPT !.pc = "done", !.status = AtEnd(job.v, st.buffer)]
  BY DEF EndOfStream, Reads, Stay
<1>2. ASSUME NEW p \in 1..Len(job.input) + 1, st.buffer \o left = RestFrom(job.input, p)
      PROVE  WholeFrom(job.v, job.input)[p] = [out |-> <<>>, status |-> AtEnd(job.v, st.buffer)]
  <2>1. RestFrom(job.input, p) = st.buffer
    <3> DEFINE s == st.buffer
    <3>1. s \in Seq(Octets)
      BY DEF FramesIInv, ConnectionTypeInv
    <3> HIDE DEF s
    <3>2. s \o <<>> = s
      BY <3>1, ConcatEmptySeq
    <3> QED BY <1>1, <1>2, <3>2 DEF s
  <2>2. ParseFrame(job.v, st.buffer).st = "incomplete"
    BY <1>1 DEF FramesIInv, AsksInv
  <2>3. ParseFrame(job.v, RestFrom(job.input, p)).st # "ok" =>
              WholeFrom(job.v, job.input)[p]
                 = [out |-> <<>>, status |-> AtEnd(job.v, RestFrom(job.input, p))]
    BY <1>2, FromHere
  <2> QED BY <2>1, <2>2, <2>3
<1> QED BY <1>1, <1>2, EndsAsWhole

\* Every step keeps the invariant.
LEMMA ConnectionStep ==
    ASSUME FramesIInv, [NextConnection]_vars PROVE FramesIInv'
<1>1. CASE UNCHANGED vars
  BY <1>1 DEF vars, FramesIInv, ConnectionTypeInv, ReachedInv, AsksInv
<1>2. CASE NextConnection
  BY <1>2, TakesFrame, NeedsMoreKeeps, CancelKeeps, ReceiveKeeps, MalformedEnds, EndOfStreamEnds
     DEF NextConnection
<1> QED BY <1>1, <1>2

\* The invariant says both properties.
LEMMA FramesHold ==
    ASSUME FramesIInv PROVE FramesIndependentOfReads /\ CheckCountsWhatParseReads
<1> DEFINE f == WholeFrom(job.v, job.input)
<1>1. IsSeq(st.out) /\ st.buffer \in Seq(Octets) /\ job.input \in Seq(Octets)
  BY DEF FramesIInv, ConnectionTypeInv
<1>2. PICK p \in 1..Len(job.input) + 1 :
           /\ Whole(job.v, job.input) = [out |-> st.out \o f[p].out, status |-> f[p].status]
           /\ st.pc = "done" => f[p].out = <<>> /\ st.status = f[p].status
  BY DEF FramesIInv, ReachedInv
<1>3. IsSeq(f[p].out)
  BY <1>1, WholeFromIs DEF IsRun
<1> DEFINE o == f[p].out
           w == Whole(job.v, job.input)
<1> DEFINE y == st.out \o o
           z == f[p].status
<1>4. w = [out |-> y, status |-> z]
  BY <1>2
<1> HIDE DEF w, y, z
<1>8. w.out = y /\ w.status = z
  BY <1>4
<1> USE DEF y, z
<1> HIDE DEF f, o
<1>5. IsPrefix(st.out, w.out)
  BY <1>1, <1>3, <1>8, PrefixOfConcat DEF o
<1>6. st.pc = "done" => st.out = w.out /\ st.status = w.status
  <2>1. PICK S : st.out \in Seq(S)
    BY <1>1 DEF IsSeq
  <2> DEFINE s == st.out
  <2>2. s \in Seq(S)
    BY <2>1
  <2> HIDE DEF s
  <2>3. s \o <<>> = s
    BY <2>2, ConcatEmptySeq
  <2> QED BY <1>2, <1>8, <2>3 DEF o, s
<1>7. CheckCountsWhatParseReads
  BY <1>1, ParseIs DEF CheckCountsWhatParseReads
<1> QED BY <1>5, <1>6, <1>7 DEF FramesIndependentOfReads, w

\* The inductive invariant, for any input, any cut and any cancelled reads.
THEOREM FramesInvariance == SpecConnection => []FramesIInv
BY ConnectionInit, ConnectionStep, PTL DEF SpecConnection

\* The frames that read_frame returns, and how the stream ends, do not depend on
\* where the reads stop nor on the calls that select! gives up
\* (connection.rs:56-81): for every stream, in either version.
THEOREM FramesAlwaysTheSame == SpecConnection => []FramesIndependentOfReads
BY FramesInvariance, FramesHold, PTL

\* Whatever is buffered, check counts the bytes that parse reads, and lets
\* through what parse can read (frame.rs:65-168): in either version.
THEOREM CheckAlwaysCounts == SpecConnection => []CheckCountsWhatParseReads
BY FramesInvariance, FramesHold, PTL

-----------------------------------------------------------------------------
\* What FlattenSeq puts together, and where its parts stand.

\* What FlattenSeq has put together after each of the sequences.
Flattens(f, seqs) ==
    f = [i \in 1..Len(seqs) |-> IF i = 1 THEN seqs[i] ELSE f[i - 1] \o seqs[i]]

LEMMA FlattensAt ==
    ASSUME NEW seqs, NEW f, Flattens(f, seqs), NEW i \in 1..Len(seqs)
    PROVE  f[i] = IF i = 1 THEN seqs[i] ELSE f[i - 1] \o seqs[i]
BY DEF Flattens

LEMMA FlattensOnce ==
    ASSUME NEW S, NEW seqs \in Seq(Seq(S)), NEW more \in Seq(Seq(S)),
           Len(seqs) <= Len(more), \A i \in 1..Len(seqs) : more[i] = seqs[i],
           NEW f, Flattens(f, seqs), NEW h, Flattens(h, more)
    PROVE  \A i \in 1..Len(seqs) : h[i] = f[i] /\ f[i] \in Seq(S)
<1> DEFINE Wrong == {i \in 1..Len(seqs) : ~(h[i] = f[i] /\ f[i] \in Seq(S))}
<1> SUFFICES ASSUME Wrong # {} PROVE FALSE
  OBVIOUS
<1>1. PICK i \in Wrong : \A j \in Wrong : i <= j
  <2>1. Wrong \subseteq Nat
    OBVIOUS
  <2> HIDE DEF Wrong
  <2> QED BY <2>1, Least
<1>2. i \in 1..Len(seqs) /\ ~(h[i] = f[i] /\ f[i] \in Seq(S))
  OBVIOUS
<1>3. i - 1 \in 1..Len(seqs) => h[i - 1] = f[i - 1] /\ f[i - 1] \in Seq(S)
  BY <1>1, <1>2
<1> HIDE DEF Wrong
<1>4. /\ f[i] = IF i = 1 THEN seqs[i] ELSE f[i - 1] \o seqs[i]
      /\ h[i] = IF i = 1 THEN seqs[i] ELSE h[i - 1] \o seqs[i]
  <2>1. i \in 1..Len(more) /\ more[i] = seqs[i]
    BY <1>2
  <2>2. f[i] = IF i = 1 THEN seqs[i] ELSE f[i - 1] \o seqs[i]
    BY <1>2, FlattensAt, SMTT(30)
  <2>3. h[i] = IF i = 1 THEN more[i] ELSE h[i - 1] \o more[i]
    BY <2>1, FlattensAt, SMTT(30)
  <2> QED BY <2>1, <2>2, <2>3
<1>5. seqs[i] \in Seq(S)
  BY <1>2
<1>6. CASE i = 1
  BY <1>2, <1>4, <1>5, <1>6
<1>7. CASE i # 1
  <2>1. h[i - 1] = f[i - 1] /\ f[i - 1] \in Seq(S)
    BY <1>2, <1>3, <1>7
  <2> QED BY <1>2, <1>4, <1>5, <1>7, <2>1
<1> QED BY <1>6, <1>7

LEMMA FlattensSome ==
    ASSUME NEW S
    PROVE  \A seqs \in Seq(Seq(S)) : \E f : Flattens(f, seqs)
<1> DEFINE Wrong == {n \in Nat : \E seqs \in Seq(Seq(S)) :
                        Len(seqs) = n /\ ~\E f : Flattens(f, seqs)}
<1>1. ASSUME Wrong # {} PROVE FALSE
  <2>1. PICK n \in Wrong : \A m \in Wrong : n <= m
    <3>1. Wrong \subseteq Nat
      OBVIOUS
    <3> HIDE DEF Wrong
    <3> QED BY <1>1, <3>1, Least
  <2>2. PICK seqs \in Seq(Seq(S)) : Len(seqs) = n /\ ~\E f : Flattens(f, seqs)
    OBVIOUS
  <2>3. n \in Nat
    OBVIOUS
  <2>4. CASE n = 0
    <3>1. Flattens([i \in 1..0 |-> <<>>], seqs)
      BY <2>2, <2>4 DEF Flattens
    <3> QED BY <2>2, <3>1
  <2>5. CASE n # 0
    <3> DEFINE front == SubSeq(seqs, 1, n - 1)
    <3>1. /\ front \in Seq(Seq(S)) /\ Len(front) = n - 1 /\ n - 1 \in Nat
          /\ \A i \in 1..n - 1 : front[i] = seqs[i]
      BY <2>2, <2>3, <2>5
    <3>2. n - 1 \notin Wrong
      BY <2>1, <2>3
    <3>3. PICK f : Flattens(f, front)
      BY <3>1, <3>2
    <3> DEFINE h == [i \in 1..n |-> IF i = 1 THEN seqs[i]
                                    ELSE f[i - 1] \o seqs[i]]
    <3> HIDE DEF front, Wrong
    <3>4. \A i \in 1..n - 1 : h[i] = f[i]
      <4> SUFFICES ASSUME NEW i \in 1..n - 1 PROVE h[i] = f[i]
        OBVIOUS
      <4>1. f[i] = IF i = 1 THEN front[i] ELSE f[i - 1] \o front[i]
        <5>1. i \in 1..Len(front)
          BY <3>1
        <5> HIDE DEF h
        <5> QED BY <3>3, <5>1, FlattensAt
      <4>2. i \in 1..n /\ front[i] = seqs[i]
        BY <2>3, <3>1
      <4> QED BY <4>1, <4>2
    <3>5. h = [i \in 1..n |-> IF i = 1 THEN seqs[i] ELSE h[i - 1] \o seqs[i]]
      <4>1. \A i \in 1..n : i # 1 => h[i - 1] = f[i - 1]
        <5> SUFFICES ASSUME NEW i \in 1..n, i # 1 PROVE h[i - 1] = f[i - 1]
          OBVIOUS
        <5>1. i - 1 \in 1..n - 1
          BY <2>3
        <5> HIDE DEF h
        <5> QED BY <3>4, <5>1
      <4> QED BY <4>1
    <3>6. Flattens(h, seqs)
      BY <2>2, <3>5 DEF Flattens
    <3> QED BY <2>2, <3>6
  <2> QED BY <2>4, <2>5
<1> QED BY <1>1

LEMMA FlattenedTypes ==
    ASSUME NEW S, NEW seqs \in Seq(Seq(S)), NEW f, Flattens(f, seqs)
    PROVE  \A i \in 1..Len(seqs) : f[i] \in Seq(S)
<1>1. Len(seqs) <= Len(seqs) /\ \A i \in 1..Len(seqs) : seqs[i] = seqs[i]
  OBVIOUS
<1>2. \A i \in 1..Len(seqs) : f[i] = f[i] /\ f[i] \in Seq(S)
  BY <1>1, FlattensOnce
<1> QED BY <1>2

LEMMA FlattenSeqIs ==
    ASSUME NEW S, NEW seqs \in Seq(Seq(S))
    PROVE  \E f : /\ Flattens(f, seqs)
                  /\ FlattenSeq(seqs) = IF Len(seqs) = 0 THEN <<>> ELSE f[Len(seqs)]
<1> DEFINE f == CHOOSE h : Flattens(h, seqs)
<1>1. Flattens(f, seqs)
  BY FlattensSome
<1>2. FlattenSeq(seqs) = IF Len(seqs) = 0 THEN seqs ELSE f[Len(seqs)]
  BY DEF FlattenSeq, Flattens
<1>3. Len(seqs) = 0 => seqs = <<>>
  OBVIOUS
<1> QED BY <1>1, <1>2, <1>3

LEMMA FlattenSeqType ==
    ASSUME NEW S, NEW seqs \in Seq(Seq(S))
    PROVE  FlattenSeq(seqs) \in Seq(S)
<1>1. PICK f : /\ Flattens(f, seqs)
               /\ FlattenSeq(seqs) = IF Len(seqs) = 0 THEN <<>> ELSE f[Len(seqs)]
  BY FlattenSeqIs
<1>2. \A i \in 1..Len(seqs) : f[i] \in Seq(S)
  BY <1>1, FlattenedTypes
<1>3. Len(seqs) # 0 => Len(seqs) \in 1..Len(seqs)
  OBVIOUS
<1>4. <<>> \in Seq(S)
  OBVIOUS
<1> QED BY <1>1, <1>2, <1>3, <1>4

-----------------------------------------------------------------------------
\* s stands in b from p on.
At(b, p, s) == /\ p \in Nat \ {0} /\ p + Len(s) <= Len(b) + 1
               /\ \A i \in 1..Len(s) : b[p + i - 1] = s[i]

\* Of two sequences that stand there one after the other.
LEMMA AtConcat ==
    ASSUME NEW S, NEW b \in Seq(S), NEW p, NEW s \in Seq(S), NEW t \in Seq(S), At(b, p, s \o t)
    PROVE  At(b, p, s) /\ At(b, p + Len(s), t)
<1> DEFINE u == s \o t
<1>1. /\ Len(u) = Len(s) + Len(t) /\ Len(s) \in Nat /\ Len(t) \in Nat
      /\ \A i \in 1..Len(s) : u[i] = s[i]
      /\ \A i \in 1..Len(t) : u[Len(s) + i] = t[i]
  OBVIOUS
<1>2. p \in Nat \ {0} /\ p + Len(u) <= Len(b) + 1 /\ \A i \in 1..Len(u) : b[p + i - 1] = u[i]
  BY DEF At
<1> HIDE DEF u
<1>3. At(b, p, s)
  BY <1>1, <1>2 DEF At
<1>4. \A i \in 1..Len(t) : b[p + Len(s) + i - 1] = t[i]
  <2> SUFFICES ASSUME NEW i \in 1..Len(t) PROVE b[p + Len(s) + i - 1] = t[i]
    OBVIOUS
  <2>1. Len(s) + i \in 1..Len(u) /\ p + (Len(s) + i) - 1 = p + Len(s) + i - 1
    BY <1>1, <1>2
  <2> QED BY <1>1, <1>2, <2>1
<1> QED BY <1>1, <1>2, <1>3, <1>4 DEF At

\* It is the part of b.
LEMMA AtSubSeq ==
    ASSUME NEW S, NEW b \in Seq(S), NEW p, NEW s \in Seq(S), At(b, p, s)
    PROVE  SubSeq(b, p, p + Len(s) - 1) = s
<1>1. /\ p \in Nat \ {0} /\ p + Len(s) - 1 \in Nat /\ p + Len(s) - 1 <= Len(b)
      /\ Len(s) \in Nat /\ \A i \in 1..Len(s) : b[p + i - 1] = s[i]
  BY DEF At
<1> DEFINE n == p + Len(s) - 1
           u == SubSeq(b, p, n)
<1>2. /\ u \in Seq(S) /\ Len(u) = IF p <= n THEN n - p + 1 ELSE 0
      /\ \A i \in 1..n - p + 1 : u[i] = b[p + i - 1]
  BY <1>1, SubSeqIs
<1> HIDE DEF u
<1>3. Len(u) = Len(s) /\ \A i \in 1..Len(u) : u[i] = s[i]
  BY <1>1, <1>2
<1> QED BY <1>2, <1>3, SeqEqual DEF u

\* What stands at the beginning of the rest from p on stands at p.
LEMMA AtRest ==
    ASSUME NEW S, NEW b \in Seq(S), NEW p, NEW s \in Seq(S), At(b, p, s)
    PROVE  At(RestFrom(b, p), 1, s)
<1>1. p \in 1..Len(b) + 1
  BY DEF At
<1>2. /\ RestFrom(b, p) \in Seq(S) /\ Len(RestFrom(b, p)) = Len(b) - p + 1
      /\ \A i \in 1..Len(b) - p + 1 : RestFrom(b, p)[i] = b[p + i - 1]
  BY <1>1, AfterIs
<1>3. \A i \in 1..Len(s) : i \in 1..Len(b) - p + 1 /\ 1 + i - 1 = i
  BY <1>1 DEF At
<1> QED BY <1>1, <1>2, <1>3 DEF At

\* Where the sequences that FlattenSeq puts together stand.
LEMMA AtFlatten ==
    ASSUME NEW S, NEW b \in Seq(S), NEW p, NEW seqs \in Seq(Seq(S)),
           FlattenSeq(seqs) \in Seq(S), At(b, p, FlattenSeq(seqs))
    PROVE  \E t \in [1..Len(seqs) + 1 -> Nat] :
              /\ t[1] = p /\ t[Len(seqs) + 1] = p + Len(FlattenSeq(seqs))
              /\ \A i \in 1..Len(seqs) : At(b, t[i], seqs[i]) /\ t[i + 1] = t[i] + Len(seqs[i])
<1> DEFINE N == Len(seqs)
           u == FlattenSeq(seqs)
<1>1. PICK f : /\ Flattens(f, seqs)
               /\ u = IF N = 0 THEN <<>> ELSE f[N]
  BY FlattenSeqIs
<1>2. \A i \in 1..N : f[i] \in Seq(S)
  BY <1>1, FlattenedTypes
<1>3. \A i \in 1..N : f[i] = IF i = 1 THEN seqs[i] ELSE f[i - 1] \o seqs[i]
  BY <1>1, FlattensAt
<1> HIDE DEF u
<1>4. N \in Nat /\ \A i \in 1..N : seqs[i] \in Seq(S)
  OBVIOUS
<1>5. p \in Nat \ {0} /\ At(b, p, u)
  BY DEF At, u
<1> DEFINE Good == {i \in 1..N : At(b, p, f[i])}
<1>6. \A i \in 1..N : i \in Good
  <2>1. ASSUME NEW k \in 1..N, \A j \in k + 1..N : j \in Good PROVE k \in Good
    <3>1. CASE k = N
      BY <1>1, <1>5, <3>1
    <3>2. CASE k # N
      <4>1. k + 1 \in 1..N /\ k + 1 # 1 /\ (k + 1) - 1 = k /\ k + 1 \in k + 1..N
        BY <3>2
      <4>2. At(b, p, f[k + 1]) /\ f[k + 1] = f[k] \o seqs[k + 1]
        BY <1>3, <2>1, <4>1
      <4> QED BY <1>2, <1>4, <4>1, <4>2, AtConcat
    <3> QED BY <3>1, <3>2
  <2> HIDE DEF Good, N
  <2> QED BY <1>4, <2>1, Backwards
<1> DEFINE t == [i \in 1..N + 1 |-> IF i = 1 THEN p ELSE p + Len(f[i - 1])]
<1>7. \A i \in 1..N : Len(f[i]) \in Nat
  BY <1>2
<1> HIDE DEF N
<1>8. t \in [1..N + 1 -> Nat]
  <2> SUFFICES ASSUME NEW i \in 1..N + 1, i # 1 PROVE p + Len(f[i - 1]) \in Nat
    BY <1>5
  <2>1. i - 1 \in 1..N
    BY <1>4
  <2> QED BY <1>5, <1>7, <2>1
<1>9. t[1] = p /\ t[N + 1] = p + Len(u)
  <2>1. 1 \in 1..N + 1 /\ N + 1 \in 1..N + 1 /\ (N + 1) - 1 = N
    BY <1>4
  <2>2. N = 0 => Len(u) = 0
    BY <1>1
  <2>3. t[N + 1] = IF N + 1 = 1 THEN p ELSE p + Len(f[N])
    BY <2>1
  <2> QED BY <1>1, <1>4, <1>5, <2>1, <2>2, <2>3
<1>10. ASSUME NEW i \in 1..N
       PROVE  At(b, t[i], seqs[i]) /\ t[i + 1] = t[i] + Len(seqs[i])
  <2>1. i \in 1..N + 1 /\ i + 1 \in 1..N + 1 /\ i + 1 # 1 /\ (i + 1) - 1 = i
    BY <1>4
  <2>2. t[i + 1] = p + Len(f[i]) /\ t[i] = IF i = 1 THEN p ELSE p + Len(f[i - 1])
    BY <2>1
  <2>3. At(b, p, f[i])
    BY <1>6
  <2> HIDE DEF t, Good
  <2>4. CASE i = 1
    BY <1>3, <2>2, <2>3, <2>4
  <2>5. CASE i # 1
    <3>1. i - 1 \in 1..N
      BY <1>4, <2>5
    <3>2. f[i] = f[i - 1] \o seqs[i] /\ f[i - 1] \in Seq(S) /\ seqs[i] \in Seq(S)
      BY <1>2, <1>3, <1>4, <2>5, <3>1
    <3>3. Len(f[i]) = Len(f[i - 1]) + Len(seqs[i])
      BY <3>2
    <3>4. Len(f[i - 1]) \in Nat /\ Len(seqs[i]) \in Nat
      BY <3>2
    <3>5. At(b, p + Len(f[i - 1]), seqs[i])
      BY <2>3, <3>2, AtConcat
    <3>6. t[i] = p + Len(f[i - 1])
      BY <2>2, <2>5
    <3>7. t[i + 1] = t[i] + Len(seqs[i])
      <4>1. \A x, y, z \in Nat : x + (y + z) = (x + y) + z
        OBVIOUS
      <4>2. p + (Len(f[i - 1]) + Len(seqs[i])) = (p + Len(f[i - 1])) + Len(seqs[i])
        BY <1>5, <3>4, <4>1
      <4> QED BY <2>2, <3>3, <3>6, <4>2, Zenon
    <3> QED BY <3>5, <3>6, <3>7
  <2> QED BY <2>4, <2>5
<1> HIDE DEF t
<1> QED BY <1>8, <1>9, <1>10 DEF N, u

-----------------------------------------------------------------------------
\* Numbers are read as they are written.

LEMMA DigitOf ==
    ASSUME NEW k \in 0..9
    PROVE  /\ DigitTexts[k + 1] \in Digits /\ DigitTexts[k + 1] \in Octets
           /\ DigitValue(DigitTexts[k + 1]) = k
<1>1. DigitTexts[k + 1] \in Digits
  BY DEF Digits, DigitTexts, ToSet
<1>2. \A i, j \in 1..10 : DigitTexts[i] = DigitTexts[j] => i = j
  BY DEF DigitTexts
<1> DEFINE i == CHOOSE i \in 1..10 : DigitTexts[i] = DigitTexts[k + 1]
<1>3. k + 1 \in 1..10
  OBVIOUS
<1>4. i \in 1..10 /\ DigitTexts[i] = DigitTexts[k + 1]
  BY <1>3
<1> HIDE DEF i
<1>5. i = k + 1
  BY <1>2, <1>3, <1>4
<1>6. DigitValue(DigitTexts[k + 1]) = i - 1
  BY DEF DigitValue, i
<1> QED BY <1>1, <1>5, <1>6 DEF Octets

\* One digit more.
LEMMA ValueGrows ==
    ASSUME NEW digits \in Seq(Digits), NEW d \in Digits
    PROVE  Value(digits \o <<d>>) = 10 * Value(digits) + DigitValue(d)
<1> DEFINE more == digits \o <<d>>
           N == Len(digits)
<1>1. /\ more \in Seq(Digits) /\ Len(more) = N + 1 /\ more[N + 1] = d
      /\ \A n \in 1..N : more[n] = digits[n]
  OBVIOUS
<1> HIDE DEF more
<1>2. PICK f : ValuesUpTo(digits, N, f) /\ Value(digits) = f[N]
  BY ValuesAre
<1>3. PICK h : ValuesUpTo(more, N + 1, h) /\ Value(more) = h[N + 1]
  BY <1>1, ValuesAre
<1>4. N \in Nat
  OBVIOUS
<1> HIDE DEF N
<1>5. \A n \in 0..N : f[n] = IF n = 0 THEN 0 ELSE 10 * f[n - 1] + DigitValue(digits[n])
  BY <1>2 DEF ValuesUpTo
<1>6. \A n \in 0..N + 1 : h[n] = IF n = 0 THEN 0 ELSE 10 * h[n - 1] + DigitValue(more[n])
  BY <1>3 DEF ValuesUpTo
<1>7. \A n \in 0..N : h[n] = f[n]
  <2> DEFINE Bad == {n \in 0..N : h[n] # f[n]}
  <2> SUFFICES ASSUME Bad # {} PROVE FALSE
    OBVIOUS
  <2>1. PICK n \in Bad : \A j \in Bad : n <= j
    <3>1. Bad \subseteq Nat
      OBVIOUS
    <3> HIDE DEF Bad
    <3> QED BY <3>1, Least
  <2>2. n \in 0..N /\ n \in 0..N + 1 /\ h[n] # f[n]
    BY <1>4
  <2>3. n # 0 => n - 1 \in 0..N /\ n \in 1..N /\ h[n - 1] = f[n - 1]
    BY <1>4, <2>1, <2>2
  <2> HIDE DEF Bad
  <2>4. n # 0 => more[n] = digits[n]
    BY <1>1, <2>3
  <2>5. /\ f[n] = IF n = 0 THEN 0 ELSE 10 * f[n - 1] + DigitValue(digits[n])
        /\ h[n] = IF n = 0 THEN 0 ELSE 10 * h[n - 1] + DigitValue(more[n])
    BY <1>5, <1>6, <2>2
  <2> QED BY <2>2, <2>3, <2>4, <2>5
<1>8. h[N + 1] = 10 * f[N] + DigitValue(d)
  <2>1. N + 1 \in 0..N + 1 /\ N + 1 # 0 /\ (N + 1) - 1 = N /\ N \in 0..N
    BY <1>4
  <2> QED BY <1>1, <1>6, <1>7, <2>1
<1> QED BY <1>2, <1>3, <1>8 DEF more

\* The function in WriteDecimal.
DecimalTexts(n, f) ==
    f = [k \in 0..n |-> IF k < 10 THEN <<DigitTexts[k + 1]>>
                        ELSE f[k \div 10] \o <<DigitTexts[(k % 10) + 1]>>]

LEMMA DecimalTextsExist ==
    ASSUME NEW n \in Nat
    PROVE  \E f : DecimalTexts(n, f)
<1> DEFINE Wrong == {k \in Nat : ~\E f : DecimalTexts(k, f)}
<1>1. ASSUME Wrong # {} PROVE FALSE
  <2>1. PICK k \in Wrong : \A j \in Wrong : k <= j
    <3>1. Wrong \subseteq Nat
      OBVIOUS
    <3> HIDE DEF Wrong
    <3> QED BY <1>1, <3>1, Least
  <2>2. k \in Nat /\ ~\E f : DecimalTexts(k, f)
    OBVIOUS
  <2>3. PICK f : k # 0 => DecimalTexts(k - 1, f)
    <3>1. k # 0 => k - 1 \in Nat /\ k - 1 \notin Wrong
      BY <2>1, <2>2
    <3> QED BY <3>1
  <2> HIDE DEF Wrong
  <2> DEFINE Shown(g, i) == IF i < 10 THEN <<DigitTexts[i + 1]>>
                           ELSE g[i \div 10] \o <<DigitTexts[(i % 10) + 1]>>
             h == [i \in 0..k |-> IF i < k THEN f[i] ELSE Shown(f, i)]
  <2>4. \A i \in 0..k : i >= 10 => i \div 10 \in 0..k - 1 /\ i \div 10 < i /\ i \div 10 < k
    BY <2>2
  <2>5. \A i \in 0..k : h[i] = Shown(f, i)
    <3> SUFFICES ASSUME NEW i \in 0..k, i < k PROVE f[i] = Shown(f, i)
      OBVIOUS
    <3>1. k # 0 /\ i \in 0..k - 1
      BY <2>2
    <3> QED BY <2>3, <3>1 DEF DecimalTexts
  <2>6. \A i \in 0..k : Shown(f, i) = Shown(h, i)
    <3> SUFFICES ASSUME NEW i \in 0..k, ~(i < 10) PROVE h[i \div 10] = f[i \div 10]
      OBVIOUS
    <3>1. i \div 10 \in 0..k /\ i \div 10 < k
      BY <2>2, <2>4
    <3> QED BY <3>1
  <2>7. h = [i \in 0..k |-> Shown(h, i)]
    <3>1. \A i \in 0..k : h[i] = Shown(h, i)
      BY <2>5, <2>6
    <3> DEFINE e == [i \in 0..k |-> Shown(h, i)]
    <3>2. h = [i \in 0..k |-> h[i]]
      OBVIOUS
    <3> HIDE DEF h
    <3> QED BY <3>1, <3>2
  <2>8. DecimalTexts(k, h)
    <3> HIDE DEF h
    <3> QED BY <2>7 DEF DecimalTexts
  <2> QED BY <2>2, <2>8
<1> QED BY <1>1

\* A number is written in digits that are this number.
LEMMA WritesDecimal ==
    ASSUME NEW n \in Nat
    PROVE  \E text \in Seq(Digits) : /\ text # <<>> /\ Value(text) = n
                                     /\ WriteDecimal(n) = text \o CRLF
<1> DEFINE f == CHOOSE g : DecimalTexts(n, g)
<1>1. DecimalTexts(n, f)
  BY DecimalTextsExist
<1>2. WriteDecimal(n) = f[n] \o CRLF
  BY DEF WriteDecimal, DecimalTexts
<1> HIDE DEF f
<1> DEFINE Good(k) == f[k] \in Seq(Digits) /\ f[k] # <<>> /\ Value(f[k]) = k
           Wrong == {k \in 0..n : ~Good(k)}
<1>3. ASSUME Wrong # {} PROVE FALSE
  <2>1. PICK k \in Wrong : \A j \in Wrong : k <= j
    <3>1. Wrong \subseteq Nat
      OBVIOUS
    <3> HIDE DEF Wrong
    <3> QED BY <1>3, <3>1, Least
  <2>2. k \in 0..n /\ ~Good(k)
    OBVIOUS
  <2>3. f[k] = IF k < 10 THEN <<DigitTexts[k + 1]>>
               ELSE f[k \div 10] \o <<DigitTexts[(k % 10) + 1]>>
    BY <1>1, <2>2 DEF DecimalTexts
  <2>4. CASE k < 10
    <3>1. k \in 0..9
      BY <2>2, <2>4
    <3> DEFINE d == DigitTexts[k + 1]
    <3>2. d \in Digits /\ DigitValue(d) = k
      BY <3>1, DigitOf
    <3> HIDE DEF d
    <3>3. <<>> \in Seq(Digits) /\ <<>> \o <<d>> = <<d>>
      OBVIOUS
    <3>4. Value(<<>>) = 0
      <4>1. PICK g : ValuesUpTo(<<>>, 0, g) /\ Value(<<>>) = g[0]
        <5>1. Len(<<>>) = 0
          OBVIOUS
        <5> QED BY <3>3, <5>1, ValuesAre
      <4> QED BY <4>1 DEF ValuesUpTo
    <3>5. Value(<<d>>) = 10 * Value(<<>>) + DigitValue(d)
      BY <3>2, <3>3, ValueGrows
    <3>6. Value(<<d>>) = k
      BY <2>2, <3>2, <3>4, <3>5
    <3>7. f[k] = <<d>> /\ <<d>> \in Seq(Digits) /\ <<d>> # <<>>
      BY <2>3, <2>4, <3>2 DEF d
    <3> QED BY <2>2, <3>6, <3>7
  <2>5. CASE ~(k < 10)
    <3> DEFINE q == k \div 10
               m == k % 10
    <3>1. q \in 0..n /\ q < k /\ m \in 0..9 /\ k = 10 * q + m
      BY <2>2, <2>5
    <3>2. q \notin Wrong
      BY <2>1, <3>1
    <3>3. Good(q)
      BY <3>1, <3>2
    <3> DEFINE d == DigitTexts[m + 1]
    <3>4. f[k] = f[q] \o <<d>>
      BY <2>3, <2>5
    <3>5. d \in Digits /\ DigitValue(d) = m
      <4> HIDE DEF m
      <4> QED BY <3>1, DigitOf
    <3> HIDE DEF d, q, m, Wrong
    <3>6. Value(f[k]) = 10 * Value(f[q]) + DigitValue(d)
      BY <3>3, <3>4, <3>5, ValueGrows
    <3>7. f[k] \in Seq(Digits) /\ f[k] # <<>>
      BY <3>3, <3>4, <3>5
    <3>8. Value(f[k]) = k
      BY <3>1, <3>3, <3>5, <3>6
    <3> QED BY <2>2, <3>7, <3>8
  <2> QED BY <2>4, <2>5
<1>4. n \in 0..n
  OBVIOUS
<1>5. Good(n)
  BY <1>3, <1>4
<1> HIDE DEF Good, Wrong
<1> QED BY <1>2, <1>5 DEF Good

\* It is read as that number, in either version.
LEMMA DecimalReads ==
    ASSUME NEW text \in Seq(Digits), text # <<>>, NEW v
    PROVE  Decimal(v, text) = {Value(text)}
<1> DEFINE N == Len(text)
           all == {i \in 0..N : ToSet(SubSeq(text, 1, i)) \subseteq Digits}
<1>1. N \in Nat /\ N > 0 /\ SubSeq(text, 1, N) = text
  OBVIOUS
<1>2. ToSet(SubSeq(text, 1, N)) \subseteq Digits
  BY <1>1 DEF ToSet
<1>3. N \in all /\ all \subseteq 0..N
  BY <1>1, <1>2
<1> HIDE DEF all
<1>4. Max(all) \in all /\ \A j \in all : j <= Max(all)
  BY <1>1, <1>3, MaxIs
<1>5. Max(all) = N
  <2>1. Max(all) \in 0..N /\ N <= Max(all)
    BY <1>3, <1>4
  <2> HIDE DEF N
  <2> QED BY <1>1, <2>1
<1>6. Leading(text) = N
  BY <1>5 DEF Leading, all
<1>7. Unsigned(text, TRUE) = {Value(text)}
  <2>1. {Leading(text)} \ (IF TRUE THEN {0} ELSE {}) = {N}
    BY <1>1, <1>6
  <2> DEFINE T == {Leading(text)} \ (IF TRUE THEN {0} ELSE {})
  <2>2. Unsigned(text, TRUE) = {Value(SubSeq(text, 1, n)) : n \in T}
    BY DEF Unsigned
  <2> HIDE DEF N, T
  <2> QED BY <1>1, <2>1, <2>2 DEF T
<1>8. Head(text) # "+" /\ Head(text) # "-"
  <2>1. Head(text) \in Digits
    OBVIOUS
  <2> QED BY <2>1 DEF Digits, DigitTexts, ToSet
<1> QED BY <1>7, <1>8 DEF Decimal

-----------------------------------------------------------------------------
\* Values are read as they are written.

\* Sequences that are put together.
LEMMA Joined ==
    ASSUME NEW S, NEW s \in Seq(S), NEW t \in Seq(S)
    PROVE  s \o t \in Seq(S) /\ Len(s \o t) = Len(s) + Len(t) /\ Len(s) \in Nat /\ Len(t) \in Nat
  OBVIOUS

LEMMA JoinedThree ==
    ASSUME NEW s \in Seq(Octets), NEW t \in Seq(Octets), NEW u \in Seq(Octets)
    PROVE  (s \o t) \o u = s \o (t \o u)
  BY ConcatAssociative

\* Two sequences that stand one after the other stand there as one.
LEMMA AtBoth ==
    ASSUME NEW S, NEW b \in Seq(S), NEW p, NEW s \in Seq(S), NEW t \in Seq(S),
           At(b, p, s), At(b, p + Len(s), t)
    PROVE  At(b, p, s \o t)
<1> DEFINE u == s \o t
<1>1. /\ Len(u) = Len(s) + Len(t) /\ Len(s) \in Nat /\ Len(t) \in Nat
      /\ \A i \in 1..Len(s) : u[i] = s[i]
      /\ \A i \in 1..Len(t) : u[Len(s) + i] = t[i]
  OBVIOUS
<1> HIDE DEF u
<1>2. /\ p \in Nat \ {0} /\ p + Len(s) + Len(t) <= Len(b) + 1
      /\ \A i \in 1..Len(s) : b[p + i - 1] = s[i]
      /\ \A i \in 1..Len(t) : b[p + Len(s) + i - 1] = t[i]
  BY DEF At
<1>3. \A i \in 1..Len(u) : b[p + i - 1] = u[i]
  <2> SUFFICES ASSUME NEW i \in 1..Len(u) PROVE b[p + i - 1] = u[i]
    OBVIOUS
  <2>1. CASE i <= Len(s)
    <3>1. i \in 1..Len(s)
      BY <1>1, <2>1
    <3> QED BY <1>1, <1>2, <3>1
  <2>2. CASE ~(i <= Len(s))
    <3> DEFINE j == i - Len(s)
    <3>1. j \in 1..Len(t) /\ Len(s) + j = i /\ p + Len(s) + j - 1 = p + i - 1
      BY <1>1, <1>2, <2>2
    <3> HIDE DEF j
    <3> QED BY <1>1, <1>2, <3>1
  <2> QED BY <2>1, <2>2
<1>4. p + Len(u) <= Len(b) + 1
  BY <1>1, <1>2
<1> QED BY <1>2, <1>3, <1>4 DEF At, u

LEMMA OctetsAre ==
    /\ CRLF \in Seq(Octets) /\ Len(CRLF) = 2 /\ CRLF[1] = "CR" /\ CRLF[2] = "LF"
    /\ Digits \subseteq Octets /\ "CR" \notin Digits /\ "-" \notin Digits
  BY DEF CRLF, Octets, Digits, DigitTexts, ToSet

\* A text without line ends, as a line.
LEMMA LineAt ==
    ASSUME NEW b \in Seq(Octets), NEW p, NEW text \in Seq(Octets),
           \A i \in DOMAIN text : text[i] # "CR", At(b, p, text \o CRLF)
    PROVE  GetLine(b, p) = Found(p + Len(text) + 2, text)
<1> DEFINE e == p + Len(text)
<1>1. At(b, p, text) /\ At(b, e, CRLF)
  BY OctetsAre, AtConcat
<1>2. p \in Nat \ {0} /\ Len(text) \in Nat /\ \A i \in 1..Len(text) : b[p + i - 1] = text[i]
  BY <1>1 DEF At
<1>3. e \in Nat /\ p <= e /\ e + 2 <= Len(b) + 1 /\ b[e] = "CR" /\ b[e + 1] = "LF"
  <2>1. b[e + 1 - 1] = "CR" /\ b[e + 2 - 1] = "LF"
    BY <1>1, OctetsAre DEF At
  <2> QED BY <1>1, <1>2, <2>1, OctetsAre DEF At
<1> HIDE DEF e
<1>4. e \in LineEnds(b, p)
  BY <1>2, <1>3 DEF LineEnds
<1>5. PICK i \in LineEnds(b, p) :
        /\ \A j \in LineEnds(b, p) : i <= j
        /\ GetLine(b, p) = Found(i + 2, SubSeq(b, p, i - 1))
  BY <1>2, <1>4, GetLineIs
<1>6. i \in Nat /\ p <= i /\ b[i] = "CR" /\ i <= e
  BY <1>2, <1>4, <1>5 DEF LineEnds
<1>7. i = e
  <2> SUFFICES ASSUME i < e PROVE FALSE
    BY <1>3, <1>6
  <2> DEFINE j == i - p + 1
  <2>1. j \in 1..Len(text) /\ p + j - 1 = i
    BY <1>2, <1>3, <1>6 DEF e
  <2> HIDE DEF j
  <2>2. text[j] = "CR"
    BY <1>2, <1>6, <2>1
  <2> QED BY <2>1, <2>2
<1>8. SubSeq(b, p, p + Len(text) - 1) = text
  BY <1>1, AtSubSeq
<1>9. i = p + Len(text)
  BY <1>7 DEF e
<1>10. i - 1 = p + Len(text) - 1 /\ i + 2 = p + Len(text) + 2
  BY <1>2, <1>6, <1>9
<1> QED BY <1>5, <1>8, <1>10

LEMMA WriteDecimalIs ==
    ASSUME NEW n \in Nat
    PROVE  /\ WriteDecimal(n) \in Seq(Octets) /\ Len(WriteDecimal(n)) >= 3
           /\ WriteDecimal(n)[1] \in Digits
<1>1. PICK text \in Seq(Digits) : /\ text # <<>> /\ Value(text) = n
                                  /\ WriteDecimal(n) = text \o CRLF
  BY WritesDecimal
<1>2. text \in Seq(Octets)
  BY OctetsAre, SeqMonotonic
<1>3. CRLF \in Seq(Octets) /\ Len(CRLF) = 2
  BY OctetsAre
<1>4. text[1] \in Digits /\ Len(text) >= 1
  BY <1>1
<1> QED BY <1>1, <1>2, <1>3, <1>4

\* A number is read where it is written.
LEMMA DecimalAt ==
    ASSUME NEW v, NEW b \in Seq(Octets), NEW p, NEW n \in Nat, At(b, p, WriteDecimal(n))
    PROVE  GetDecimal(v, b, p) = Found(p + Len(WriteDecimal(n)), n)
<1>1. PICK text \in Seq(Digits) : /\ text # <<>> /\ Value(text) = n
                                  /\ WriteDecimal(n) = text \o CRLF
  BY WritesDecimal
<1>2. text \in Seq(Octets) /\ \A i \in DOMAIN text : text[i] # "CR"
  BY OctetsAre, SeqMonotonic
<1>3. GetLine(b, p) = Found(p + Len(text) + 2, text)
  BY <1>1, <1>2, LineAt
<1>4. Decimal(v, text) = {n}
  BY <1>1, DecimalReads
<1>5. p + Len(WriteDecimal(n)) = p + Len(text) + 2
  <2>1. Len(WriteDecimal(n)) = Len(text) + Len(CRLF) /\ Len(text) \in Nat
    BY <1>1, <1>2, OctetsAre, Joined
  <2>2. p \in Nat /\ Len(CRLF) = 2
    BY OctetsAre DEF At
  <2> QED BY <2>1, <2>2
<1>6. Numbered(p + Len(text) + 2, {n}) = Found(p + Len(text) + 2, n)
  BY DEF Numbered
<1>7. DecimalOf(v, Found(p + Len(text) + 2, text))
        = Numbered(p + Len(text) + 2, Decimal(v, text))
  BY DEF DecimalOf, Found
<1> QED BY <1>3, <1>4, <1>5, <1>6, <1>7 DEF GetDecimal

-----------------------------------------------------------------------------
\* What is written as a value: no array, and a line that is text and no more
\* than one line.
Written(frame) ==
    \/ \E text \in Seq(Octets) : /\ frame = Simple(text) /\ Utf8(text)
                                 /\ \A i \in DOMAIN text : text[i] # "CR"
    \/ \E n \in Nat : frame = Integer(n)
    \/ frame = Null
    \/ \E text \in Seq(Octets) : frame = Bulk(text)

\* The first byte of what is written, and the bytes after it.
LEMMA FirstByte ==
    ASSUME NEW b \in Seq(Octets), NEW p, NEW c \in Octets, NEW s \in Seq(Octets),
           At(b, p, <<c>> \o s)
    PROVE  /\ p \in 1..Len(b) /\ b[p] = c /\ At(b, p + 1, s)
           /\ Len(s) \in Nat /\ p + 1 + Len(s) <= Len(b) + 1
           /\ Len(<<c>> \o s) = Len(s) + 1
<1>1. <<c>> \in Seq(Octets) /\ Len(<<c>>) = 1 /\ <<c>>[1] = c
  OBVIOUS
<1>2. At(b, p, <<c>>) /\ At(b, p + 1, s)
  BY <1>1, AtConcat
<1>3. p \in Nat \ {0} /\ p + 1 <= Len(b) + 1 /\ b[p + 1 - 1] = c
  BY <1>1, <1>2 DEF At
<1>4. p + 1 + Len(s) <= Len(b) + 1 /\ Len(s) \in Nat
  BY <1>2 DEF At
<1>5. Len(<<c>> \o s) = Len(s) + 1
  BY <1>1
<1> QED BY <1>2, <1>3, <1>4, <1>5

LEMMA SimpleAt ==
    ASSUME NEW v, NEW b \in Seq(Octets), NEW p, NEW text \in Seq(Octets), Utf8(text),
           \A i \in DOMAIN text : text[i] # "CR",
           At(b, p, WriteValue(Simple(text)))
    PROVE  /\ WriteValue(Simple(text)) \in Seq(Octets)
           /\ ParseAt(v, b, p) = Found(p + Len(WriteValue(Simple(text))), Simple(text))
<1> DEFINE line == text \o CRLF
           w == WriteValue(Simple(text))
<1>1. w = <<"+">> \o text \o CRLF
  BY DEF WriteValue, Simple, Frame
<1>2. "+" \in Octets /\ CRLF \in Seq(Octets) /\ Len(CRLF) = 2
  BY OctetsAre DEF Octets
<1>3. line \in Seq(Octets) /\ w = <<"+">> \o line /\ Len(line) = Len(text) + 2
  <2>1. <<"+">> \in Seq(Octets)
    BY <1>2
  <2>2. (<<"+">> \o text) \o CRLF = <<"+">> \o line
    BY <1>2, <2>1, JoinedThree
  <2> QED BY <1>1, <1>2, <2>2, Joined
<1> HIDE DEF line
<1>4. w \in Seq(Octets)
  BY <1>2, <1>3
<1> HIDE DEF w
<1>5. /\ p \in 1..Len(b) /\ b[p] = "+" /\ At(b, p + 1, line) /\ Len(w) = Len(line) + 1
  BY <1>2, <1>3, FirstByte DEF w
<1>6. GetLine(b, p + 1) = Found(p + 1 + Len(text) + 2, text)
  BY <1>5, LineAt DEF line
<1>7. Place(b, p) = "line"
  BY <1>5 DEF Place
<1>8. ParseAt(v, b, p) = OfText(v, "simple", GetLine(b, p + 1))
  BY <1>5, <1>7, ParsePlaces
<1>9. OfText(v, "simple", Found(p + 1 + Len(text) + 2, text))
        = Found(p + 1 + Len(text) + 2, Simple(text))
  BY DEF OfText, Found, Simple
<1>10. p + 1 + Len(text) + 2 = p + Len(w)
  <2>1. Len(w) = Len(text) + 2 + 1 /\ Len(text) \in Nat /\ p \in Nat
    BY <1>3, <1>5
  <2> QED BY <2>1
<1> QED BY <1>4, <1>6, <1>8, <1>9, <1>10 DEF w

LEMMA IntegerAt ==
    ASSUME NEW v, NEW b \in Seq(Octets), NEW p, NEW n \in Nat,
           At(b, p, WriteValue(Integer(n)))
    PROVE  /\ WriteValue(Integer(n)) \in Seq(Octets)
           /\ ParseAt(v, b, p) = Found(p + Len(WriteValue(Integer(n))), Integer(n))
<1> DEFINE d == WriteDecimal(n)
           w == WriteValue(Integer(n))
<1>1. w = <<":">> \o d
  BY DEF WriteValue, Integer, Frame
<1>2. ":" \in Octets /\ d \in Seq(Octets)
  BY WriteDecimalIs DEF Octets
<1> HIDE DEF w, d
<1>3. w \in Seq(Octets)
  BY <1>1, <1>2
<1>4. p \in 1..Len(b) /\ b[p] = ":" /\ At(b, p + 1, d) /\ Len(w) = Len(d) + 1
  BY <1>1, <1>2, FirstByte DEF w
<1>5. GetDecimal(v, b, p + 1) = Found(p + 1 + Len(d), n)
  BY <1>4, DecimalAt DEF d
<1>6. Place(b, p) = "number"
  BY <1>4 DEF Place
<1>7. ParseAt(v, b, p) = OfNumber("integer", GetDecimal(v, b, p + 1))
  BY <1>4, <1>6, ParsePlaces
<1>8. OfNumber("integer", Found(p + 1 + Len(d), n)) = Found(p + 1 + Len(d), Integer(n))
  BY DEF OfNumber, Found, Integer
<1>9. p + 1 + Len(d) = p + Len(w)
  BY <1>2, <1>4
<1> QED BY <1>3, <1>5, <1>7, <1>8, <1>9 DEF w

LEMMA NullAt ==
    ASSUME NEW v, NEW b \in Seq(Octets), NEW p, At(b, p, WriteValue(Null))
    PROVE  /\ WriteValue(Null) \in Seq(Octets)
           /\ ParseAt(v, b, p) = Found(p + Len(WriteValue(Null)), Null)
<1> DEFINE one == <<"-", "1">>
           line == one \o CRLF
           w == WriteValue(Null)
<1>1. w = <<"$", "-", "1">> \o CRLF
  BY DEF WriteValue, Null, Frame
<1>2. /\ "$" \in Octets /\ CRLF \in Seq(Octets) /\ Len(CRLF) = 2
      /\ one \in Seq(Octets) /\ Len(one) = 2 /\ one[1] = "-" /\ one[2] = "1"
  <2>1. "-" \in Octets /\ "1" \in Octets /\ "$" \in Octets
    BY DEF Octets, Digits, DigitTexts, ToSet
  <2> QED BY <2>1, OctetsAre
<1>3. line \in Seq(Octets) /\ w = <<"$">> \o line /\ Len(line) = 4
  <2>1. <<"$", "-", "1">> = <<"$">> \o one
    OBVIOUS
  <2> HIDE DEF one
  <2> DEFINE dollar == <<"$">>
  <2>2. w = (dollar \o one) \o CRLF
    BY <1>1, <2>1
  <2>3. dollar \in Seq(Octets)
    BY <1>2
  <2> HIDE DEF dollar
  <2>4. (dollar \o one) \o CRLF = dollar \o line
    <3>1. CRLF \in Seq(Octets) /\ one \in Seq(Octets)
      BY <1>2
    <3> QED BY <2>3, <3>1, JoinedThree
  <2>5. line \in Seq(Octets) /\ Len(line) = Len(one) + Len(CRLF)
    BY <1>2, Joined, Zenon
  <2>6. Len(one) + Len(CRLF) = 4
    BY <1>2
  <2> QED BY <2>2, <2>4, <2>5, <2>6 DEF dollar
<1> HIDE DEF line
<1>4. w \in Seq(Octets)
  BY <1>2, <1>3
<1> HIDE DEF w, one
<1>5. p \in 1..Len(b) /\ b[p] = "$" /\ At(b, p + 1, line) /\ Len(w) = 5 /\ p + 5 <= Len(b) + 1
  <2>1. At(b, p, <<"$">> \o line)
    BY <1>3 DEF w
  <2>2. /\ p \in 1..Len(b) /\ b[p] = "$" /\ At(b, p + 1, line)
        /\ Len(<<"$">> \o line) = Len(line) + 1 /\ p + 1 + Len(line) <= Len(b) + 1
    <3>1. "$" \in Octets /\ line \in Seq(Octets)
      BY <1>2, <1>3
    <3> QED BY <2>1, <3>1, FirstByte
  <2> QED BY <1>3, <2>2
<1>6. \A i \in DOMAIN one : one[i] # "CR"
  BY <1>2
<1>7. GetLine(b, p + 1) = Found(p + 1 + Len(one) + 2, one)
  BY <1>2, <1>5, <1>6, LineAt DEF line
<1>8. b[p + 1] = "-"
  <2>1. At(b, p + 1, one)
    BY <1>2, <1>5, AtConcat DEF line
  <2>2. 1 \in 1..Len(one) /\ p + 1 + 1 - 1 = p + 1
    BY <1>2, <1>5
  <2> QED BY <1>2, <2>1, <2>2 DEF At
<1>9. Place(b, p) = "null"
  BY <1>5, <1>8 DEF Place, IsNull
<1>10. ParseAt(v, b, p) = OfNull(GetLine(b, p + 1))
  BY <1>5, <1>9, ParsePlaces
<1>11. OfNull(Found(p + 1 + Len(one) + 2, one)) = Found(p + 1 + Len(one) + 2, Null)
  BY DEF OfNull, Found, one
<1>12. p + 1 + Len(one) + 2 = p + Len(w)
  BY <1>2, <1>5
<1> QED BY <1>4, <1>7, <1>10, <1>11, <1>12 DEF w

LEMMA BulkFrameAt ==
    ASSUME NEW v, NEW b \in Seq(Octets), NEW p, NEW text \in Seq(Octets),
           At(b, p, WriteValue(Bulk(text)))
    PROVE  /\ WriteValue(Bulk(text)) \in Seq(Octets)
           /\ ParseAt(v, b, p) = Found(p + Len(WriteValue(Bulk(text))), Bulk(text))
<1> DEFINE n == Len(text)
           d == WriteDecimal(n)
           line == text \o CRLF
           w == WriteValue(Bulk(text))
<1>1. w = <<"$">> \o d \o text \o CRLF
  BY DEF WriteValue, Bulk, Frame
<1>2. /\ "$" \in Octets /\ CRLF \in Seq(Octets) /\ Len(CRLF) = 2 /\ n \in Nat
      /\ d \in Seq(Octets) /\ Len(d) >= 3 /\ d[1] \in Digits
  <2>1. n \in Nat
    OBVIOUS
  <2>2. "$" \in Octets
    BY DEF Octets
  <2> HIDE DEF n
  <2> QED BY <2>1, <2>2, OctetsAre, WriteDecimalIs
<1> HIDE DEF w, d
<1>3. line \in Seq(Octets) /\ w = <<"$">> \o (d \o line) /\ Len(line) = n + 2
  <2> DEFINE dollar == <<"$">>
             front == dollar \o d
  <2>1. dollar \in Seq(Octets)
    BY <1>2
  <2>2. w = (front \o text) \o CRLF
    BY <1>1
  <2> HIDE DEF dollar
  <2>3. front \in Seq(Octets)
    BY <1>2, <2>1, Joined
  <2>4. line \in Seq(Octets) /\ Len(line) = n + 2
    BY <1>2, Joined
  <2>5. front \o line = dollar \o (d \o line)
    <3> HIDE DEF line
    <3>1. d \in Seq(Octets)
      BY <1>2
    <3> QED BY <2>1, <2>4, <3>1, JoinedThree
  <2> HIDE DEF front
  <2>6. (front \o text) \o CRLF = front \o line
    <3>1. CRLF \in Seq(Octets) /\ text \in Seq(Octets)
      BY <1>2
    <3> QED BY <2>3, <3>1, JoinedThree
  <2> QED BY <2>2, <2>4, <2>5, <2>6 DEF dollar
<1> HIDE DEF line, n
<1>4. w \in Seq(Octets) /\ d \o line \in Seq(Octets) /\ Len(d \o line) = Len(d) + n + 2
  <2>1. d \o line \in Seq(Octets) /\ Len(d \o line) = Len(d) + Len(line) /\ Len(d) \in Nat
    BY <1>2, <1>3, Joined
  <2>2. <<"$">> \in Seq(Octets)
    BY <1>2
  <2>3. w \in Seq(Octets)
    BY <1>3, <2>1, <2>2, Joined
  <2> QED BY <1>2, <1>3, <2>1, <2>3
<1>5. /\ p \in 1..Len(b) /\ b[p] = "$" /\ At(b, p + 1, d \o line)
      /\ Len(w) = Len(d \o line) + 1 /\ p + 1 + Len(d \o line) <= Len(b) + 1
  <2> DEFINE s == d \o line
  <2>1. At(b, p, <<"$">> \o s) /\ s \in Seq(Octets)
    BY <1>3, <1>4 DEF w
  <2> HIDE DEF s
  <2>2. /\ p \in 1..Len(b) /\ b[p] = "$" /\ At(b, p + 1, s)
        /\ Len(<<"$">> \o s) = Len(s) + 1 /\ p + 1 + Len(s) <= Len(b) + 1
    <3>1. "$" \in Octets
      BY <1>2
    <3> QED BY <2>1, <3>1, FirstByte
  <2> QED BY <1>3, <2>2 DEF s
<1>6. At(b, p + 1, d) /\ At(b, p + 1 + Len(d), line)
  BY <1>2, <1>3, <1>5, AtConcat
<1> DEFINE q == p + 1 + Len(d)
<1>7. GetDecimal(v, b, p + 1) = Found(q, n)
  BY <1>2, <1>6, DecimalAt DEF d
<1>8. b[p + 1] \in Digits /\ p < Len(b)
  <2>1. 1 \in 1..Len(d) /\ p + 1 + 1 - 1 = p + 1
    BY <1>2, <1>5
  <2>2. b[p + 1 + 1 - 1] = d[1]
    BY <1>6, <2>1 DEF At
  <2>3. d[1] \in Digits
    BY <1>2, <2>1
  <2>4. p < Len(b)
    BY <1>2, <1>4, <1>5
  <2> QED BY <2>1, <2>2, <2>3, <2>4
<1>9. Place(b, p) = "bulk"
  <2>1. b[p + 1] # "-"
    BY <1>8, OctetsAre
  <2> QED BY <1>5, <1>8, <2>1 DEF Place, IsNull
<1>10. ParseAt(v, b, p) = OfBulk(BulkAt(v, b, p + 1))
  BY <1>5, <1>9, ParsePlaces
<1>11. q \in Nat /\ q + n + 2 <= Len(b) + 1 /\ q + n + 2 = p + Len(w)
  BY <1>2, <1>4, <1>5
<1>12. SubSeq(b, q, q + (n + 2) - 1) = line
  <2>1. SubSeq(b, q, q + Len(line) - 1) = line
    BY <1>3, <1>6, AtSubSeq
  <2> QED BY <1>3, <2>1
<1> HIDE DEF q
<1>13. Skip(b, q, n + 2) = Found(q + n + 2, line)
  <2>1. ~(Len(b) - q + 1 < n + 2) /\ q + (n + 2) = q + n + 2
    BY <1>2, <1>11
  <2> QED BY <1>12, <2>1 DEF Skip
<1>14. BulkAt(v, b, p + 1) = Found(q + n + 2, line)
  BY <1>7, <1>13 DEF BulkAt, BulkBytes, Found
<1>15. SubSeq(line, 1, Len(line) - 2) = text
  <2>1. SubSeq(text \o CRLF, 1, Len(text)) = text
    BY <1>2
  <2>2. Len(line) - 2 = Len(text)
    BY <1>2, <1>3 DEF n
  <2> QED BY <2>1, <2>2 DEF line
<1>16. OfBulk(Found(q + n + 2, line)) = Found(q + n + 2, Bulk(text))
  BY <1>15 DEF OfBulk, Found
<1> QED BY <1>4, <1>10, <1>11, <1>14, <1>16 DEF w

\* A value is parsed where it is written, in either version.
LEMMA ValueAt ==
    ASSUME NEW v, NEW b \in Seq(Octets), NEW p, NEW frame, Written(frame),
           At(b, p, WriteValue(frame))
    PROVE  /\ ParseAt(v, b, p) = Found(p + Len(WriteValue(frame)), frame)
           /\ WriteValue(frame) \in Seq(Octets) /\ frame.kind # "array"
<1>1. CASE \E text \in Seq(Octets) : /\ frame = Simple(text) /\ Utf8(text)
                                     /\ \A i \in DOMAIN text : text[i] # "CR"
  <2>1. PICK text \in Seq(Octets) : /\ frame = Simple(text) /\ Utf8(text)
                                    /\ \A i \in DOMAIN text : text[i] # "CR"
    BY <1>1
  <2>2. Simple(text).kind # "array"
    BY DEF Simple, Frame
  <2> QED BY <2>1, <2>2, SimpleAt
<1>2. CASE \E n \in Nat : frame = Integer(n)
  <2>1. PICK n \in Nat : frame = Integer(n)
    BY <1>2
  <2>2. Integer(n).kind # "array"
    BY DEF Integer, Frame
  <2> QED BY <2>1, <2>2, IntegerAt
<1>3. CASE frame = Null
  <2>1. Null.kind # "array"
    BY DEF Null, Frame
  <2> QED BY <1>3, <2>1, NullAt
<1>4. CASE \E text \in Seq(Octets) : frame = Bulk(text)
  <2>1. PICK text \in Seq(Octets) : frame = Bulk(text)
    BY <1>4
  <2>2. Bulk(text).kind # "array"
    BY DEF Bulk, Frame
  <2> QED BY <2>1, <2>2, BulkFrameAt
<1> QED BY <1>1, <1>2, <1>3, <1>4 DEF Written

-----------------------------------------------------------------------------
\* Arrays are read as they are written.

\* One element before a sequence.
LEMMA ConsIs ==
    ASSUME NEW S, NEW a \in S, NEW u \in Seq(S)
    PROVE  /\ <<a>> \o u \in Seq(S) /\ Len(<<a>> \o u) = Len(u) + 1
           /\ \A i \in 1..Len(<<a>> \o u) :
                 (<<a>> \o u)[i] = IF i = 1 THEN a ELSE u[i - 1]
  OBVIOUS

LEMMA RestCons ==
    ASSUME NEW S, NEW s \in Seq(S), NEW k \in 1..Len(s)
    PROVE  <<s[k]>> \o RestFrom(s, k + 1) = RestFrom(s, k)
<1> DEFINE u == RestFrom(s, k + 1)
           w == RestFrom(s, k)
<1>1. k \in 1..Len(s) + 1 /\ k + 1 \in 1..Len(s) + 1
  OBVIOUS
<1>2. /\ u \in Seq(S) /\ Len(u) = Len(s) - (k + 1) + 1
      /\ \A i \in 1..Len(s) - (k + 1) + 1 : u[i] = s[k + 1 + i - 1]
  BY <1>1, AfterIs
<1>3. /\ w \in Seq(S) /\ Len(w) = Len(s) - k + 1
      /\ \A i \in 1..Len(s) - k + 1 : w[i] = s[k + i - 1]
  BY <1>1, AfterIs
<1> HIDE DEF u, w
<1> DEFINE x == <<s[k]>> \o u
<1>4. /\ x \in Seq(S) /\ Len(x) = Len(u) + 1
      /\ \A i \in 1..Len(x) : x[i] = IF i = 1 THEN s[k] ELSE u[i - 1]
  <2>1. u \in Seq(S) /\ s[k] \in S
    BY <1>2
  <2> HIDE DEF x
  <2> QED BY <2>1, ConsIs DEF x
<1> HIDE DEF x
<1>5. Len(x) = Len(w)
  BY <1>2, <1>3, <1>4
<1>6. \A i \in 1..Len(x) : x[i] = w[i]
  <2> SUFFICES ASSUME NEW i \in 1..Len(x) PROVE x[i] = w[i]
    OBVIOUS
  <2>1. w[i] = s[k + i - 1]
    BY <1>3, <1>5
  <2>2. CASE i = 1
    BY <1>4, <2>1, <2>2
  <2>3. CASE i # 1
    <3>1. i - 1 \in 1..Len(s) - (k + 1) + 1 /\ k + 1 + (i - 1) - 1 = k + i - 1
      BY <1>2, <1>4, <2>3
    <3>2. x[i] = u[i - 1] /\ u[i - 1] = s[k + 1 + (i - 1) - 1]
      BY <1>2, <1>4, <2>3, <3>1
    <3> QED BY <2>1, <3>1, <3>2
  <2> QED BY <2>2, <2>3
<1>7. x = w
  BY <1>3, <1>4, <1>5, <1>6, SeqEqual
<1> QED BY <1>7 DEF x, u, w

LEMMA RestEnds ==
    ASSUME NEW S, NEW s \in Seq(S)
    PROVE  RestFrom(s, 1) = s /\ RestFrom(s, Len(s) + 1) = <<>>
  BY DEF RestFrom

\* Where the sequences end, in general.
LEMMA WithinLater ==
    ASSUME NEW b \in Seq(Octets), NEW p, NEW s \in Seq(Octets), At(b, p, s)
    PROVE  p \in 1..Len(b) + 1 /\ p + Len(s) \in 1..Len(b) + 1
<1>1. Len(s) \in Nat
  OBVIOUS
<1> QED BY <1>1 DEF At

\* The parts of an array stand in b at t[1], t[2] and so on.
PartsStand(b, parts, t) ==
    /\ t \in [1..Len(parts) + 1 -> Nat] /\ t[Len(parts) + 1] \in 1..Len(b) + 1
    /\ \A i \in 1..Len(parts) : /\ Written(parts[i])
                                /\ At(b, t[i], WriteValue(parts[i]))
                                /\ t[i + 1] = t[i] + Len(WriteValue(parts[i]))

\* Values one after the other are parsed one after the other.
LEMMA PartsAt ==
    ASSUME NEW v, NEW b \in Seq(Octets), NEW S, NEW parts \in Seq(S),
           NEW t, PartsStand(b, parts, t)
    PROVE  \A i \in 1..Len(parts) + 1 :
              ParseFrom(v, b)[t[i]][Len(parts) + 1 - i]
                 = Found(t[Len(parts) + 1], RestFrom(parts, i))
<1>0. /\ t \in [1..Len(parts) + 1 -> Nat] /\ t[Len(parts) + 1] \in 1..Len(b) + 1
      /\ \A i \in 1..Len(parts) : /\ Written(parts[i])
                                  /\ At(b, t[i], WriteValue(parts[i]))
                                  /\ t[i + 1] = t[i] + Len(WriteValue(parts[i]))
  BY DEF PartsStand
<1> DEFINE N == Len(parts)
           e == t[N + 1]
           f == ParseFrom(v, b)
           Good == {i \in 1..N + 1 : f[t[i]][N + 1 - i] = Found(e, RestFrom(parts, i))}
<1>1. N \in Nat /\ N + 1 \in Nat /\ e \in 1..Len(b) + 1
  BY <1>0
<1> HIDE DEF f, e
<1>2. ASSUME NEW k \in 1..N + 1, \A j \in k + 1..N + 1 : j \in Good PROVE k \in Good
  <2>1. CASE k = N + 1
    <3>1. f[e][0] = ParseStep(v, b, e, 0, f)
      BY <1>1, ParseFromIs DEF f
    <3>2. ParseStep(v, b, e, 0, f) = Found(e, <<>>)
      BY DEF ParseStep
    <3>3. RestFrom(parts, N + 1) = <<>>
      BY RestEnds
    <3>4. N + 1 - k = 0 /\ t[k] = e
      BY <1>1, <2>1 DEF e
    <3> QED BY <2>1, <3>1, <3>2, <3>3, <3>4
  <2>2. CASE k # N + 1
    <3> DEFINE frame == parts[k]
               n == N + 1 - k
               q == t[k + 1]
               w == WriteValue(frame)
    <3>1. k \in 1..N /\ k + 1 \in 1..N + 1 /\ k + 1 \in k + 1..N + 1
      BY <1>1, <2>2
    <3>2. Written(frame) /\ At(b, t[k], w) /\ q = t[k] + Len(w)
      BY <1>0, <3>1
    <3>3. ParseAt(v, b, t[k]) = Found(q, frame) /\ w \in Seq(Octets) /\ frame.kind # "array"
      <4> HIDE DEF w, frame, q
      <4> QED BY <3>2, ValueAt DEF w
    <3>4. t[k] \in 1..Len(b) + 1
      <4> HIDE DEF w
      <4> QED BY <3>2, <3>3, WithinLater
    <3>5. n \in Nat /\ n # 0 /\ n - 1 = N + 1 - (k + 1)
      BY <1>1, <3>1
    <3>6. f[q][n - 1] = Found(e, RestFrom(parts, k + 1))
      <4>1. k + 1 \in Good
        BY <1>2, <3>1
      <4> QED BY <3>5, <4>1
    <3> HIDE DEF frame, n, q, w, Good
    <3>7. f[t[k]][n] = ParseStep(v, b, t[k], n, f)
      BY <3>4, <3>5, ParseFromIs DEF f
    <3>8. ParseStep(v, b, t[k], n, f) = Prepend(frame, f[q][n - 1])
      BY <3>3, <3>5 DEF ParseStep, Found
    <3>9. Prepend(frame, Found(e, RestFrom(parts, k + 1)))
            = Found(e, <<frame>> \o RestFrom(parts, k + 1))
      <4> DEFINE R == RestFrom(parts, k + 1)
                 T == <<frame>>
      <4>1. R \in Seq(S)
        BY <3>1, AfterIs
      <4> HIDE DEF R
      <4>2. Parsed(Found(e, R), 1, b)
        BY <1>1, <4>1 DEF Parsed, EndsIn, IsResult, Found, IsSeq
      <4>3. Prepend(frame, Found(e, R))
              = [st |-> Found(e, R).st, pos |-> Found(e, R).pos, got |-> T \o Found(e, R).got]
        BY <4>2, BeforeIs
      <4> HIDE DEF T
      <4>4. Found(e, R).st = "ok" /\ Found(e, R).pos = e /\ Found(e, R).got = R
        BY DEF Found
      <4> QED BY <4>3, <4>4 DEF R, T, Found
    <3>10. <<frame>> \o RestFrom(parts, k + 1) = RestFrom(parts, k)
      BY <3>1, RestCons DEF frame
    <3> QED BY <3>6, <3>7, <3>8, <3>9, <3>10 DEF Good, n
  <2> QED BY <2>1, <2>2
<1>3. \A k \in 1..N + 1 : k \in Good
  <2> HIDE DEF Good, N
  <2> QED BY <1>1, <1>2, Backwards
<1> QED BY <1>3 DEF e, f

\* All of them, from where the first one stands.
LEMMA PartsParsed ==
    ASSUME NEW v, NEW b \in Seq(Octets), NEW S, NEW parts \in Seq(S),
           NEW t, PartsStand(b, parts, t)
    PROVE  ParseFrom(v, b)[t[1]][Len(parts)] = Found(t[Len(parts) + 1], parts)
<1>1. \A i \in 1..Len(parts) + 1 :
              ParseFrom(v, b)[t[i]][Len(parts) + 1 - i]
                 = Found(t[Len(parts) + 1], RestFrom(parts, i))
  BY PartsAt
<1>2. 1 \in 1..Len(parts) + 1 /\ Len(parts) + 1 - 1 = Len(parts)
  OBVIOUS
<1>3. RestFrom(parts, 1) = parts
  BY RestEnds
<1> QED BY <1>1, <1>2, <1>3

\* What is written as a frame: a value, or an array of values.
WrittenFrame(frame) ==
    \/ Written(frame)
    \/ \E S : \E parts \in Seq(S) : /\ frame = Array(parts)
                                    /\ \A i \in 1..Len(parts) : Written(parts[i])

\* What is parsed is what parse_frame returns.
LEMMA ParsedIsReturned ==
    ASSUME NEW v, NEW b \in Seq(Octets), NEW q, NEW got, Parse(v, b) = Found(q, got)
    PROVE  ParseFrame(v, b) = Found(q, got)
<1>1. Check(v, b).st = "ok" /\ Check(v, b).pos = q
  <2>1. Parse(v, b).st = "ok" /\ Parse(v, b).pos = q
    BY DEF Found
  <2> QED BY <2>1, ParseIs
<1>2. ParseFrame(v, b) = [Parse(v, b) EXCEPT !.pos = Check(v, b).pos]
  <2>1. Parse(v, b).st = "ok"
    BY DEF Found
  <2> QED BY <1>1, <2>1 DEF ParseFrame, Checked
<1> QED BY <1>1, <1>2 DEF Found

LEMMA ValueFrameAt ==
    ASSUME NEW v, NEW b \in Seq(Octets), NEW frame, Written(frame), At(b, 1, WriteFrame(frame))
    PROVE  /\ WriteFrame(frame) \in Seq(Octets)
           /\ ParseFrame(v, b) = Found(1 + Len(WriteFrame(frame)), <<frame>>)
<1> DEFINE w == WriteValue(frame)
           parts == <<frame>>
           t == [i \in 1..2 |-> IF i = 1 THEN 1 ELSE 1 + Len(w)]
<1>1. frame.kind # "array"
  BY DEF Written, Simple, Integer, Null, Bulk, Frame
<1>2. WriteFrame(frame) = w
  BY <1>1 DEF WriteFrame
<1>3. At(b, 1, w) /\ w \in Seq(Octets)
  BY <1>2, ValueAt
<1> HIDE DEF w
<1>4. parts \in Seq({frame}) /\ Len(parts) = 1 /\ parts[1] = frame
  OBVIOUS
<1>5. 1 + Len(w) \in 1..Len(b) + 1
  BY <1>3, WithinLater
<1>6. t \in [1..2 -> Nat] /\ t[1] = 1 /\ t[2] = 1 + Len(w)
  BY <1>5
<1> HIDE DEF parts, t
<1>7. \A i \in 1..2 : ParseFrom(v, b)[t[i]][1 + 1 - i] = Found(t[2], RestFrom(parts, i))
  <2>1. 1..1 + 1 = 1..2 /\ 1 + 1 = 2
    OBVIOUS
  <2>2. \A i \in 1..1 : /\ Written(parts[i]) /\ At(b, t[i], WriteValue(parts[i]))
                        /\ t[i + 1] = t[i] + Len(WriteValue(parts[i]))
    <3>1. \A i \in 1..1 : i = 1
      OBVIOUS
    <3> QED BY <1>3, <1>4, <1>6, <3>1 DEF w
  <2> DEFINE S == {frame}
  <2>4. parts \in Seq(S)
    BY <1>4
  <2> HIDE DEF S
  <2>3. \A i \in 1..Len(parts) + 1 :
              ParseFrom(v, b)[t[i]][Len(parts) + 1 - i]
                 = Found(t[Len(parts) + 1], RestFrom(parts, i))
    <3>1. t \in [1..Len(parts) + 1 -> Nat] /\ t[Len(parts) + 1] \in 1..Len(b) + 1
      BY <1>4, <1>5, <1>6, <2>1
    <3>2. \A i \in 1..Len(parts) : /\ Written(parts[i]) /\ At(b, t[i], WriteValue(parts[i]))
                                   /\ t[i + 1] = t[i] + Len(WriteValue(parts[i]))
      BY <1>4, <2>2
    <3>3. PartsStand(b, parts, t)
      BY <3>1, <3>2 DEF PartsStand
    <3> QED BY <2>4, <3>3, PartsAt
  <2> QED BY <1>4, <2>1, <2>3
<1>8. Parse(v, b) = Found(1 + Len(w), <<frame>>)
  <2>1. ParseFrom(v, b)[1][1] = Found(1 + Len(w), RestFrom(parts, 1))
    BY <1>6, <1>7
  <2>2. RestFrom(parts, 1) = parts
    BY <1>4, RestEnds
  <2> QED BY <2>1, <2>2, ParseUnfolds DEF parts
<1> QED BY <1>2, <1>3, <1>8, ParsedIsReturned

\* Three sequences that are put together.
LEMMA JoinedTypes ==
    ASSUME NEW s \in Seq(Octets), NEW t \in Seq(Octets), NEW u \in Seq(Octets)
    PROVE  (s \o t) \o u \in Seq(Octets)
<1>1. s \o t \in Seq(Octets)
  BY Joined
<1> DEFINE x == s \o t
<1> HIDE DEF x
<1>2. x \o u \in Seq(Octets)
  BY <1>1, Joined DEF x
<1> QED BY <1>2 DEF x

\* What is written of a value is bytes.
LEMMA WriteValueType ==
    ASSUME NEW frame, Written(frame)
    PROVE  WriteValue(frame) \in Seq(Octets) /\ frame.kind # "array"
<1>0. /\ <<"+">> \in Seq(Octets) /\ <<":">> \in Seq(Octets) /\ <<"$">> \in Seq(Octets)
      /\ <<"$", "-", "1">> \in Seq(Octets) /\ CRLF \in Seq(Octets)
  <2>1. "+" \in Octets /\ ":" \in Octets /\ "$" \in Octets /\ "-" \in Octets
    BY DEF Octets
  <2>2. "1" \in Octets
    <3>1. "1" \in Digits
      BY DEF Digits, DigitTexts, ToSet
    <3> QED BY <3>1, OctetsAre
  <2> QED BY <2>1, <2>2, OctetsAre
<1>1. CASE \E text \in Seq(Octets) : /\ frame = Simple(text) /\ Utf8(text)
                                     /\ \A i \in DOMAIN text : text[i] # "CR"
  <2>1. PICK text \in Seq(Octets) : frame = Simple(text)
    BY <1>1
  <2>2. WriteValue(frame) = (<<"+">> \o text) \o CRLF /\ frame.kind # "array"
    BY <2>1 DEF WriteValue, Simple, Frame
  <2> DEFINE c == <<"+">>
  <2>3. c \in Seq(Octets)
    BY <1>0
  <2> HIDE DEF c
  <2>4. (c \o text) \o CRLF \in Seq(Octets)
    BY <1>0, <2>3, JoinedTypes
  <2> QED BY <2>2, <2>4 DEF c
<1>2. CASE \E n \in Nat : frame = Integer(n)
  <2>1. PICK n \in Nat : frame = Integer(n)
    BY <1>2
  <2>2. WriteValue(frame) = <<":">> \o WriteDecimal(n) /\ frame.kind # "array"
    BY <2>1 DEF WriteValue, Integer, Frame
  <2> DEFINE c == <<":">>
             d == WriteDecimal(n)
  <2>3. c \in Seq(Octets) /\ d \in Seq(Octets)
    BY <1>0, WriteDecimalIs
  <2> HIDE DEF c, d
  <2>4. c \o d \in Seq(Octets)
    BY <2>3, Joined
  <2> QED BY <2>2, <2>4 DEF c, d
<1>3. CASE frame = Null
  <2>1. WriteValue(frame) = <<"$", "-", "1">> \o CRLF /\ frame.kind # "array"
    BY <1>3 DEF WriteValue, Null, Frame
  <2> DEFINE c == <<"$", "-", "1">>
  <2>3. c \in Seq(Octets)
    BY <1>0
  <2> HIDE DEF c
  <2>4. c \o CRLF \in Seq(Octets)
    BY <1>0, <2>3, Joined
  <2> QED BY <2>1, <2>4 DEF c
<1>4. CASE \E text \in Seq(Octets) : frame = Bulk(text)
  <2>1. PICK text \in Seq(Octets) : frame = Bulk(text)
    BY <1>4
  <2>2. /\ WriteValue(frame) = ((<<"$">> \o WriteDecimal(Len(text))) \o text) \o CRLF
        /\ frame.kind # "array"
    BY <2>1 DEF WriteValue, Bulk, Frame
  <2> DEFINE c == <<"$">>
             d == WriteDecimal(Len(text))
             cd == c \o d
  <2>3. c \in Seq(Octets) /\ d \in Seq(Octets)
    <3>1. Len(text) \in Nat
      OBVIOUS
    <3> QED BY <1>0, <3>1, WriteDecimalIs
  <2> HIDE DEF c, d
  <2>4. cd \in Seq(Octets)
    BY <2>3, Joined
  <2> HIDE DEF cd
  <2>5. (cd \o text) \o CRLF \in Seq(Octets)
    BY <1>0, <2>4, JoinedTypes
  <2> QED BY <2>2, <2>5 DEF c, d, cd
<1> QED BY <1>1, <1>2, <1>3, <1>4 DEF Written

\* What is written of an array: its length and its parts.
Parts(parts) == [i \in DOMAIN parts |-> WriteValue(parts[i])]

LEMMA WriteArrayIs ==
    ASSUME NEW S, NEW parts \in Seq(S), \A i \in 1..Len(parts) : Written(parts[i])
    PROVE  /\ Parts(parts) \in Seq(Seq(Octets)) /\ Len(Parts(parts)) = Len(parts)
           /\ \A i \in 1..Len(parts) : Parts(parts)[i] = WriteValue(parts[i])
           /\ FlattenSeq(Parts(parts)) \in Seq(Octets)
           /\ <<"*">> \in Seq(Octets) /\ "*" \in Octets
           /\ WriteDecimal(Len(parts)) \in Seq(Octets)
           /\ WriteDecimal(Len(parts)) \o FlattenSeq(Parts(parts)) \in Seq(Octets)
           /\ WriteFrame(Array(parts))
                = <<"*">> \o (WriteDecimal(Len(parts)) \o FlattenSeq(Parts(parts)))
           /\ WriteFrame(Array(parts)) \in Seq(Octets)
<1>1. /\ Parts(parts) \in Seq(Seq(Octets)) /\ Len(Parts(parts)) = Len(parts)
      /\ \A i \in 1..Len(parts) : Parts(parts)[i] = WriteValue(parts[i])
  <2>1. DOMAIN parts = 1..Len(parts) /\ Len(parts) \in Nat
    OBVIOUS
  <2>2. \A i \in 1..Len(parts) : WriteValue(parts[i]) \in Seq(Octets)
    BY WriteValueType
  <2> QED BY <2>1, <2>2 DEF Parts
<1> DEFINE flat == FlattenSeq(Parts(parts))
           d == WriteDecimal(Len(parts))
           star == <<"*">>
<1>2. flat \in Seq(Octets)
  BY <1>1, FlattenSeqType
<1>3. star \in Seq(Octets) /\ "*" \in Octets
  BY DEF Octets
<1>4. d \in Seq(Octets)
  <2>1. Len(parts) \in Nat
    OBVIOUS
  <2> QED BY <2>1, WriteDecimalIs
<1>5. WriteFrame(Array(parts)) = (star \o d) \o flat
  BY DEF WriteFrame, Array, Frame, Parts
<1> HIDE DEF flat, d, star
<1>6. (star \o d) \o flat = star \o (d \o flat)
  BY <1>2, <1>3, <1>4, JoinedThree
<1>7. (star \o d) \o flat \in Seq(Octets)
  BY <1>2, <1>3, <1>4, JoinedTypes
<1>8. d \o flat \in Seq(Octets)
  BY <1>2, <1>4, Joined
<1> QED BY <1>1, <1>2, <1>3, <1>4, <1>5, <1>6, <1>7, <1>8 DEF flat, d, star

\* An array is what parse_frame returns where it is written.
LEMMA ArrayFrameAt ==
    ASSUME NEW v, NEW b \in Seq(Octets), NEW S, NEW parts \in Seq(S),
           \A i \in 1..Len(parts) : Written(parts[i]),
           At(b, 1, WriteFrame(Array(parts)))
    PROVE  ParseFrame(v, b) = Found(1 + Len(WriteFrame(Array(parts))), <<Array(parts)>>)
<1> DEFINE N == Len(parts)
           w == WriteFrame(Array(parts))
           d == WriteDecimal(N)
           vals == Parts(parts)
           flat == FlattenSeq(vals)
           q == 2 + Len(d)
           e == q + Len(flat)
           f == ParseFrom(v, b)
<1>1. /\ vals \in Seq(Seq(Octets)) /\ Len(vals) = N
      /\ \A i \in 1..N : vals[i] = WriteValue(parts[i])
  BY WriteArrayIs
<1>2. flat \in Seq(Octets) /\ d \in Seq(Octets) /\ d \o flat \in Seq(Octets)
  BY WriteArrayIs
<1>3. w = <<"*">> \o (d \o flat) /\ "*" \in Octets
  BY WriteArrayIs
<1>4. N \in Nat /\ Len(d) \in Nat /\ Len(flat) \in Nat
  BY <1>2
<1>5. At(b, 1, w)
  OBVIOUS
<1> HIDE DEF N, w, vals, flat
<1>6. 1 \in 1..Len(b) /\ b[1] = "*" /\ At(b, 1 + 1, d \o flat) /\ Len(w) = Len(d \o flat) + 1
  <2> DEFINE s == d \o flat
  <2>1. s \in Seq(Octets) /\ At(b, 1, <<"*">> \o s)
    BY <1>2, <1>3, <1>5
  <2> HIDE DEF s
  <2>2. 1 \in 1..Len(b) /\ b[1] = "*" /\ At(b, 1 + 1, s) /\ Len(<<"*">> \o s) = Len(s) + 1
    <3> DEFINE star == "*"
               p == 1
    <3>1. star \in Octets
      BY <1>3
    <3>2. At(b, p, <<star>> \o s)
      BY <2>1
    <3> HIDE DEF star, p
    <3>3. /\ p \in 1..Len(b) /\ b[p] = star /\ At(b, p + 1, s)
          /\ Len(<<star>> \o s) = Len(s) + 1
      BY <2>1, <3>1, <3>2, FirstByte
    <3> QED BY <3>3 DEF star, p
  <2> QED BY <1>3, <2>2 DEF s
<1>7. At(b, 2, d) /\ At(b, q, flat)
  <2>1. At(b, 2, d \o flat)
    BY <1>6
  <2> HIDE DEF d
  <2> QED BY <1>2, <2>1, AtConcat
<1>8. GetDecimal(v, b, 2) = Found(q, N)
  BY <1>4, <1>7, DecimalAt
<1> HIDE DEF d
<1>9. e = 1 + Len(w) /\ q \in 1..Len(b) + 1 /\ e \in 1..Len(b) + 1
  <2>1. Len(d \o flat) = Len(d) + Len(flat)
    BY <1>2, Joined
  <2>2. q \in 1..Len(b) + 1 /\ q + Len(flat) \in 1..Len(b) + 1
    BY <1>2, <1>7, WithinLater
  <2> QED BY <1>4, <1>6, <2>1, <2>2
<1> HIDE DEF q, e
<1>10. ParseAt(v, b, 1) = Found(q, Frame("array", N, <<>>, <<>>))
  <2>1. Place(b, 1) = "number"
    BY <1>6 DEF Place
  <2>2. ParseAt(v, b, 1) = OfNumber("array", GetDecimal(v, b, 2))
    BY <1>6, <2>1, ParsePlaces
  <2> QED BY <1>8, <2>2 DEF OfNumber, Found
<1>11. PICK t \in [1..N + 1 -> Nat] :
         /\ t[1] = q /\ t[N + 1] = e
         /\ \A i \in 1..N : At(b, t[i], vals[i]) /\ t[i + 1] = t[i] + Len(vals[i])
  <2>1. \E t \in [1..Len(vals) + 1 -> Nat] :
         /\ t[1] = q /\ t[Len(vals) + 1] = q + Len(flat)
         /\ \A i \in 1..Len(vals) : At(b, t[i], vals[i]) /\ t[i + 1] = t[i] + Len(vals[i])
    <3>1. vals \in Seq(Seq(Octets))
      BY <1>1
    <3>2. FlattenSeq(vals) \in Seq(Octets) /\ At(b, q, FlattenSeq(vals))
      BY <1>2, <1>7 DEF flat
    <3> HIDE DEF q
    <3>3. \E t \in [1..Len(vals) + 1 -> Nat] :
         /\ t[1] = q /\ t[Len(vals) + 1] = q + Len(FlattenSeq(vals))
         /\ \A i \in 1..Len(vals) : At(b, t[i], vals[i]) /\ t[i + 1] = t[i] + Len(vals[i])
      BY <3>1, <3>2, AtFlatten
    <3> QED BY <3>3 DEF flat
  <2> QED BY <1>1, <2>1 DEF e
<1>12. PartsStand(b, parts, t)
  BY <1>1, <1>9, <1>11 DEF PartsStand, N
<1> HIDE DEF f
<1>13. f[q][N] = Found(e, parts)
  <2>1. ParseFrom(v, b)[t[1]][Len(parts)] = Found(t[Len(parts) + 1], parts)
    BY <1>12, PartsParsed
  <2> QED BY <1>11, <2>1 DEF N, f
<1>14. f[e][0] = Found(e, <<>>)
  <2>1. f[e][0] = ParseStep(v, b, e, 0, f)
    BY <1>9, ParseFromIs DEF f
  <2> QED BY <2>1 DEF ParseStep
<1>15. f[1][1] = Found(e, <<Array(parts)>>)
  <2>1. f[1][1] = ParseStep(v, b, 1, 1, f)
    <3>1. 1 \in 1..Len(b) + 1 /\ 1 \in Nat
      BY <1>6
    <3> QED BY <3>1, ParseFromIs DEF f
  <2>2. ParseStep(v, b, 1, 1, f) = Prepend(Array(parts), f[e][0])
    <3> DEFINE a == Frame("array", N, <<>>, <<>>)
               r == ParseAt(v, b, 1)
    <3>1. r.st = "ok" /\ r.pos = q /\ r.got = a
      BY <1>10 DEF Found
    <3>2. a.kind = "array" /\ a.n = N
      BY DEF Frame
    <3> HIDE DEF a, r
    <3>3. f[r.pos][r.got.n] = Found(e, parts)
      BY <1>13, <3>1, <3>2
    <3>4. Found(e, parts).st = "ok" /\ Found(e, parts).got = parts /\ Found(e, parts).pos = e
      BY DEF Found
    <3> QED BY <3>1, <3>2, <3>3, <3>4 DEF ParseStep, r
  <2>3. Prepend(Array(parts), Found(e, <<>>)) = Found(e, <<Array(parts)>>)
    <3>1. Parsed(Found(e, <<>>), 1, b)
      <4>1. <<>> \in Seq({})
        OBVIOUS
      <4> QED BY <1>9, <4>1 DEF Parsed, EndsIn, IsResult, Found, IsSeq
    <3>2. Prepend(Array(parts), Found(e, <<>>))
            = [st |-> Found(e, <<>>).st, pos |-> Found(e, <<>>).pos,
               got |-> <<Array(parts)>> \o Found(e, <<>>).got]
      BY <3>1, BeforeIs
    <3>3. Found(e, <<>>).st = "ok" /\ Found(e, <<>>).pos = e /\ Found(e, <<>>).got = <<>>
      BY DEF Found
    <3>4. <<Array(parts)>> \o <<>> = <<Array(parts)>>
      OBVIOUS
    <3> QED BY <3>2, <3>3, <3>4 DEF Found
  <2> QED BY <1>14, <2>1, <2>2, <2>3
<1>16. Parse(v, b) = Found(e, <<Array(parts)>>)
  BY <1>15, ParseUnfolds DEF f
<1> QED BY <1>9, <1>16, ParsedIsReturned DEF w

\* Whatever is written is read where it is written, and only that.
LEMMA FrameAt ==
    ASSUME NEW v, NEW b \in Seq(Octets), NEW frame, WrittenFrame(frame),
           At(b, 1, WriteFrame(frame))
    PROVE  ParseFrame(v, b) = Found(1 + Len(WriteFrame(frame)), <<frame>>)
<1>1. CASE Written(frame)
  BY <1>1, ValueFrameAt
<1>2. CASE \E S : \E parts \in Seq(S) : /\ frame = Array(parts)
                                        /\ \A i \in 1..Len(parts) : Written(parts[i])
  <2>1. PICK S : \E parts \in Seq(S) : /\ frame = Array(parts)
                                       /\ \A i \in 1..Len(parts) : Written(parts[i])
    BY <1>2
  <2>2. PICK parts \in Seq(S) : /\ frame = Array(parts)
                                /\ \A i \in 1..Len(parts) : Written(parts[i])
    BY <2>1
  <2> QED BY <2>2, ArrayFrameAt
<1> QED BY <1>1, <1>2 DEF WrittenFrame

LEMMA WriteFrameType ==
    ASSUME NEW frame, WrittenFrame(frame)
    PROVE  WriteFrame(frame) \in Seq(Octets)
<1>1. CASE Written(frame)
  <2>1. WriteFrame(frame) = WriteValue(frame)
    BY <1>1, WriteValueType DEF WriteFrame
  <2> QED BY <1>1, <2>1, WriteValueType
<1>2. CASE \E S : \E parts \in Seq(S) : /\ frame = Array(parts)
                                        /\ \A i \in 1..Len(parts) : Written(parts[i])
  <2>1. PICK S : \E parts \in Seq(S) : /\ frame = Array(parts)
                                       /\ \A i \in 1..Len(parts) : Written(parts[i])
    BY <1>2
  <2>2. PICK parts \in Seq(S) : /\ frame = Array(parts)
                                /\ \A i \in 1..Len(parts) : Written(parts[i])
    BY <2>1
  <2> QED BY <2>2, WriteArrayIs
<1> QED BY <1>1, <1>2 DEF WrittenFrame

-----------------------------------------------------------------------------
\* A stream of frames is read as those frames.

\* From nothing no frame is read.
LEMMA NothingToParse == ASSUME NEW v PROVE ParseFrame(v, <<>>).st # "ok"
<1>1. <<>> \in Seq(Octets) /\ Len(<<>>) = 0
  OBVIOUS
<1> DEFINE b == <<>>
           r == ParseFrame(v, b)
<1>2. RestFrom(b, 1) = b
  BY <1>1, RestEnds
<1>3. Parsed(ParseFrame(v, RestFrom(b, 1)), 4, RestFrom(b, 1))
  <2>1. b \in Seq(Octets) /\ 1 \in 1..Len(b) + 1
    BY <1>1
  <2> HIDE DEF b
  <2> QED BY <2>1, WholeStepIs
<1> QED BY <1>1, <1>2, <1>3 DEF Parsed, EndsIn

\* Where each frame of a stream is written, the frames from it on are read.
LEMMA StreamRead ==
    ASSUME NEW v, NEW S, NEW frames \in Seq(S),
           \A i \in 1..Len(frames) : WrittenFrame(frames[i])
    PROVE  /\ Stream(frames) \in Seq(Octets)
           /\ Whole(v, Stream(frames)).out = frames
<1> DEFINE N == Len(frames)
           vals == [i \in DOMAIN frames |-> WriteFrame(frames[i])]
           input == FlattenSeq(vals)
           f == WholeFrom(v, input)
<1>1. vals \in Seq(Seq(Octets)) /\ Len(vals) = N /\ \A i \in 1..N : vals[i] = WriteFrame(frames[i])
  <2>1. DOMAIN frames = 1..N /\ N \in Nat
    OBVIOUS
  <2>2. \A i \in 1..N : WriteFrame(frames[i]) \in Seq(Octets)
    BY WriteFrameType
  <2> HIDE DEF N
  <2> QED BY <2>1, <2>2
<1>2. Stream(frames) = input
  BY DEF Stream
<1>3. N \in Nat
  OBVIOUS
<1> HIDE DEF vals
<1>4. input \in Seq(Octets)
  BY <1>1, FlattenSeqType
<1>5. PICK t \in [1..N + 1 -> Nat] :
         /\ t[1] = 1 /\ t[N + 1] = 1 + Len(input)
         /\ \A i \in 1..N : At(input, t[i], vals[i]) /\ t[i + 1] = t[i] + Len(vals[i])
  <2>1. At(input, 1, FlattenSeq(vals)) /\ FlattenSeq(vals) \in Seq(Octets)
    <3>1. Len(input) \in Nat
      BY <1>4
    <3> HIDE DEF input
    <3>2. At(input, 1, input)
      BY <3>1 DEF At
    <3> QED BY <1>4, <3>2 DEF input
  <2> HIDE DEF input
  <2> DEFINE p == 1
  <2>2. At(input, p, FlattenSeq(vals))
    BY <2>1
  <2> HIDE DEF p
  <2>3. \E t \in [1..Len(vals) + 1 -> Nat] :
         /\ t[1] = p /\ t[Len(vals) + 1] = p + Len(FlattenSeq(vals))
         /\ \A i \in 1..Len(vals) : At(input, t[i], vals[i]) /\ t[i + 1] = t[i] + Len(vals[i])
    <3>1. vals \in Seq(Seq(Octets)) /\ input \in Seq(Octets)
      BY <1>1, <1>4
    <3> QED BY <2>1, <2>2, <3>1, AtFlatten
  <2> QED BY <1>1, <2>3 DEF p, input
<1> HIDE DEF input, N, f
<1>6. Len(input) + 1 \in 1..Len(input) + 1 /\ 1 + Len(input) = Len(input) + 1
  BY <1>4
<1>7. \A p \in 1..Len(input) + 1 : f[p] = WholeStep(v, input, p, f) /\ IsRun(f[p])
  BY <1>4, WholeFromIs DEF f
<1> DEFINE Good == {i \in 1..N + 1 : f[t[i]].out = RestFrom(frames, i)}
<1>8. ASSUME NEW k \in 1..N + 1, \A j \in k + 1..N + 1 : j \in Good PROVE k \in Good
  <2>1. CASE k = N + 1
    <3>1. RestFrom(input, Len(input) + 1) = <<>>
      BY <1>4, RestEnds
    <3> DEFINE e == Len(input) + 1
    <3>2. f[e] = WholeStep(v, input, e, f)
      BY <1>6, <1>7
    <3>3. ParseFrame(v, RestFrom(input, e)).st # "ok"
      BY <3>1, NothingToParse
    <3>4. f[e].out = <<>>
      <4> HIDE DEF e
      <4> QED BY <3>2, <3>3 DEF WholeStep
    <3>5. RestFrom(frames, N + 1) = <<>>
      BY RestEnds DEF N
    <3> QED BY <1>5, <1>6, <2>1, <3>4, <3>5
  <2>2. CASE k # N + 1
    <3> DEFINE frame == frames[k]
               w == WriteFrame(frame)
               p == t[k]
               rest == RestFrom(input, p)
    <3>1. k \in 1..N /\ k + 1 \in 1..N + 1 /\ k + 1 \in k + 1..N + 1
      BY <1>3, <2>2
    <3>2. WrittenFrame(frame) /\ At(input, p, w) /\ t[k + 1] = p + Len(w)
      BY <1>1, <1>5, <3>1 DEF N
    <3>3. w \in Seq(Octets)
      BY <3>2, WriteFrameType
    <3> HIDE DEF w, p
    <3>4. p \in 1..Len(input) + 1 /\ Len(w) \in Nat
      BY <1>4, <3>2, <3>3, WithinLater
    <3>5. At(rest, 1, w) /\ rest \in Seq(Octets)
      <4>1. At(rest, 1, w)
        BY <1>4, <3>2, <3>3, AtRest
      <4>2. rest \in Seq(Octets)
        BY <1>4, <3>4, AfterIs
      <4> QED BY <4>1, <4>2
    <3> HIDE DEF rest, frame
    <3>6. ParseFrame(v, rest) = Found(1 + Len(w), <<frame>>)
      BY <3>2, <3>5, FrameAt DEF w
    <3>7. p + (1 + Len(w)) - 1 = t[k + 1]
      BY <3>2, <3>4
    <3> DEFINE r == ParseFrame(v, rest)
    <3>8. r.st = "ok" /\ r.pos = 1 + Len(w) /\ r.got = <<frame>>
      BY <3>6 DEF Found
    <3>9. f[p].out = <<frame>> \o f[t[k + 1]].out
      <4>1. \A q \in p + 1..Len(input) + 1 : IsRun(f[q])
        BY <1>7, <3>4
      <4> DEFINE r2 == ParseFrame(v, RestFrom(input, p))
      <4>2. r2.st = "ok" => WholeStep(v, input, p, f)
                          = [out |-> r2.got \o f[p + r2.pos - 1].out,
                             status |-> f[p + r2.pos - 1].status]
        BY <1>4, <3>4, <4>1, WholeStepRuns
      <4>3. r2 = r
        BY DEF rest
      <4> HIDE DEF r, r2
      <4>4. p + r2.pos - 1 = t[k + 1]
        BY <3>7, <3>8, <4>3
      <4>5. f[p] = WholeStep(v, input, p, f)
        BY <1>7, <3>4
      <4> DEFINE m == f[t[k + 1]]
      <4>6. f[p + r2.pos - 1] = m
        BY <4>4
      <4>7. r2.st = "ok" /\ r2.got = <<frame>>
        BY <3>8, <4>3
      <4> HIDE DEF m
      <4>8. f[p] = [out |-> r2.got \o m.out, status |-> m.status]
        BY <4>2, <4>5, <4>6, <4>7
      <4>9. f[p].out = r2.got \o m.out
        <5> DEFINE x == r2.got \o m.out
                   y == m.status
        <5>1. f[p] = [out |-> x, status |-> y]
          BY <4>8
        <5> HIDE DEF x, y
        <5>2. f[p].out = x
          BY <5>1
        <5> QED BY <5>2 DEF x
      <4> QED BY <4>7, <4>9 DEF m
    <3>10. f[t[k + 1]].out = RestFrom(frames, k + 1)
      <4>1. k + 1 \in Good
        BY <1>8, <3>1
      <4> QED BY <4>1
    <3>11. <<frame>> \o RestFrom(frames, k + 1) = RestFrom(frames, k)
      BY <3>1, RestCons DEF frame, N
    <3> QED BY <3>9, <3>10, <3>11 DEF p
  <2> QED BY <2>1, <2>2
<1>9. \A k \in 1..N + 1 : k \in Good
  <2>1. N + 1 \in Nat
    BY <1>3
  <2> HIDE DEF Good
  <2> QED BY <1>8, <2>1, Backwards
<1>10. f[1].out = frames
  <2>1. 1 \in 1..N + 1
    BY <1>3
  <2>2. f[t[1]].out = RestFrom(frames, 1)
    BY <1>9, <2>1
  <2> QED BY <1>5, <2>2, RestEnds
<1> QED BY <1>2, <1>4, <1>10, WholeUnfolds DEF f

-----------------------------------------------------------------------------
\* Commands are read as they are written.

\* The names of commands are text.
Names == {<<"get">>, <<"set">>, <<"publish">>, <<"ping">>, <<"subscribe">>, <<"unsubscribe">>}

LEMMA OneByteText ==
    ASSUME NEW c \in Octets, c # "bad"
    PROVE  <<c>> \in Seq(Octets) /\ Utf8(<<c>>)
<1>1. <<c>> \in Seq(Octets) /\ DOMAIN <<c>> = 1..1 /\ <<c>>[1] = c
  OBVIOUS
<1>2. ToSet(<<c>>) = {c}
  <2> DEFINE s == <<c>>
  <2>1. DOMAIN s = 1..1 /\ s[1] = c
    BY <1>1
  <2> HIDE DEF s
  <2>2. \A i \in DOMAIN s : s[i] = c
    BY <2>1
  <2>3. 1 \in DOMAIN s
    BY <2>1
  <2> QED BY <2>1, <2>2, <2>3 DEF ToSet, s
<1> QED BY <1>1, <1>2 DEF Utf8

LEMMA NamesAre ==
    /\ \A name \in Names : name \in Seq(Octets) /\ Utf8(name) /\ Lower(name) = name
    /\ \A text \in {<<"px">>, <<"PX">>, <<"PONG">>, <<"OK">>} :
          text \in Seq(Octets) /\ Utf8(text) /\ \A i \in DOMAIN text : text[i] # "CR"
<1>1. \A c \in {"get", "set", "publish", "ping", "subscribe", "unsubscribe",
                "px", "PX", "PONG", "OK"} : c \in Octets /\ c # "bad" /\ c # "CR"
  BY DEF Octets
<1>2. \A name \in Names : name \in Seq(Octets) /\ Utf8(name)
  BY <1>1, OneByteText DEF Names
<1>3. \A name \in Names : Lower(name) = name
  BY DEF Names, Lower
<1>4. \A text \in {<<"px">>, <<"PX">>, <<"PONG">>, <<"OK">>} :
         text \in Seq(Octets) /\ Utf8(text)
  BY <1>1, OneByteText
<1>5. \A text \in {<<"px">>, <<"PX">>, <<"PONG">>, <<"OK">>} :
         \A i \in DOMAIN text : text[i] # "CR"
  <2>1. \A c \in Octets : DOMAIN <<c>> = 1..1 /\ <<c>>[1] = c
    OBVIOUS
  <2> QED BY <1>1, <2>1
<1> QED BY <1>2, <1>3, <1>4, <1>5

\* The frames that follow the name of a command.
Bulks(words) == [i \in DOMAIN words |-> Bulk(words[i])]
Args(w, cmd) == Bulks(cmd.words) \o Option(w, cmd)
\* All that stands in the array of a command.
CommandFrames == {Bulk(text) : text \in Seq(Octets)} \cup {Integer(n) : n \in Nat}
\* What the commands of clients have in common.
IsCommand(cmd) ==
    /\ cmd.name \in Names /\ cmd.words \in Seq(Seq(Octets))
    /\ cmd.expire = {} \/ \E us \in Nat : cmd.expire = {us}

LEMMA MillisAre ==
    ASSUME NEW us \in Nat
    PROVE  Millis(us) \in Nat /\ 1000 * Millis(us) = us - (us % 1000)
  BY DEF Millis

LEMMA BulkIs ==
    ASSUME NEW text
    PROVE  Bulk(text).kind = "bulk" /\ Bulk(text).text = text /\ IsBytes(Bulk(text))
  BY DEF Bulk, Frame, IsBytes

LEMMA BulksAre ==
    ASSUME NEW words \in Seq(Seq(Octets))
    PROVE  /\ Bulks(words) \in Seq(CommandFrames) /\ Len(Bulks(words)) = Len(words)
           /\ \A i \in 1..Len(words) : Bulks(words)[i] = Bulk(words[i])
           /\ Texts(Bulks(words)) = words
<1>1. DOMAIN words = 1..Len(words) /\ Len(words) \in Nat
      /\ \A i \in 1..Len(words) : words[i] \in Seq(Octets)
  OBVIOUS
<1>2. \A i \in 1..Len(words) : Bulk(words[i]) \in CommandFrames
  BY <1>1 DEF CommandFrames
<1>3. /\ Bulks(words) \in Seq(CommandFrames) /\ Len(Bulks(words)) = Len(words)
      /\ \A i \in 1..Len(words) : Bulks(words)[i] = Bulk(words[i])
  BY <1>1, <1>2 DEF Bulks
<1>4. Texts(Bulks(words)) = words
  <2>1. DOMAIN Bulks(words) = 1..Len(words)
    BY <1>3
  <2>2. \A i \in 1..Len(words) : Bulks(words)[i].text = words[i]
    BY <1>3, BulkIs
  <2>3. words = [i \in 1..Len(words) |-> words[i]]
    BY <1>1
  <2>4. Texts(Bulks(words)) = [i \in 1..Len(words) |-> Bulks(words)[i].text]
    BY <2>1 DEF Texts
  <2> QED BY <2>2, <2>3, <2>4
<1> QED BY <1>3, <1>4

LEMMA OptionIs ==
    ASSUME NEW w, NEW cmd, IsCommand(cmd)
    PROVE  Option(w, cmd) \in Seq(CommandFrames)
<1>1. CASE cmd.expire = {}
  BY <1>1 DEF Option
<1>2. CASE \E us \in Nat : cmd.expire = {us}
  <2>1. PICK us \in Nat : cmd.expire = {us}
    BY <1>2
  <2>2. (CHOOSE u \in cmd.expire : TRUE) = us /\ cmd.expire # {}
    BY <2>1
  <2> DEFINE px == IF w = "rust" THEN <<"px">> ELSE <<"PX">>
  <2>3. px \in Seq(Octets)
    BY NamesAre
  <2>4. Option(w, cmd) = <<Bulk(px), Integer(Millis(us))>>
    BY <2>2 DEF Option
  <2> HIDE DEF px
  <2>5. Bulk(px) \in CommandFrames /\ Integer(Millis(us)) \in CommandFrames
    BY <2>3, MillisAre DEF CommandFrames
  <2> QED BY <2>4, <2>5
<1> QED BY <1>1, <1>2 DEF IsCommand

\* A command is an array of its name and the frames after it, all written.
LEMMA IntoFrameIs ==
    ASSUME NEW w, NEW cmd, IsCommand(cmd)
    PROVE  /\ WrittenFrame(IntoFrame(w, cmd))
           /\ Args(w, cmd) \in Seq(CommandFrames)
           /\ \E parts \in Seq(CommandFrames) :
                 /\ IntoFrame(w, cmd) = Array(parts)
                 /\ parts # <<>> /\ parts[1] = Bulk(cmd.name) /\ Tail(parts) = Args(w, cmd)
<1> DEFINE texts == <<cmd.name>> \o cmd.words
           opt == Option(w, cmd)
           one == Bulk(cmd.name)
           rest == Bulks(cmd.words)
<1>1. cmd.name \in Seq(Octets) /\ cmd.words \in Seq(Seq(Octets))
  BY NamesAre DEF IsCommand
<1>2. opt \in Seq(CommandFrames)
  BY OptionIs
<1>3. /\ texts \in Seq(Seq(Octets)) /\ Len(texts) = Len(cmd.words) + 1
      /\ \A i \in 1..Len(texts) : texts[i] = IF i = 1 THEN cmd.name ELSE cmd.words[i - 1]
  BY <1>1, ConsIs
<1>4. rest \in Seq(CommandFrames) /\ Len(rest) = Len(cmd.words)
      /\ \A i \in 1..Len(cmd.words) : rest[i] = Bulk(cmd.words[i])
  BY <1>1, BulksAre
<1>5. one \in CommandFrames
  BY <1>1 DEF CommandFrames
<1>6. IntoFrame(w, cmd) = Array(Bulks(texts) \o opt)
  BY DEF IntoFrame, Bulks
<1>7. Args(w, cmd) = rest \o opt
  BY DEF Args
<1>8. Bulks(texts) = <<one>> \o rest
  <2> DEFINE x == Bulks(texts)
             y == <<one>> \o rest
  <2>1. /\ x \in Seq(CommandFrames) /\ Len(x) = Len(texts)
        /\ \A i \in 1..Len(texts) : x[i] = Bulk(texts[i])
    <3> HIDE DEF texts
    <3> QED BY <1>3, BulksAre
  <2> HIDE DEF one, rest
  <2>2. /\ y \in Seq(CommandFrames) /\ Len(y) = Len(rest) + 1
        /\ \A i \in 1..Len(y) : y[i] = IF i = 1 THEN one ELSE rest[i - 1]
    BY <1>4, <1>5, ConsIs
  <2> HIDE DEF x, y, texts
  <2>3. Len(x) = Len(y)
    BY <1>3, <1>4, <2>1, <2>2
  <2>4. \A i \in 1..Len(x) : x[i] = y[i]
    <3> SUFFICES ASSUME NEW i \in 1..Len(x) PROVE x[i] = y[i]
      OBVIOUS
    <3>1. x[i] = Bulk(texts[i]) /\ texts[i] = IF i = 1 THEN cmd.name ELSE cmd.words[i - 1]
      BY <1>3, <2>1
    <3>2. y[i] = IF i = 1 THEN one ELSE rest[i - 1]
      BY <2>2, <2>3
    <3>3. i # 1 => i - 1 \in 1..Len(cmd.words)
      <4>1. Len(cmd.words) \in Nat
        BY <1>1
      <4> QED BY <1>3, <2>1, <4>1
    <3> QED BY <1>4, <3>1, <3>2, <3>3 DEF one
  <2>5. x = y
    BY <2>1, <2>2, <2>3, <2>4, SeqEqual
  <2> QED BY <2>5 DEF x, y
<1> HIDE DEF texts, opt, one, rest
<1> DEFINE args == rest \o opt
           parts == <<one>> \o args
<1>9. args \in Seq(CommandFrames)
  BY <1>2, <1>4, Joined
<1>10. Bulks(texts) \o opt = parts
  <2> DEFINE o == <<one>>
  <2>1. o \in Seq(CommandFrames)
    BY <1>5
  <2>2. rest \in Seq(CommandFrames) /\ opt \in Seq(CommandFrames)
    BY <1>2, <1>4
  <2> HIDE DEF o, args, parts
  <2>3. (o \o rest) \o opt = o \o (rest \o opt)
    BY <2>1, <2>2, ConcatAssociative
  <2> QED BY <1>8, <2>3 DEF o, args, parts
<1> HIDE DEF args
<1>11. parts \in Seq(CommandFrames) /\ parts # <<>> /\ parts[1] = one /\ Tail(parts) = args
  BY <1>5, <1>9
<1>12. IntoFrame(w, cmd) = Array(parts)
  BY <1>6, <1>10
<1> HIDE DEF parts
<1>13. \A i \in 1..Len(parts) : Written(parts[i])
  <2>1. \A x \in CommandFrames : Written(x)
    BY DEF CommandFrames, Written
  <2> QED BY <1>11, <2>1
<1>14. WrittenFrame(IntoFrame(w, cmd))
  BY <1>11, <1>12, <1>13 DEF WrittenFrame
<1> QED BY <1>7, <1>9, <1>11, <1>12, <1>14 DEF one, args

\* A text is read as the string it is, but Rust takes UTF-8 only.
LEMMA BulkIsString ==
    ASSUME NEW v, NEW text
    PROVE  IsString(v, Bulk(text)) <=> (v = "rust" => Utf8(text))
  BY BulkIs DEF IsString

\* What is read of a command's frame is what is accepted of the frames after
\* its name.
LEMMA FromFrameIs ==
    ASSUME NEW v, NEW w, NEW cmd, IsCommand(cmd)
    PROVE  FromFrame(v, IntoFrame(w, cmd)) = Accepted(v, cmd.name, Args(w, cmd))
<1>1. PICK parts \in Seq(CommandFrames) :
        /\ IntoFrame(w, cmd) = Array(parts)
        /\ parts # <<>> /\ parts[1] = Bulk(cmd.name) /\ Tail(parts) = Args(w, cmd)
  BY IntoFrameIs
<1>2. Utf8(cmd.name) /\ Lower(cmd.name) = cmd.name
  BY NamesAre DEF IsCommand
<1>3. IsString(v, parts[1]) /\ parts[1].text = cmd.name
  BY <1>1, <1>2, BulkIsString, BulkIs
<1>4. Array(parts).kind = "array" /\ Array(parts).parts = parts
  BY DEF Array, Frame
<1> QED BY <1>1, <1>2, <1>3, <1>4 DEF FromFrame

\* Without an expiration only the words follow.
LEMMA PlainArgs ==
    ASSUME NEW w, NEW cmd, IsCommand(cmd), cmd.expire = {}
    PROVE  /\ Args(w, cmd) = Bulks(cmd.words) /\ Len(Args(w, cmd)) = Len(cmd.words)
           /\ Texts(Args(w, cmd)) = cmd.words
           /\ \A i \in 1..Len(cmd.words) : Args(w, cmd)[i] = Bulk(cmd.words[i])
           /\ DOMAIN Args(w, cmd) = 1..Len(cmd.words)
<1>1. cmd.words \in Seq(Seq(Octets))
  BY DEF IsCommand
<1>2. /\ Bulks(cmd.words) \in Seq(CommandFrames) /\ Len(Bulks(cmd.words)) = Len(cmd.words)
      /\ \A i \in 1..Len(cmd.words) : Bulks(cmd.words)[i] = Bulk(cmd.words[i])
      /\ Texts(Bulks(cmd.words)) = cmd.words
  BY <1>1, BulksAre
<1>3. Option(w, cmd) = <<>>
  BY DEF Option
<1>4. Args(w, cmd) = Bulks(cmd.words)
  BY <1>2, <1>3 DEF Args
<1> QED BY <1>2, <1>4

LEMMA CommandIs ==
    ASSUME NEW name, NEW words, NEW expire
    PROVE  /\ Command(name, words, expire).name = name
           /\ Command(name, words, expire).words = words
           /\ Command(name, words, expire).expire = expire
  BY DEF Command

\* A call is refused when one of its keys is not read as a string.
LEMMA RefusedIs ==
    ASSUME NEW v, NEW cmd, cmd.words \in Seq(Seq(Octets))
    PROVE  /\ cmd.name \in {<<"get">>, <<"set">>, <<"publish">>} =>
                 (Refused(v, cmd) <=> ~IsString(v, Bulk(cmd.words[1])))
           /\ cmd.name = <<"ping">> => ~Refused(v, cmd)
           /\ cmd.name \in {<<"subscribe">>, <<"unsubscribe">>} =>
                 (Refused(v, cmd) <=>
                    \E i \in 1..Len(cmd.words) : ~IsString(v, Bulk(cmd.words[i])))
<1>1. CASE cmd.name \in {<<"get">>, <<"set">>, <<"publish">>}
  <2>1. KeysOf(cmd) = {cmd.words[1]}
    BY <1>1 DEF KeysOf
  <2>2. cmd.name \notin {<<"ping">>, <<"subscribe">>, <<"unsubscribe">>}
    BY <1>1
  <2> QED BY <1>1, <2>1, <2>2, BulkIsString DEF Refused
<1>2. CASE cmd.name = <<"ping">>
  <2>1. KeysOf(cmd) = {}
    BY <1>2 DEF KeysOf
  <2>2. cmd.name \notin {<<"get">>, <<"set">>, <<"publish">>, <<"subscribe">>, <<"unsubscribe">>}
    BY <1>2
  <2> QED BY <1>2, <2>1, <2>2 DEF Refused
<1>3. CASE cmd.name \in {<<"subscribe">>, <<"unsubscribe">>}
  <2>1. cmd.name \notin {<<"get">>, <<"set">>, <<"publish">>, <<"ping">>}
    BY <1>3
  <2>2. KeysOf(cmd) = ToSet(cmd.words)
    BY <2>1 DEF KeysOf
  <2>3. ToSet(cmd.words) = {cmd.words[i] : i \in 1..Len(cmd.words)}
    BY DEF ToSet
  <2> QED BY <1>3, <2>1, <2>2, <2>3, BulkIsString DEF Refused
<1> QED BY <1>1, <1>2, <1>3

LEMMA ReceivedIs ==
    ASSUME NEW v, NEW name, NEW words, NEW expire
    PROVE  Received(v, Command(name, words, expire)) =
              IF Refused(v, Command(name, words, expire)) THEN {}
              ELSE {Command(name, words, CutOff(expire))}
  BY CommandIs DEF Received

LEMMA NothingCutOff == CutOff({}) = {}
  BY DEF CutOff

\* An expiration and what is left of it.
WholePart(us, expire, whole) == expire = {us} /\ whole = {1000 * Millis(us)}
LEMMA CutOffOne ==
    ASSUME NEW us \in Nat, NEW expire, NEW whole, WholePart(us, expire, whole)
    PROVE  CutOff(expire) = whole
<1>1. CutOff(expire) = {us - (us % 1000)}
  BY DEF CutOff, WholePart
<1>2. us - (us % 1000) = 1000 * Millis(us)
  BY MillisAre
<1> QED BY <1>1, <1>2 DEF WholePart

\* The five kinds of commands without an expiration.
LEMMA PlainRead ==
    ASSUME NEW v, NEW w, NEW name \in Names, NEW words \in Seq(Seq(Octets)),
           \/ name = <<"get">> /\ Len(words) = 1
           \/ name = <<"set">> /\ Len(words) = 2
           \/ name = <<"publish">> /\ Len(words) = 2
           \/ name = <<"ping">> /\ Len(words) <= 1
           \/ name = <<"subscribe">> /\ words # <<>>
           \/ name = <<"unsubscribe">>
    PROVE  FromFrame(v, IntoFrame(w, Command(name, words, {})))
              = Received(v, Command(name, words, {}))
<1> DEFINE cmd == Command(name, words, {})
           args == Args(w, cmd)
           accepted == IF Refused(v, cmd) THEN {} ELSE {cmd}
<1>1. IsCommand(cmd) /\ cmd.name = name /\ cmd.words = words /\ cmd.expire = {}
  BY CommandIs DEF IsCommand
<1>2. Received(v, cmd) = accepted
  <2>1. Received(v, cmd) = IF Refused(v, cmd) THEN {}
                           ELSE {Command(name, words, CutOff({}))}
    BY ReceivedIs
  <2>2. Command(name, words, CutOff({})) = cmd
    BY NothingCutOff
  <2> HIDE DEF cmd
  <2> QED BY <2>1, <2>2
<1> HIDE DEF cmd
<1>3. /\ Len(args) = Len(words) /\ Texts(args) = words
      /\ \A i \in 1..Len(words) : args[i] = Bulk(words[i])
      /\ DOMAIN args = 1..Len(words)
  BY <1>1, PlainArgs
<1>4. FromFrame(v, IntoFrame(w, cmd)) = Accepted(v, name, args)
  BY <1>1, FromFrameIs
<1>5. args \in Seq(CommandFrames)
  BY <1>1, IntoFrameIs
<1> HIDE DEF args
<1>6. Plain(name, args) = cmd
  BY <1>3 DEF Plain, cmd
<1>7. \A i \in 1..Len(words) : IsBytes(args[i])
  BY <1>3, BulkIs
<1>8. Len(words) \in Nat
  OBVIOUS
<1>9. /\ name \in {<<"get">>, <<"set">>, <<"publish">>} /\ Len(words) # 0 =>
            (Refused(v, cmd) <=> ~IsString(v, args[1]))
      /\ name = <<"ping">> => ~Refused(v, cmd)
      /\ name \in {<<"subscribe">>, <<"unsubscribe">>} =>
            (Refused(v, cmd) <=> \E i \in DOMAIN args : ~IsString(v, args[i]))
  <2>1. /\ name \in {<<"get">>, <<"set">>, <<"publish">>} =>
               (Refused(v, cmd) <=> ~IsString(v, Bulk(words[1])))
        /\ name = <<"ping">> => ~Refused(v, cmd)
        /\ name \in {<<"subscribe">>, <<"unsubscribe">>} =>
               (Refused(v, cmd) <=> \E i \in 1..Len(words) : ~IsString(v, Bulk(words[i])))
    BY <1>1, RefusedIs
  <2>2. Len(words) # 0 => 1 \in 1..Len(words)
    BY <1>8
  <2> HIDE DEF accepted
  <2> QED BY <1>3, <2>1, <2>2
<1>10. CASE name = <<"get">> /\ Len(words) = 1
  <2>1. Len(args) = 1 /\ (IsString(v, args[1]) <=> ~Refused(v, cmd))
    BY <1>3, <1>9, <1>10
  <2>2. GetFrom(v, args) = accepted
    BY <1>6, <1>10, <2>1 DEF GetFrom
  <2>3. Accepted(v, name, args) = GetFrom(v, args)
    BY <1>10 DEF Accepted
  <2> QED BY <1>2, <1>4, <2>2, <2>3 DEF cmd
<1>11. CASE name = <<"set">> /\ Len(words) = 2
  <2>1. Len(args) = 2 /\ (IsString(v, args[1]) <=> ~Refused(v, cmd)) /\ IsBytes(args[2])
    BY <1>3, <1>7, <1>9, <1>11
  <2>2. ASSUME Refused(v, cmd) PROVE SetFrom(v, args) = accepted
    <3>1. SetFrom(v, args) = {}
      BY <2>1, <2>2 DEF SetFrom
    <3> QED BY <2>2, <3>1
  <2>3. ASSUME ~Refused(v, cmd) PROVE SetFrom(v, args) = accepted
    <3>1. SubSeq(args, 1, 2) = args /\ SubSeq(args, 3, Len(args)) = <<>>
      BY <1>5, <2>1
    <3>2. Expirations(v, <<>>) = {{}}
      BY DEF Expirations
    <3>3. SetFrom(v, args) = {Command(<<"set">>, Texts(SubSeq(args, 1, 2)), e) :
                                e \in Expirations(v, SubSeq(args, 3, Len(args)))}
      BY <2>1, <2>3 DEF SetFrom
    <3>4. SetFrom(v, args) = {Command(<<"set">>, Texts(args), e) : e \in {{}}}
      BY <3>1, <3>2, <3>3, Zenon
    <3>5. SetFrom(v, args) = {cmd}
      BY <1>3, <1>11, <3>4 DEF cmd
    <3> QED BY <2>3, <3>5
  <2>4. SetFrom(v, args) = accepted
    BY <2>2, <2>3
  <2>5. Accepted(v, name, args) = SetFrom(v, args)
    BY <1>11 DEF Accepted
  <2> QED BY <1>2, <1>4, <2>4, <2>5 DEF cmd
<1>12. CASE name = <<"publish">> /\ Len(words) = 2
  <2>1. Len(args) = 2 /\ (IsString(v, args[1]) <=> ~Refused(v, cmd)) /\ IsBytes(args[2])
    BY <1>3, <1>7, <1>9, <1>12
  <2>2. PublishFrom(v, args) = accepted
    BY <1>6, <1>12, <2>1 DEF PublishFrom
  <2>3. Accepted(v, name, args) = PublishFrom(v, args)
    BY <1>12 DEF Accepted
  <2> QED BY <1>2, <1>4, <2>2, <2>3 DEF cmd
<1>13. CASE name = <<"ping">> /\ Len(words) <= 1
  <2>1. Len(args) <= 1 /\ (\A i \in DOMAIN args : IsBytes(args[i])) /\ ~Refused(v, cmd)
    BY <1>3, <1>7, <1>9, <1>13
  <2>2. PingFrom(args) = accepted
    BY <1>6, <1>13, <2>1 DEF PingFrom
  <2>3. Accepted(v, name, args) = PingFrom(args)
    BY <1>13 DEF Accepted
  <2> QED BY <1>2, <1>4, <2>2, <2>3 DEF cmd
<1>14. CASE name = <<"subscribe">> /\ words # <<>>
  <2>1. args # <<>> /\ (Refused(v, cmd) <=> \E i \in DOMAIN args : ~IsString(v, args[i]))
    <3>1. Len(words) # 0
      BY <1>14
    <3>2. args # <<>>
      BY <1>3, <3>1
    <3> QED BY <1>9, <1>14, <3>2
  <2>2. SubscribeFrom(v, args) = accepted
    BY <1>6, <1>14, <2>1 DEF SubscribeFrom
  <2>3. Accepted(v, name, args) = SubscribeFrom(v, args)
    BY <1>14 DEF Accepted
  <2> QED BY <1>2, <1>4, <2>2, <2>3 DEF cmd
<1>15. CASE name = <<"unsubscribe">>
  <2>1. Refused(v, cmd) <=> \E i \in DOMAIN args : ~IsString(v, args[i])
    BY <1>9, <1>15
  <2>2. UnsubscribeFrom(v, args) = accepted
    BY <1>6, <1>15, <2>1 DEF UnsubscribeFrom
  <2>3. Accepted(v, name, args) = UnsubscribeFrom(v, args)
    BY <1>15 DEF Accepted
  <2> QED BY <1>2, <1>4, <2>2, <2>3 DEF cmd
<1> QED BY <1>10, <1>11, <1>12, <1>13, <1>14, <1>15

LEMMA ConcatIs ==
    ASSUME NEW S, NEW s \in Seq(S), NEW t \in Seq(S)
    PROVE  /\ \A i \in 1..Len(s) : (s \o t)[i] = s[i]
           /\ \A i \in 1..Len(t) : (s \o t)[Len(s) + i] = t[i]
  OBVIOUS

\* Two and two.
IsPair(s) == Len(s) = 2
LEMMA PairsJoined ==
    ASSUME NEW S, NEW s \in Seq(S), NEW t \in Seq(S), IsPair(s), IsPair(t)
    PROVE  /\ s \o t \in Seq(S) /\ Len(s \o t) = 4
           /\ (s \o t)[1] = s[1] /\ (s \o t)[2] = s[2]
           /\ (s \o t)[3] = t[1] /\ (s \o t)[4] = t[2]
<1> DEFINE u == s \o t
<1>1. u \in Seq(S) /\ Len(u) = Len(s) + Len(t)
  BY Joined
<1>2. \A i \in 1..Len(s) : u[i] = s[i]
  BY ConcatIs
<1>3. \A i \in 1..Len(t) : u[Len(s) + i] = t[i]
  BY ConcatIs
<1> HIDE DEF u
<1>4. u[1] = s[1] /\ u[2] = s[2]
  BY <1>2 DEF IsPair
<1>5. u[2 + 1] = t[1] /\ u[2 + 2] = t[2]
  BY <1>3 DEF IsPair
<1> QED BY <1>1, <1>4, <1>5 DEF u, IsPair

LEMMA PairOf ==
    ASSUME NEW S, NEW s \in Seq(S), Len(s) = 4
    PROVE  /\ SubSeq(s, 1, 2) \in Seq(S) /\ Len(SubSeq(s, 1, 2)) = 2
           /\ SubSeq(s, 1, 2)[1] = s[1] /\ SubSeq(s, 1, 2)[2] = s[2]
           /\ SubSeq(s, 3, 4) \in Seq(S) /\ Len(SubSeq(s, 3, 4)) = 2
           /\ SubSeq(s, 3, 4)[1] = s[3] /\ SubSeq(s, 3, 4)[2] = s[4]
<1>1. /\ SubSeq(s, 1, 2) \in Seq(S) /\ Len(SubSeq(s, 1, 2)) = 2
      /\ \A i \in 1..2 : SubSeq(s, 1, 2)[i] = s[1 + i - 1]
  BY SubSeqIs
<1>2. /\ SubSeq(s, 3, 4) \in Seq(S) /\ Len(SubSeq(s, 3, 4)) = 2
      /\ \A i \in 1..2 : SubSeq(s, 3, 4)[i] = s[3 + i - 1]
  BY SubSeqIs
<1> QED BY <1>1, <1>2

LEMMA PairIsNotEmpty == ASSUME NEW s, IsPair(s) PROVE s # <<>>
<1>1. Len(<<>>) = 0
  OBVIOUS
<1> SUFFICES ASSUME s = <<>> PROVE FALSE
  OBVIOUS
<1>2. Len(s) = 2
  BY DEF IsPair
<1>3. Len(s) = 0
  BY <1>1
<1> QED BY <1>2, <1>3

\* A key that expires: the word before the milliseconds is px, or PX.
LEMMA ExpiringRead ==
    ASSUME NEW v, NEW w, NEW words \in Seq(Seq(Octets)), IsPair(words), NEW us \in Nat
    PROVE  FromFrame(v, IntoFrame(w, Command(<<"set">>, words, {us})))
              = Received(v, Command(<<"set">>, words, {us}))
<1> DEFINE cmd == Command(<<"set">>, words, {us})
           ms == Millis(us)
           args == Args(w, cmd)
           px == IF w = "rust" THEN <<"px">> ELSE <<"PX">>
           rest == Bulks(words)
           opt == <<Bulk(px), Integer(ms)>>
<1>1. /\ IsCommand(cmd) /\ cmd.name = <<"set">> /\ cmd.words = words /\ cmd.expire = {us}
  <2>1. <<"set">> \in Names
    BY DEF Names
  <2> QED BY <2>1, CommandIs DEF IsCommand
<1>a. Received(v, cmd) = IF Refused(v, cmd) THEN {}
                         ELSE {Command(<<"set">>, words, {1000 * ms})}
  <2> DEFINE set == <<"set">>
             expire == {us}
             whole == {1000 * ms}
  <2>1. cmd = Command(set, words, expire)
    OBVIOUS
  <2>2. WholePart(us, expire, whole)
    BY DEF WholePart
  <2> HIDE DEF set, expire, whole, cmd
  <2>3. CutOff(expire) = whole
    BY <2>2, CutOffOne
  <2>4. Received(v, cmd) = IF Refused(v, cmd) THEN {}
                           ELSE {Command(set, words, CutOff(expire))}
    BY <2>1, ReceivedIs
  <2> QED BY <2>3, <2>4 DEF set, whole
<1>b. ms \in Nat
  BY MillisAre
<1> HIDE DEF cmd
<1>2. FromFrame(v, IntoFrame(w, cmd)) = Accepted(v, <<"set">>, args)
  BY <1>1, FromFrameIs
<1>3. px \in Seq(Octets) /\ Utf8(px) /\ Upper(px) = <<"PX">>
  BY NamesAre DEF Upper
<1>4. Option(w, cmd) = opt
  <2>1. (CHOOSE u \in cmd.expire : TRUE) = us /\ cmd.expire # {}
    BY <1>1
  <2> QED BY <2>1 DEF Option
<1> HIDE DEF px, ms
<1>5. rest \in Seq(CommandFrames) /\ Len(rest) = 2 /\ Texts(rest) = words
      /\ rest[1] = Bulk(words[1]) /\ rest[2] = Bulk(words[2])
  BY BulksAre DEF IsPair
<1>6. opt \in Seq(CommandFrames) /\ Len(opt) = 2 /\ opt[1] = Bulk(px) /\ opt[2] = Integer(ms)
  <2>1. Bulk(px) \in CommandFrames /\ Integer(ms) \in CommandFrames
    BY <1>3, <1>b DEF CommandFrames
  <2> QED BY <2>1
<1>7. args = rest \o opt
  BY <1>1, <1>4 DEF Args
<1> HIDE DEF args, rest, opt
<1>8. args \in Seq(CommandFrames) /\ Len(args) = 4 /\ args[1] = rest[1] /\ args[2] = rest[2]
      /\ args[3] = opt[1] /\ args[4] = opt[2]
  <2>1. rest \in Seq(CommandFrames) /\ opt \in Seq(CommandFrames) /\ Len(rest) = 2 /\ Len(opt) = 2
    BY <1>5, <1>6
  <2>2. IsPair(rest) /\ IsPair(opt)
    BY <2>1 DEF IsPair
  <2> QED BY <1>7, <2>1, <2>2, PairsJoined
<1>9. SubSeq(args, 1, 2) = rest /\ SubSeq(args, 3, Len(args)) = opt
  <2>1. /\ SubSeq(args, 1, 2) \in Seq(CommandFrames) /\ Len(SubSeq(args, 1, 2)) = 2
        /\ SubSeq(args, 1, 2)[1] = args[1] /\ SubSeq(args, 1, 2)[2] = args[2]
    BY <1>8, PairOf
  <2>2. /\ SubSeq(args, 3, 4) \in Seq(CommandFrames) /\ Len(SubSeq(args, 3, 4)) = 2
        /\ SubSeq(args, 3, 4)[1] = args[3] /\ SubSeq(args, 3, 4)[2] = args[4]
    BY <1>8, PairOf
  <2>3. \A i \in 1..2 : i = 1 \/ i = 2
    OBVIOUS
  <2>4. SubSeq(args, 1, 2) = rest
    <3> DEFINE x == SubSeq(args, 1, 2)
    <3>1. x \in Seq(CommandFrames) /\ Len(x) = Len(rest) /\ \A i \in 1..Len(x) : x[i] = rest[i]
      BY <1>5, <1>8, <2>1, <2>3
    <3> HIDE DEF x
    <3>2. x = rest
      BY <1>5, <3>1, SeqEqual
    <3> QED BY <3>2 DEF x
  <2>5. SubSeq(args, 3, 4) = opt
    <3> DEFINE x == SubSeq(args, 3, 4)
    <3>1. x \in Seq(CommandFrames) /\ Len(x) = Len(opt) /\ \A i \in 1..Len(x) : x[i] = opt[i]
      BY <1>6, <1>8, <2>2, <2>3
    <3> HIDE DEF x
    <3>2. x = opt
      BY <1>6, <3>1, SeqEqual
    <3> QED BY <3>2 DEF x
  <2> QED BY <1>8, <2>4, <2>5
<1>10. (IsString(v, args[1]) <=> ~Refused(v, cmd)) /\ IsBytes(args[2])
  <2>1. Refused(v, cmd) <=> ~IsString(v, Bulk(words[1]))
    BY <1>1, RefusedIs
  <2> QED BY <1>5, <1>8, <2>1, BulkIs
<1>11. Expirations(v, opt) = {{1000 * ms}}
  <2>1. opt # <<>> /\ Len(opt) # 1 /\ Len(opt) = 2
    <3>1. Len(opt) = 2 /\ opt \in Seq(CommandFrames)
      BY <1>6
    <3>2. opt # <<>>
      BY <3>1, PairIsNotEmpty DEF IsPair
    <3> QED BY <3>1, <3>2
  <2>2. IsString(v, opt[1]) /\ opt[1].text = px
    BY <1>3, <1>6, BulkIs, BulkIsString
  <2>3. IntOf(v, opt[2]) = {ms}
    BY <1>6 DEF IntOf, Integer, Frame
  <2> DEFINE option == IF opt # <<>> /\ IsString(v, opt[1]) THEN Upper(opt[1].text) ELSE <<>>
             unit == CASE option = <<"EX">> -> {1000000}
                       [] option = <<"PX">> -> {1000}
                       [] OTHER -> {}
  <2>4. option = <<"PX">>
    BY <1>3, <2>1, <2>2
  <2>5. unit = {1000}
    <3> HIDE DEF option
    <3> QED BY <2>4
  <2>6. Expirations(v, opt) = {{u * n} : u \in unit, n \in IntOf(v, opt[2])}
    BY <2>1 DEF Expirations
  <2> HIDE DEF unit
  <2>7. {{u * n} : u \in {1000}, n \in {ms}} = {{1000 * ms}}
    OBVIOUS
  <2> QED BY <2>3, <2>5, <2>6, <2>7
<1>12. ASSUME ~Refused(v, cmd)
       PROVE  SetFrom(v, args) = {Command(<<"set">>, words, {1000 * ms})}
  <2>1. ~(Len(args) < 2)
    BY <1>8
  <2>2. SetFrom(v, args) = {Command(<<"set">>, Texts(SubSeq(args, 1, 2)), e) :
                              e \in Expirations(v, SubSeq(args, 3, Len(args)))}
    BY <1>10, <1>12, <2>1 DEF SetFrom
  <2>3. /\ Texts(SubSeq(args, 1, 2)) = words
        /\ Expirations(v, SubSeq(args, 3, Len(args))) = {{1000 * ms}}
    BY <1>5, <1>9, <1>11
  <2> DEFINE texts == Texts(SubSeq(args, 1, 2))
             expires == Expirations(v, SubSeq(args, 3, Len(args)))
             x == {1000 * ms}
  <2>4. texts = words /\ expires = {x}
    BY <2>3
  <2>5. SetFrom(v, args) = {Command(<<"set">>, texts, e) : e \in expires}
    BY <2>2
  <2> HIDE DEF texts, expires, x
  <2>6. SetFrom(v, args) = {Command(<<"set">>, words, x)}
    BY <2>4, <2>5
  <2> QED BY <2>6 DEF x
<1>13. SetFrom(v, args) = Received(v, cmd)
  <2>1. Refused(v, cmd) => SetFrom(v, args) = {}
    BY <1>8, <1>10 DEF SetFrom
  <2>2. CASE Refused(v, cmd)
    <3>1. Received(v, cmd) = {}
      BY <1>a, <2>2, Zenon
    <3> QED BY <2>1, <2>2, <3>1, Zenon
  <2>3. CASE ~Refused(v, cmd)
    <3> DEFINE whole == {Command(<<"set">>, words, {1000 * ms})}
    <3>1. SetFrom(v, args) = whole
      BY <1>12, <2>3, Zenon
    <3>2. Received(v, cmd) = IF Refused(v, cmd) THEN {} ELSE whole
      BY <1>a, Zenon
    <3> HIDE DEF whole
    <3>3. Received(v, cmd) = whole
      BY <2>3, <3>2, Zenon
    <3> QED BY <3>1, <3>3, Zenon
  <2> QED BY <2>2, <2>3, Zenon
<1>14. Accepted(v, <<"set">>, args) = SetFrom(v, args)
  BY DEF Accepted
<1> QED BY <1>2, <1>13, <1>14 DEF cmd

LEMMA WordsAre ==
    ASSUME NEW k \in Seq(Octets), NEW value \in Seq(Octets)
    PROVE  /\ <<k>> \in Seq(Seq(Octets)) /\ Len(<<k>>) = 1 /\ <<k>>[1] = k
           /\ <<value>> \in Seq(Seq(Octets)) /\ Len(<<value>>) = 1 /\ <<value>>[1] = value
           /\ <<k, value>> \in Seq(Seq(Octets)) /\ Len(<<k, value>>) = 2
           /\ <<k, value>>[1] = k /\ <<k, value>>[2] = value
  OBVIOUS

LEMMA TextIs == ASSUME NEW w, NEW k \in Text(w) PROVE k \in Seq(Octets)
  BY DEF Text

\* The four kinds of calls.
PingWords == {<<>>} \cup {<<message>> : message \in Seq(Octets)}
Expires(w) == {{}} \cup {{us} : us \in Micros(w)}
LEMMA ExpiresAre ==
    ASSUME NEW w, NEW expire \in Expires(w)
    PROVE  expire = {} \/ \E us \in Nat : expire = {us}
<1>1. \A us \in Micros(w) : us \in Nat
  BY DEF Micros
<1> QED BY <1>1 DEF Expires

LEMMA ClientCallIs ==
    ASSUME NEW w, NEW cmd \in ClientCalls(w)
    PROVE  \/ \E k \in Text(w) : cmd = Command(<<"get">>, <<k>>, {})
           \/ \E k \in Text(w) : \E value \in Seq(Octets) : \E expire \in Expires(w) :
                 cmd = Command(<<"set">>, <<k, value>>, expire)
           \/ \E channel \in Text(w) : \E message \in Seq(Octets) :
                 cmd = Command(<<"publish">>, <<channel, message>>, {})
           \/ \E words \in PingWords : cmd = Command(<<"ping">>, words, {})
<1> DEFINE V == Seq(Octets)
           A == {Command(<<"get">>, <<k>>, {}) : k \in Text(w)}
           B == {Command(<<"set">>, <<k, value>>, expire) :
                    k \in Text(w), value \in V, expire \in Expires(w)}
           C == {Command(<<"publish">>, <<channel, message>>, {}) :
                    channel \in Text(w), message \in V}
           D == {Command(<<"ping">>, words, {}) : words \in PingWords}
<1>0. ClientCalls(w) = A \cup B \cup C \cup D
  BY DEF ClientCalls, PingWords, Expires
<1>1. cmd \in A => \E k \in Text(w) : cmd = Command(<<"get">>, <<k>>, {})
  OBVIOUS
<1>2. cmd \in B => \E k \in Text(w) : \E value \in V : \E expire \in Expires(w) :
                     cmd = Command(<<"set">>, <<k, value>>, expire)
  <2> DEFINE Set(k, value, expire) == Command(<<"set">>, <<k, value>>, expire)
             T == Text(w)
             E == Expires(w)
  <2>1. B = {Set(k, value, expire) : k \in T, value \in V, expire \in E}
    OBVIOUS
  <2> HIDE DEF V, T, E, Set, B
  <2>2. cmd \in B => \E k \in T : \E value \in V : \E expire \in E :
                        cmd = Set(k, value, expire)
    BY <2>1
  <2> QED BY <2>2 DEF Set, T, E
<1>3. cmd \in C => \E channel \in Text(w) : \E message \in V :
                     cmd = Command(<<"publish">>, <<channel, message>>, {})
  <2> HIDE DEF V
  <2> QED OBVIOUS
<1>4. cmd \in D => \E words \in PingWords : cmd = Command(<<"ping">>, words, {})
  OBVIOUS
<1> HIDE DEF A, B, C, D
<1>5. cmd \in A \/ cmd \in B \/ cmd \in C \/ cmd \in D
  BY <1>0
<1> QED BY <1>1, <1>2, <1>3, <1>4, <1>5

\* A call of a client is read as the command it is to be, whichever version
\* writes and whichever reads.
LEMMA ClientCallRead ==
    ASSUME NEW v, NEW w, NEW cmd \in ClientCalls(w)
    PROVE  FromFrame(v, IntoFrame(w, cmd)) = Received(v, cmd) /\ IsCommand(cmd)
<1>0. {<<"get">>, <<"set">>, <<"publish">>, <<"ping">>} \subseteq Names
  BY DEF Names
<1>1. CASE \E k \in Text(w) : cmd = Command(<<"get">>, <<k>>, {})
  <2>1. PICK k \in Text(w) : cmd = Command(<<"get">>, <<k>>, {})
    BY <1>1
  <2> DEFINE words == <<k>>
  <2>2. words \in Seq(Seq(Octets)) /\ Len(words) = 1
    <3>1. <<>> \in Seq(Octets)
      OBVIOUS
    <3> QED BY <3>1, TextIs, WordsAre
  <2>3. <<"get">> \in Names
    BY <1>0
  <2>4. cmd = Command(<<"get">>, words, {})
    BY <2>1
  <2> HIDE DEF words
  <2>5. IsCommand(cmd)
    BY <2>2, <2>3, <2>4, CommandIs DEF IsCommand
  <2> QED BY <2>2, <2>3, <2>4, <2>5, PlainRead
<1>2. CASE \E k \in Text(w) : \E value \in Seq(Octets) : \E expire \in Expires(w) :
              cmd = Command(<<"set">>, <<k, value>>, expire)
  <2>1. PICK k \in Text(w), value \in Seq(Octets), expire \in Expires(w) :
              cmd = Command(<<"set">>, <<k, value>>, expire)
    BY <1>2
  <2> DEFINE words == <<k, value>>
  <2>2. words \in Seq(Seq(Octets)) /\ Len(words) = 2
    BY TextIs, WordsAre
  <2>3. <<"set">> \in Names
    BY <1>0
  <2>4. cmd = Command(<<"set">>, words, expire)
    BY <2>1
  <2> HIDE DEF words
  <2>5. IsCommand(cmd)
    <3>1. expire = {} \/ \E us \in Nat : expire = {us}
      BY ExpiresAre
    <3> QED BY <2>2, <2>3, <2>4, <3>1, CommandIs DEF IsCommand
  <2>6. CASE expire = {}
    BY <2>2, <2>3, <2>4, <2>5, <2>6, PlainRead
  <2>7. CASE \E us \in Nat : expire = {us}
    <3>1. PICK us \in Nat : expire = {us}
      BY <2>7
    <3>2. IsPair(words)
      BY <2>2 DEF IsPair
    <3> QED BY <2>2, <2>4, <2>5, <3>1, <3>2, ExpiringRead
  <2> QED BY <2>6, <2>7, ExpiresAre
<1>3. CASE \E channel \in Text(w) : \E message \in Seq(Octets) :
              cmd = Command(<<"publish">>, <<channel, message>>, {})
  <2>1. PICK channel \in Text(w), message \in Seq(Octets) :
              cmd = Command(<<"publish">>, <<channel, message>>, {})
    BY <1>3
  <2> DEFINE words == <<channel, message>>
  <2>2. words \in Seq(Seq(Octets)) /\ Len(words) = 2
    BY TextIs, WordsAre
  <2>3. <<"publish">> \in Names
    BY <1>0
  <2>4. cmd = Command(<<"publish">>, words, {})
    BY <2>1
  <2> HIDE DEF words
  <2>5. IsCommand(cmd)
    BY <2>2, <2>3, <2>4, CommandIs DEF IsCommand
  <2> QED BY <2>2, <2>3, <2>4, <2>5, PlainRead
<1>4. CASE \E words \in PingWords : cmd = Command(<<"ping">>, words, {})
  <2>1. PICK words \in PingWords : cmd = Command(<<"ping">>, words, {})
    BY <1>4
  <2>2. words \in Seq(Seq(Octets)) /\ Len(words) <= 1
    <3>1. CASE words = <<>>
      BY <3>1
    <3>2. CASE \E message \in Seq(Octets) : words = <<message>>
      BY <3>2
    <3> QED BY <3>1, <3>2 DEF PingWords
  <2>3. <<"ping">> \in Names
    BY <1>0
  <2>5. IsCommand(cmd)
    BY <2>1, <2>2, <2>3, CommandIs DEF IsCommand
  <2> QED BY <2>1, <2>2, <2>3, <2>5, PlainRead
<1> QED BY <1>1, <1>2, <1>3, <1>4, ClientCallIs

\* And so is a call of its Subscriber.
LEMMA SubscriberCallRead ==
    ASSUME NEW v, NEW w, NEW cmd \in SubscriberCalls(w)
    PROVE  FromFrame(v, IntoFrame(w, cmd)) = Received(v, cmd) /\ IsCommand(cmd)
<1>1. \A channels \in Seq(Text(w)) : channels \in Seq(Seq(Octets))
  <2>1. Text(w) \subseteq Seq(Octets)
    BY DEF Text
  <2> QED BY <2>1, SeqMonotonic
<1>2. CASE \E channels \in Seq(Text(w)) \ {<<>>} : cmd = Command(<<"subscribe">>, channels, {})
  <2>1. PICK channels \in Seq(Text(w)) \ {<<>>} : cmd = Command(<<"subscribe">>, channels, {})
    BY <1>2
  <2>2. <<"subscribe">> \in Names
    BY DEF Names
  <2>3. channels \in Seq(Seq(Octets)) /\ channels # <<>>
    BY <1>1, <2>1
  <2>4. IsCommand(cmd)
    BY <2>1, <2>2, <2>3, CommandIs DEF IsCommand
  <2> QED BY <2>1, <2>2, <2>3, <2>4, PlainRead
<1>3. CASE \E channels \in Seq(Text(w)) : cmd = Command(<<"unsubscribe">>, channels, {})
  <2>1. PICK channels \in Seq(Text(w)) : cmd = Command(<<"unsubscribe">>, channels, {})
    BY <1>3
  <2>2. <<"unsubscribe">> \in Names
    BY DEF Names
  <2>3. channels \in Seq(Seq(Octets))
    BY <1>1, <2>1
  <2>4. IsCommand(cmd)
    BY <2>1, <2>2, <2>3, CommandIs DEF IsCommand
  <2> QED BY <2>1, <2>2, <2>3, <2>4, PlainRead
<1> QED BY <1>2, <1>3 DEF SubscriberCalls

-----------------------------------------------------------------------------
\* A store of texts.
IsStore(s) == \A k \in DOMAIN s : s[k] \in Seq(Octets)
\* The stores before the first k of the calls.
StoresUpTo(calls, k, f) ==
    f = [n \in 1..k |-> IF n = 1 THEN <<>> ELSE Stored(calls[n - 1], f[n - 1])]

LEMMA StoredIs ==
    ASSUME NEW w, NEW cmd \in ClientCalls(w), NEW s, IsStore(s)
    PROVE  IsStore(Stored(cmd, s))
<1>1. CASE cmd.name # <<"set">>
  BY <1>1 DEF Stored
<1>2. CASE cmd.name = <<"set">>
  <2>1. cmd.words[2] \in Seq(Octets)
    <3>1. \E k \in Text(w) : \E value \in Seq(Octets) :
             \E expire \in Expires(w) :
               cmd = Command(<<"set">>, <<k, value>>, expire)
      <4>1. /\ <<"get">> # <<"set">> /\ <<"publish">> # <<"set">> /\ <<"ping">> # <<"set">>
        OBVIOUS
      <4>2. ASSUME NEW k \in Text(w) PROVE cmd # Command(<<"get">>, <<k>>, {})
        BY <1>2, <4>1, CommandIs
      <4>3. ASSUME NEW channel \in Text(w), NEW message \in Seq(Octets)
            PROVE  cmd # Command(<<"publish">>, <<channel, message>>, {})
        BY <1>2, <4>1, CommandIs
      <4>4. ASSUME NEW words \in PingWords PROVE cmd # Command(<<"ping">>, words, {})
        BY <1>2, <4>1, CommandIs
      <4> QED BY <4>2, <4>3, <4>4, ClientCallIs
    <3>2. PICK k \in Text(w), value \in Seq(Octets), expire \in Expires(w) :
               cmd = Command(<<"set">>, <<k, value>>, expire)
      BY <3>1
    <3>3. cmd.words = <<k, value>>
      BY <3>2, CommandIs
    <3> QED BY <3>3
  <2> DEFINE value == cmd.words[2]
             key == cmd.words[1]
             new == [k \in DOMAIN s \cup {key} |-> IF k = key THEN value ELSE s[k]]
  <2>2. Stored(cmd, s) = new
    BY <1>2 DEF Stored
  <2> HIDE DEF value, key
  <2>3. IsStore(new)
    BY <2>1 DEF IsStore, value
  <2> QED BY <2>2, <2>3
<1> QED BY <1>1, <1>2

LEMMA StoresExist ==
    ASSUME NEW w, NEW calls \in Seq(ClientCalls(w))
    PROVE  \A k \in Nat : k <= Len(calls) + 1 =>
              \E f : StoresUpTo(calls, k, f) /\ \A n \in 1..k : IsStore(f[n])
<1> DEFINE Has(k) == \E f : StoresUpTo(calls, k, f) /\ \A n \in 1..k : IsStore(f[n])
           Wrong == {k \in Nat : k <= Len(calls) + 1 /\ ~Has(k)}
<1>1. ASSUME Wrong # {} PROVE FALSE
  <2>1. PICK k \in Wrong : \A j \in Wrong : k <= j
    <3>1. Wrong \subseteq Nat
      OBVIOUS
    <3> HIDE DEF Wrong
    <3> QED BY <1>1, <3>1, Least
  <2>2. k \in Nat /\ k <= Len(calls) + 1 /\ ~Has(k)
    OBVIOUS
  <2>3. CASE k = 0
    <3>1. StoresUpTo(calls, 0, [n \in 1..0 |-> <<>>])
      BY DEF StoresUpTo
    <3> QED BY <2>2, <2>3, <3>1
  <2>4. CASE k # 0
    <3>1. k - 1 \in Nat /\ k - 1 <= Len(calls) + 1 /\ k - 1 \notin Wrong
      BY <2>1, <2>2, <2>4
    <3>2. Has(k - 1)
      BY <3>1
    <3> HIDE DEF Wrong
    <3>3. PICK f : StoresUpTo(calls, k - 1, f) /\ \A n \in 1..k - 1 : IsStore(f[n])
      BY <3>2
    <3> DEFINE After(g, n) == IF n = 1 THEN <<>> ELSE Stored(calls[n - 1], g[n - 1])
               h == [n \in 1..k |-> After(f, n)]
    <3>4. \A n \in 1..k - 1 : f[n] = After(f, n)
      BY <3>3 DEF StoresUpTo
    <3>5. \A n \in 1..k : n # 1 => n - 1 \in 1..k - 1 /\ n - 1 \in 1..k
      BY <2>2
    <3>6. \A n \in 1..k : h[n] = After(f, n)
      OBVIOUS
    <3> HIDE DEF h
    <3>7. \A n \in 1..k : n # 1 => h[n - 1] = f[n - 1]
      BY <3>4, <3>5, <3>6
    <3>8. \A n \in 1..k : h[n] = After(h, n)
      BY <3>6, <3>7
    <3>9. h = [n \in 1..k |-> h[n]]
      BY DEF h
    <3>10. StoresUpTo(calls, k, h)
      BY <3>8, <3>9 DEF StoresUpTo
    <3>11. ASSUME NEW n \in 1..k PROVE IsStore(h[n])
      <4>1. CASE n = 1
        <5>1. h[n] = <<>>
          BY <3>6, <4>1
        <5> QED BY <5>1 DEF IsStore
      <4>2. CASE n # 1
        <5>1. n - 1 \in 1..k - 1
          BY <3>5, <4>2
        <5>2. n - 1 \in 1..Len(calls)
          BY <2>2, <5>1
        <5>3. calls[n - 1] \in ClientCalls(w) /\ IsStore(f[n - 1])
          BY <3>3, <5>1, <5>2
        <5>4. h[n] = Stored(calls[n - 1], f[n - 1])
          BY <3>6, <4>2
        <5> HIDE DEF Has
        <5> QED BY <5>3, <5>4, StoredIs
      <4> QED BY <4>1, <4>2
    <3> QED BY <2>2, <3>10, <3>11
  <2> QED BY <2>3, <2>4
<1> QED BY <1>1

\* The calls, run in order, begin with stores of texts.
LEMMA StoresAre ==
    ASSUME NEW w, NEW calls \in Seq(ClientCalls(w))
    PROVE  \A n \in 1..Len(calls) + 1 : IsStore(Stores(calls)[n])
<1> DEFINE k == Len(calls) + 1
           f == CHOOSE g : StoresUpTo(calls, k, g)
<1>1. k \in Nat /\ k <= Len(calls) + 1
  OBVIOUS
<1>2. Stores(calls) = f
  BY DEF Stores, StoresUpTo
<1>3. PICK g : StoresUpTo(calls, k, g) /\ \A n \in 1..k : IsStore(g[n])
  <2> HIDE DEF k
  <2>1. \A m \in Nat : m <= Len(calls) + 1 =>
              \E g : StoresUpTo(calls, m, g) /\ \A n \in 1..m : IsStore(g[n])
    BY StoresExist
  <2> QED BY <1>1, <2>1
<1>4. StoresUpTo(calls, k, f)
  BY <1>3
<1> HIDE DEF f
<1>5. \A n \in 1..k : f[n] = g[n]
  <2> DEFINE Bad == {n \in 1..k : f[n] # g[n]}
  <2> SUFFICES ASSUME Bad # {} PROVE FALSE
    OBVIOUS
  <2>1. PICK n \in Bad : \A j \in Bad : n <= j
    <3>1. Bad \subseteq Nat
      OBVIOUS
    <3> HIDE DEF Bad
    <3> QED BY <3>1, Least
  <2>2. n \in 1..k /\ f[n] # g[n]
    OBVIOUS
  <2>3. n # 1 => f[n - 1] = g[n - 1]
    <3>1. n # 1 => n - 1 \in 1..k /\ n - 1 < n
      BY <1>1, <2>2
    <3> QED BY <2>1, <2>2, <3>1
  <2> HIDE DEF Bad, k
  <2>4. f[n] = IF n = 1 THEN <<>> ELSE Stored(calls[n - 1], f[n - 1])
    BY <1>4, <2>2 DEF StoresUpTo
  <2>5. g[n] = IF n = 1 THEN <<>> ELSE Stored(calls[n - 1], g[n - 1])
    BY <1>3, <2>2 DEF StoresUpTo
  <2> QED BY <2>2, <2>3, <2>4, <2>5
<1> QED BY <1>2, <1>3, <1>5

-----------------------------------------------------------------------------
\* Calls and their answers, over a connection.

\* A call is answered with one frame, and returns what it would on the store.
LEMMA AnswerIs ==
    ASSUME NEW v, NEW w, NEW cmd \in ClientCalls(v), NEW s, IsStore(s)
    PROVE  LET a == CHOOSE f \in Answers(w, cmd, s, Subscribers) : TRUE
           IN  Written(a) /\ Result(cmd, a) = Returns(cmd, s)
<1> DEFINE a == CHOOSE f \in Answers(w, cmd, s, Subscribers) : TRUE
<1>0. \A f : (CHOOSE g \in {f} : TRUE) = f
  OBVIOUS
<1>1. CASE \E k \in Text(v) : cmd = Command(<<"get">>, <<k>>, {})
  <2>1. PICK k \in Text(v) : cmd = Command(<<"get">>, <<k>>, {})
    BY <1>1
  <2>2. cmd.name = <<"get">> /\ cmd.words[1] = k
    BY <2>1, CommandIs
  <2>3. a = GetAnswer(cmd, s)
    BY <1>0, <2>2 DEF Answers
  <2>4. Result(cmd, a) = GetResult(a)
    BY <2>2 DEF Result
  <2>5. Returns(cmd, s) = IF k \in DOMAIN s THEN Ok(<<s[k]>>) ELSE Ok(<<>>)
    BY <2>2 DEF Returns
  <2> HIDE DEF a
  <2>6. CASE k \in DOMAIN s
    <3>1. a = Bulk(s[k]) /\ s[k] \in Seq(Octets)
      BY <2>2, <2>3, <2>6 DEF GetAnswer, IsStore
    <3>2. GetResult(a) = Ok(<<s[k]>>)
      BY <3>1, BulkIs DEF GetResult
    <3> QED BY <2>4, <2>5, <2>6, <3>1, <3>2 DEF Written, a
  <2>7. CASE k \notin DOMAIN s
    <3>1. a = Null
      BY <2>2, <2>3, <2>7 DEF GetAnswer
    <3>2. GetResult(Null) = Ok(<<>>)
      BY DEF GetResult, Null, Frame, IsBytes
    <3> QED BY <2>4, <2>5, <2>7, <3>1, <3>2 DEF Written, a
  <2> QED BY <2>6, <2>7
<1>2. CASE \E k \in Text(v) : \E value \in Seq(Octets) : \E expire \in Expires(v) :
              cmd = Command(<<"set">>, <<k, value>>, expire)
  <2>1. cmd.name = <<"set">>
    BY <1>2, CommandIs
  <2>2. a = Simple(<<"OK">>)
    BY <1>0, <2>1 DEF Answers, SetAnswer
  <2>3. Result(cmd, a) = SetResult(a) /\ Returns(cmd, s) = Ok(<<>>)
    BY <2>1 DEF Result, Returns
  <2> HIDE DEF a
  <2>4. SetResult(Simple(<<"OK">>)) = Ok(<<>>)
    BY DEF SetResult, Simple, Frame
  <2>5. Written(Simple(<<"OK">>))
    BY NamesAre DEF Written
  <2> QED BY <2>2, <2>3, <2>4, <2>5 DEF a
<1>3. CASE \E channel \in Text(v) : \E message \in Seq(Octets) :
              cmd = Command(<<"publish">>, <<channel, message>>, {})
  <2>1. cmd.name = <<"publish">>
    BY <1>3, CommandIs
  <2>2. a = Integer(Subscribers)
    BY <1>0, <2>1 DEF Answers, PublishAnswer
  <2>3. Result(cmd, a) = PublishResult(a) /\ Returns(cmd, s) = Ok(<<Subscribers>>)
    BY <2>1 DEF Result, Returns
  <2> HIDE DEF a
  <2>4. PublishResult(Integer(Subscribers)) = Ok(<<Subscribers>>)
    BY DEF PublishResult, Integer, Frame
  <2>5. Written(Integer(Subscribers))
    BY SubscribersAssumption DEF Written
  <2> QED BY <2>2, <2>3, <2>4, <2>5 DEF a
<1>4. CASE \E words \in PingWords : cmd = Command(<<"ping">>, words, {})
  <2>1. PICK words \in PingWords : cmd = Command(<<"ping">>, words, {})
    BY <1>4
  <2>2. cmd.name = <<"ping">> /\ cmd.words = words
    BY <2>1, CommandIs
  <2>3. a = PingAnswer(cmd)
    BY <1>0, <2>2 DEF Answers
  <2>4. /\ Result(cmd, a) = PingResult(a)
        /\ Returns(cmd, s) = Ok(IF words = <<>> THEN << <<"PONG">> >> ELSE words)
    BY <2>2 DEF Result, Returns
  <2> HIDE DEF a
  <2>5. CASE words = <<>>
    <3>1. a = Simple(<<"PONG">>)
      BY <2>2, <2>3, <2>5 DEF PingAnswer
    <3>2. PingResult(Simple(<<"PONG">>)) = Ok(<< <<"PONG">> >>)
      BY DEF PingResult, Simple, Frame, IsBytes
    <3>3. Written(Simple(<<"PONG">>))
      BY NamesAre DEF Written
    <3> QED BY <2>4, <2>5, <3>1, <3>2, <3>3 DEF a
  <2>6. CASE \E message \in Seq(Octets) : words = <<message>>
    <3>1. PICK message \in Seq(Octets) : words = <<message>>
      BY <2>6
    <3>2. words # <<>> /\ words[1] = message
      BY <3>1
    <3>3. a = Bulk(message)
      BY <2>2, <2>3, <3>2 DEF PingAnswer
    <3>4. PingResult(a) = Ok(<<message>>)
      BY <3>3, BulkIs DEF PingResult
    <3> QED BY <2>4, <3>1, <3>2, <3>3, <3>4 DEF Written, a
  <2> QED BY <2>5, <2>6 DEF PingWords
<1> QED BY <1>1, <1>2, <1>3, <1>4, ClientCallIs DEF a

\* The frames are read as the calls.
AreCalls(v, out, calls) ==
    [i \in DOMAIN out |-> FromFrame(v, out[i])] = [i \in DOMAIN calls |-> Received(v, calls[i])]

\* What is read of the calls a client writes.
LEMMA AskedRead ==
    ASSUME NEW v, NEW w, NEW calls \in Seq(ClientCalls(w) \cup SubscriberCalls(w))
    PROVE  /\ Asked(w, calls) \in Seq(Octets)
           /\ AreCalls(v, Whole(v, Asked(w, calls)).out, calls)
<1> DEFINE frames == [i \in DOMAIN calls |-> IntoFrame(w, calls[i])]
           S == {IntoFrame(w, cmd) : cmd \in ClientCalls(w) \cup SubscriberCalls(w)}
<1>1. DOMAIN calls = 1..Len(calls) /\ Len(calls) \in Nat
      /\ \A i \in 1..Len(calls) : calls[i] \in ClientCalls(w) \cup SubscriberCalls(w)
  OBVIOUS
<1>2. frames \in Seq(S) /\ Len(frames) = Len(calls)
      /\ \A i \in 1..Len(calls) : frames[i] = IntoFrame(w, calls[i])
  BY <1>1
<1>3. \A i \in 1..Len(calls) : /\ FromFrame(v, frames[i]) = Received(v, calls[i])
                               /\ WrittenFrame(frames[i])
  <2> SUFFICES ASSUME NEW i \in 1..Len(calls)
               PROVE  FromFrame(v, frames[i]) = Received(v, calls[i]) /\ WrittenFrame(frames[i])
    OBVIOUS
  <2> DEFINE cmd == calls[i]
  <2>1. cmd \in ClientCalls(w) \/ cmd \in SubscriberCalls(w)
    BY <1>1
  <2>2. frames[i] = IntoFrame(w, cmd)
    BY <1>2
  <2> HIDE DEF cmd, frames
  <2>3. FromFrame(v, IntoFrame(w, cmd)) = Received(v, cmd) /\ IsCommand(cmd)
    BY <2>1, ClientCallRead, SubscriberCallRead
  <2>4. WrittenFrame(IntoFrame(w, cmd))
    BY <2>3, IntoFrameIs
  <2> QED BY <2>2, <2>3, <2>4 DEF cmd
<1>4. Asked(w, calls) = Stream(frames)
  BY DEF Asked
<1> HIDE DEF frames, S
<1>5. Stream(frames) \in Seq(Octets) /\ Whole(v, Stream(frames)).out = frames
  BY <1>2, <1>3, StreamRead
<1>6. DOMAIN frames = DOMAIN calls
  BY <1>1, <1>2
<1>7. [i \in DOMAIN frames |-> FromFrame(v, frames[i])] = [i \in DOMAIN calls |-> Received(v, calls[i])]
  BY <1>1, <1>3, <1>6
<1> QED BY <1>4, <1>5, <1>7 DEF AreCalls

\* What the calls return of the answers a server writes.
LEMMA AnsweredRead ==
    ASSUME NEW v, NEW w, NEW calls \in Seq(ClientCalls(v))
    PROVE  LET out == Whole(v, Answered(w, calls)).out
           IN  /\ Answered(w, calls) \in Seq(Octets)
               /\ Len(out) = Len(calls)
               /\ \A i \in DOMAIN calls :
                     Result(calls[i], out[i]) = Returns(calls[i], Stores(calls)[i])
<1> DEFINE Answer(i) == CHOOSE f \in Answers(w, calls[i], Stores(calls)[i], Subscribers) : TRUE
           frames == [i \in DOMAIN calls |-> Answer(i)]
           S == {Answer(i) : i \in DOMAIN calls}
<1>1. DOMAIN calls = 1..Len(calls) /\ Len(calls) \in Nat
      /\ \A i \in 1..Len(calls) : calls[i] \in ClientCalls(v)
  OBVIOUS
<1>2. \A i \in 1..Len(calls) : /\ Written(Answer(i))
                               /\ Result(calls[i], Answer(i)) = Returns(calls[i], Stores(calls)[i])
  <2> SUFFICES ASSUME NEW i \in 1..Len(calls)
               PROVE  /\ Written(Answer(i))
                      /\ Result(calls[i], Answer(i)) = Returns(calls[i], Stores(calls)[i])
    OBVIOUS
  <2> DEFINE cmd == calls[i]
             s == Stores(calls)[i]
             a == CHOOSE f \in Answers(w, cmd, s, Subscribers) : TRUE
  <2>1. cmd \in ClientCalls(v)
    BY <1>1
  <2>2. IsStore(s)
    <3>1. i \in 1..Len(calls) + 1
      BY <1>1
    <3> QED BY <3>1, StoresAre
  <2>3. a = Answer(i)
    OBVIOUS
  <2> HIDE DEF cmd, s, Answer
  <2>4. Written(a) /\ Result(cmd, a) = Returns(cmd, s)
    BY <2>1, <2>2, AnswerIs
  <2> HIDE DEF a
  <2> QED BY <2>3, <2>4 DEF cmd, s
<1>3. Answered(w, calls) = Stream(frames)
  BY DEF Answered
<1> HIDE DEF Answer
<1>4. frames \in Seq(S) /\ Len(frames) = Len(calls)
      /\ \A i \in 1..Len(calls) : frames[i] = Answer(i)
  BY <1>1
<1> HIDE DEF frames, S
<1>5. \A i \in 1..Len(frames) : WrittenFrame(frames[i])
  BY <1>2, <1>4 DEF WrittenFrame
<1>6. Stream(frames) \in Seq(Octets) /\ Whole(v, Stream(frames)).out = frames
  BY <1>4, <1>5, StreamRead
<1>7. \A i \in DOMAIN calls :
         Result(calls[i], frames[i]) = Returns(calls[i], Stores(calls)[i])
  BY <1>1, <1>2, <1>4
<1> QED BY <1>3, <1>4, <1>6, <1>7

-----------------------------------------------------------------------------
\* The calls that are served are calls of the client.
LEMMA ServedAre ==
    ASSUME NEW w, NEW S, NEW calls \in Seq(S) PROVE Served(w, calls) \in Seq(S)
<1> DEFINE refused == {i \in DOMAIN calls : Refused(w, calls[i])}
           last == IF refused = {} THEN Len(calls) ELSE Min(refused) - 1
<1>1. Len(calls) \in Nat /\ refused \subseteq 1..Len(calls)
  OBVIOUS
<1>2. Served(w, calls) = SubSeq(calls, 1, last)
  BY DEF Served
<1> HIDE DEF refused
<1>3. last \in Nat /\ last <= Len(calls)
  <2>1. CASE refused = {}
    BY <1>1, <2>1
  <2>2. CASE refused # {}
    <3>1. refused \subseteq Nat
      BY <1>1
    <3>2. Min(refused) \in refused
      BY <2>2, <3>1, MinIs
    <3>3. Min(refused) \in 1..Len(calls)
      BY <1>1, <3>2
    <3> QED BY <1>1, <2>2, <3>3
  <2> QED BY <2>1, <2>2
<1> HIDE DEF last
<1> QED BY <1>1, <1>2, <1>3, SubSeqIs

-----------------------------------------------------------------------------
\* What the whole input is read as, which no step changes.
CallsInv ==
    LET out == Whole(job.v, job.input).out
    IN  CASE job.side = "server" -> AreCalls(job.v, out, job.calls)
          [] job.side = "client" ->
               LET served == Served(job.peer, job.calls)
               IN  /\ Len(out) = Len(served)
                   /\ \A i \in DOMAIN served :
                         Result(served[i], out[i])
                            = Returns(served[i], Stores(served)[i])
          [] OTHER -> TRUE

LEMMA CallsInit ==
    ASSUME InitCalls PROVE InitConnection /\ CallsInv
<1> DEFINE v == job.v
           w == job.peer
           calls == job.calls
           out == Whole(v, job.input).out
<1>1. \/ /\ job.side = "server"
         /\ calls \in Seq(ClientCalls(w) \cup SubscriberCalls(w))
         /\ job.input = Asked(w, calls)
      \/ /\ job.side = "client"
         /\ calls \in Seq(ClientCalls(v))
         /\ job.input = Answered(w, Served(w, calls))
  BY DEF InitCalls
<1>2. job.tool = "connection" /\ left = job.input /\ st = Opened
  BY DEF InitCalls
<1>3. CASE /\ job.side = "server"
           /\ calls \in Seq(ClientCalls(w) \cup SubscriberCalls(w))
           /\ job.input = Asked(w, calls)
  <2>1. job.input \in Seq(Octets) /\ AreCalls(v, out, calls)
    BY <1>3, AskedRead
  <2>2. CallsInv
    BY <1>3, <2>1 DEF CallsInv
  <2> QED BY <1>2, <2>1, <2>2 DEF InitConnection
<1>4. CASE /\ job.side = "client"
           /\ calls \in Seq(ClientCalls(v))
           /\ job.input = Answered(w, Served(w, calls))
  <2> DEFINE served == Served(w, calls)
  <2>1. served \in Seq(ClientCalls(v))
    BY <1>4, ServedAre
  <2>2. job.input = Answered(w, served)
    BY <1>4
  <2> HIDE DEF served
  <2>3. /\ job.input \in Seq(Octets)
        /\ Len(out) = Len(served)
        /\ \A i \in DOMAIN served :
              Result(served[i], out[i]) = Returns(served[i], Stores(served)[i])
    BY <2>1, <2>2, AnsweredRead
  <2>4. CallsInv
    BY <1>4, <2>3 DEF CallsInv, served
  <2> QED BY <1>2, <2>3, <2>4 DEF InitConnection
<1> QED BY <1>1, <1>3, <1>4

LEMMA CallsStep ==
    ASSUME CallsInv, [NextConnection]_vars PROVE CallsInv'
<1>1. job' = job
  BY DEF NextConnection, TakeFrame, NeedsMore, Malformed, ReceivePiece, Cancel, EndOfStream,
         Consume, Stay, vars
<1> QED BY <1>1 DEF CallsInv, AreCalls

LEMMA CallsHold ==
    ASSUME FramesIndependentOfReads, CallsInv PROVE CallsRoundTrip
<1>1. ASSUME job.tool = "connection", st.pc = "done"
      PROVE  st.out = Whole(job.v, job.input).out
  BY <1>1 DEF FramesIndependentOfReads
<1> QED BY <1>1 DEF CallsInv, AreCalls, CallsRoundTrip

\* Whatever calls a client of either version makes, a server of either version
\* reads those very calls, but for the microseconds of an expiration and the
\* keys that a Rust server refuses, and however the reads cut the answers the
\* calls up to the first refused return what they would on a store that runs
\* them in order (cmd/, parse.rs:58-78, clients/client.rs:113-309,
\* connection.rs:56-81).
THEOREM CallsAlwaysRoundTrip == SpecCalls => []CallsRoundTrip
<1>1. InitCalls => InitConnection /\ CallsInv
  BY CallsInit
<1>2. CallsInv /\ [NextConnection]_vars => CallsInv'
  BY CallsStep
<1>3. SpecConnection => []FramesIndependentOfReads
  BY FramesAlwaysTheSame
<1>4. FramesIndependentOfReads /\ CallsInv => CallsRoundTrip
  BY CallsHold
<1> QED BY <1>1, <1>2, <1>3, <1>4, PTL DEF SpecCalls, SpecConnection

-----------------------------------------------------------------------------
\* The invariant of a BufferedClient.

\* The task is between a Message it took and the response.
Busy == task \in {"writing", "reading"}

TypeInv ==
    /\ made \in Nat /\ made <= MaxCalls
    /\ DOMAIN request = Calls /\ DOMAIN effect = Calls /\ DOMAIN outcome = Calls
    /\ call \in [Callers -> Nat]
    /\ senders \in Seq(Callers)
    /\ queue \in Seq(Nat)
    /\ task \in {"recv", "writing", "reading", "ended"}
    /\ current \in Nat

\* A call that waits for the store or for its answer: it was made and nobody
\* was given an outcome.
Unanswered(id) == id \in 1..made /\ outcome[id] \in {NotYet, GivenUp}
Untouched(id) == Unanswered(id) /\ effect[id] = {}

\* Every caller waits for a call of its own.
CallersInv ==
    /\ \A c \in Callers : call[c] # 0 =>
          call[c] \in 1..made /\ outcome[call[c]] = NotYet
    /\ \A c, d \in Callers : call[c] # 0 /\ call[c] = call[d] => c = d

\* A call is in one place only on its way to the server, which has not seen it.
WayInv ==
    /\ IsInjective(senders) /\ IsInjective(queue)
    /\ \A i \in DOMAIN senders : call[senders[i]] # 0 /\ Untouched(call[senders[i]])
    /\ \A j \in DOMAIN queue : Untouched(queue[j])
    /\ \A i \in DOMAIN senders, j \in DOMAIN queue : call[senders[i]] # queue[j]
    /\ Busy => /\ \A i \in DOMAIN senders : call[senders[i]] # current
               /\ \A j \in DOMAIN queue : queue[j] # current
               /\ Unanswered(current)
    /\ task = "writing" => Untouched(current)
    /\ \A id \in Calls : id > made => effect[id] = {} /\ outcome[id] = NotYet

\* On the connection is the request the task waits for, or its answer, or,
\* once it has ended, nothing that matters.
WireInv ==
    /\ open /\ requests # <<>> =>
          /\ task = "reading" /\ requests = <<current>> /\ answers = <<>>
          /\ Untouched(current)
    /\ answers # <<>> =>
          /\ task = "reading"
          /\ answers = <<Head(answers)>>
          /\ effect[current] = {Result(request[current], Head(answers))}

BufferedIInv == TypeInv /\ CallersInv /\ WayInv /\ WireInv

-----------------------------------------------------------------------------
\* A sender that leaves the queue of senders leaves the others there.
LEMMA RemoveFirstKeepsOthers ==
    ASSUME NEW S, NEW s \in Seq(S), NEW e, IsInjective(s)
    PROVE  LET r == RemoveFirst(s, e)
           IN  /\ r \in Seq(S)
               /\ IsInjective(r)
               /\ \A i \in DOMAIN r : r[i] # e /\ \E j \in DOMAIN s : r[i] = s[j]
<1> DEFINE r == RemoveFirst(s, e)
<1>1. CASE ~ \E i \in 1..Len(s) : s[i] = e
  <2>1. r = s
    BY <1>1 DEF RemoveFirst
  <2> QED BY <1>1, <2>1
<1>2. CASE \E i \in 1..Len(s) : s[i] = e
  <2>1. PICK k \in 1..Len(s) : s[k] = e
    BY <1>2
  <2>2. {i \in 1..Len(s) : s[i] = e} = {k}
    BY <2>1 DEF IsInjective
  <2>3. SelectInSeq(s, LAMBDA v : v = e) = k
    <3>1. Min({k}) = k
      BY DEF Min
    <3> QED BY <2>2, <3>1 DEF SelectInSeq
  <2>4. r = SubSeq(s, 1, k - 1) \o SubSeq(s, k + 1, Len(s))
    BY <1>2, <2>3 DEF RemoveFirst, RemoveAt
  <2>5. /\ r \in Seq(S) /\ Len(r) = Len(s) - 1
        /\ \A i \in 1..Len(s) - 1 : r[i] = IF i < k THEN s[i] ELSE s[i + 1]
    <3> DEFINE front == SubSeq(s, 1, k - 1)
               back == SubSeq(s, k + 1, Len(s))
    <3>1. /\ front \in Seq(S) /\ Len(front) = k - 1
          /\ \A i \in 1..k - 1 : front[i] = s[i]
      BY <2>1
    <3>2. /\ back \in Seq(S) /\ Len(back) = Len(s) - k
          /\ \A i \in 1..Len(s) - k : back[i] = s[i + k]
      BY <2>1
    <3> HIDE DEF front, back
    <3>3. /\ r \in Seq(S) /\ Len(r) = Len(s) - 1
          /\ \A i \in 1..Len(s) - 1 :
                r[i] = IF i < k THEN front[i] ELSE back[i - (k - 1)]
      <4>1. r = front \o back
        BY <2>4 DEF front, back
      <4> HIDE DEF r
      <4>2. r \in Seq(S) /\ Len(r) = Len(front) + Len(back)
        BY <3>1, <3>2, <4>1, ConcatProperties
      <4>3. \A i \in 1..Len(front) + Len(back) :
               r[i] = IF i <= Len(front) THEN front[i] ELSE back[i - Len(front)]
        BY <3>1, <3>2, <4>1
      <4>4. \A i \in 1..Len(s) - 1 :
               (i <= Len(front) <=> i < k) /\ i \in 1..Len(front) + Len(back)
        BY <2>1, <3>1, <3>2
      <4> QED BY <2>1, <3>1, <3>2, <4>2, <4>3, <4>4
    <3> QED BY <2>1, <3>1, <3>2, <3>3
  <2> HIDE DEF r
  <2>6. \A i \in DOMAIN r : \E j \in DOMAIN s : j # k /\ r[i] = s[j]
    <3> SUFFICES ASSUME NEW i \in 1..Len(s) - 1
                 PROVE  \E j \in DOMAIN s : j # k /\ r[i] = s[j]
      BY <2>5
    <3>1. CASE i < k
      <4>1. i \in DOMAIN s /\ i # k /\ r[i] = s[i]
        BY <2>1, <2>5, <3>1
      <4> QED BY <4>1
    <3>2. CASE ~(i < k)
      <4>1. i + 1 \in DOMAIN s /\ i + 1 # k /\ r[i] = s[i + 1]
        BY <2>1, <2>5, <3>2
      <4> QED BY <4>1
    <3> QED BY <3>1, <3>2
  <2>7. IsInjective(r)
    <3> SUFFICES ASSUME NEW i \in 1..Len(s) - 1, NEW j \in 1..Len(s) - 1,
                        r[i] = r[j]
                 PROVE  i = j
      BY <2>5 DEF IsInjective
    <3> DEFINE from(n) == IF n < k THEN n ELSE n + 1
    <3>1. /\ from(i) \in DOMAIN s /\ r[i] = s[from(i)]
          /\ from(j) \in DOMAIN s /\ r[j] = s[from(j)]
      BY <2>1, <2>5
    <3>2. from(i) = from(j)
      BY <3>1 DEF IsInjective
    <3> QED BY <2>1, <3>2
  <2>8. \A i \in DOMAIN r : r[i] # e
    BY <2>1, <2>6 DEF IsInjective
  <2> QED BY <2>5, <2>6, <2>7, <2>8 DEF r
<1> QED BY <1>1, <1>2

-----------------------------------------------------------------------------
LEMMA InitBufferedIInv == InitBuffered => BufferedIInv
<1> SUFFICES ASSUME InitBuffered PROVE BufferedIInv
  OBVIOUS
<1> USE DEF InitBuffered, Init
<1>1. TypeInv
  BY StoreCallsAssumption DEF TypeInv, StoreCallsAssumption
<1>2. CallersInv
  BY DEF CallersInv
<1>3. WayInv
  BY StoreCallsAssumption DEF WayInv, IsInjective, Busy, StoreCallsAssumption
<1>4. WireInv
  BY DEF WireInv
<1> QED BY <1>1, <1>2, <1>3, <1>4 DEF BufferedIInv

\* A new call has a number that no other has.
LEMMA CallMethodIInv ==
    ASSUME BufferedIInv, NEW c \in Callers, NEW cmd, CallMethod(c, cmd)
    PROVE  BufferedIInv'
<1>1. TypeInv /\ CallersInv /\ WayInv /\ WireInv
  BY DEF BufferedIInv
<1>2. /\ call[c] = 0 /\ made < MaxCalls /\ made' = made + 1
      /\ request' = [request EXCEPT ![made + 1] = cmd]
      /\ call' = [call EXCEPT ![c] = made + 1]
      /\ senders' = Append(senders, c)
      /\ UNCHANGED <<effect, outcome, store, open, handles, queue, task, current,
                     requests, answers>>
  BY DEF CallMethod, Make
<1>3. made \in Nat /\ made + 1 \in Calls /\ made + 1 # 0
  BY <1>1, <1>2, StoreCallsAssumption DEF TypeInv, Calls, StoreCallsAssumption
<1>4. TypeInv'
  BY <1>1, <1>2, <1>3, StoreCallsAssumption
     DEF TypeInv, StoreCallsAssumption
<1>5. \A d \in Callers : call'[d] = IF d = c THEN made + 1 ELSE call[d]
  BY <1>1, <1>2 DEF TypeInv
<1>6. /\ effect[made + 1] = {} /\ outcome[made + 1] = NotYet
      /\ \A id \in 1..made : id \in 1..made' /\ id # made + 1
  BY <1>1, <1>2, <1>3 DEF WayInv
<1>7. CallersInv'
  BY <1>1, <1>2, <1>3, <1>5, <1>6 DEF CallersInv
<1>8. /\ DOMAIN senders' = 1..Len(senders) + 1
      /\ DOMAIN senders = 1..Len(senders)
      /\ senders'[Len(senders) + 1] = c
      /\ \A i \in DOMAIN senders : senders'[i] = senders[i] /\ senders[i] # c
                                   /\ senders[i] \in Callers
  BY <1>1, <1>2 DEF TypeInv, WayInv
<1>9. /\ \A i \in DOMAIN senders : call'[senders'[i]] = call[senders[i]]
      /\ call'[senders'[Len(senders) + 1]] = made + 1
  BY <1>5, <1>8
<1>10. \A id \in 1..made : /\ Unanswered(id) => Unanswered(id)'
                           /\ Untouched(id) => Untouched(id)'
  BY <1>2, <1>6 DEF Unanswered, Untouched
<1>11. \A id : id = made + 1 => Untouched(id)'
  BY <1>2, <1>3, <1>6 DEF Unanswered, Untouched
<1>12. WayInv'
  <2>1. IsInjective(senders') /\ IsInjective(queue')
    BY <1>1, <1>2, <1>8 DEF WayInv, IsInjective
  <2>2. \A i \in DOMAIN senders' : call'[senders'[i]] # 0 /\ Untouched(call[senders[i]])'
    <3> SUFFICES ASSUME NEW i \in DOMAIN senders'
                 PROVE  call'[senders'[i]] # 0 /\ Untouched(call[senders[i]])'
      OBVIOUS
    <3>1. CASE i \in DOMAIN senders
      <4>1. call[senders[i]] # 0 /\ Untouched(call[senders[i]])
        BY <1>1, <3>1 DEF WayInv
      <4>2. call[senders[i]] \in 1..made
        BY <4>1 DEF Untouched, Unanswered
      <4> QED BY <1>9, <1>10, <3>1, <4>1, <4>2 DEF Untouched, Unanswered
    <3>2. CASE i = Len(senders) + 1
      BY <1>3, <1>9, <1>11, <3>2
    <3> QED BY <1>8, <3>1, <3>2
  <2>3. \A j \in DOMAIN queue' : Untouched(queue[j])' /\ queue[j] # made + 1
    BY <1>1, <1>2, <1>6, <1>10 DEF WayInv, Untouched, Unanswered
  <2>4. \A i \in DOMAIN senders', j \in DOMAIN queue' : call'[senders'[i]] # queue'[j]
    BY <1>1, <1>2, <1>8, <1>9, <2>3 DEF WayInv
  <2>5. Busy' => /\ \A i \in DOMAIN senders' : call'[senders'[i]] # current'
                 /\ \A j \in DOMAIN queue' : queue'[j] # current'
                 /\ Unanswered(current)'
    <3> SUFFICES ASSUME Busy
                 PROVE  /\ \A i \in DOMAIN senders' : call'[senders'[i]] # current'
                        /\ \A j \in DOMAIN queue' : queue'[j] # current'
                        /\ Unanswered(current)'
      BY <1>2 DEF Busy
    <3>1. Unanswered(current) /\ current \in 1..made
      BY <1>1 DEF WayInv, Unanswered
    <3>2. current # made + 1
      BY <1>6, <3>1
    <3> QED BY <1>1, <1>2, <1>8, <1>9, <1>10, <3>1, <3>2
            DEF WayInv, Unanswered
  <2>6. task' = "writing" => Untouched(current)'
    BY <1>1, <1>2, <1>10 DEF WayInv, Untouched, Unanswered
  <2>7. \A id \in Calls : id > made' => effect'[id] = {} /\ outcome'[id] = NotYet
    BY <1>1, <1>2, <1>3 DEF WayInv, Calls
  <2> QED BY <2>1, <2>2, <2>3, <2>4, <2>5, <2>6, <2>7 DEF WayInv
<1>13. WireInv'
  <2>1. task = "reading" => current \in 1..made /\ request'[current] = request[current]
    BY <1>1, <1>2, <1>6 DEF WayInv, Busy, Unanswered, TypeInv
  <2> QED BY <1>1, <1>2, <1>10, <2>1 DEF WireInv
<1> QED BY <1>4, <1>7, <1>12, <1>13 DEF BufferedIInv

\* A call goes from the senders to the channel.
LEMMA EnqueueIInv ==
    ASSUME BufferedIInv, NEW c \in Callers, Enqueue(c)
    PROVE  BufferedIInv'
<1>1. TypeInv /\ CallersInv /\ WayInv /\ WireInv
  BY DEF BufferedIInv
<1>2. /\ senders' = RemoveFirst(senders, c)
      /\ queue' = Append(queue, call[c])
      /\ UNCHANGED <<made, request, effect, outcome, store, open, call, handles,
                     task, current, requests, answers>>
  BY DEF Enqueue, storeVars
<1>3. PICK k \in DOMAIN senders : senders[k] = c
  BY DEF Enqueue
<1>4. call[c] \in Nat /\ call[c] # 0 /\ Untouched(call[c])
  BY <1>1, <1>3 DEF WayInv, TypeInv
<1>5. /\ senders' \in Seq(Callers) /\ IsInjective(senders')
      /\ \A i \in DOMAIN senders' :
            senders'[i] # c /\ \E j \in DOMAIN senders : senders'[i] = senders[j]
  BY <1>1, <1>2, RemoveFirstKeepsOthers DEF TypeInv, WayInv
<1>6. \A i \in DOMAIN senders' : senders'[i] \in Callers /\ call[senders'[i]] # call[c]
  BY <1>1, <1>4, <1>5 DEF CallersInv
<1>7. /\ queue' \in Seq(Nat) /\ DOMAIN queue' = 1..Len(queue) + 1
      /\ DOMAIN queue = 1..Len(queue)
      /\ queue'[Len(queue) + 1] = call[c]
      /\ \A j \in DOMAIN queue : queue'[j] = queue[j] /\ queue[j] # call[c]
  BY <1>1, <1>2, <1>3, <1>4 DEF TypeInv, WayInv
<1>8. TypeInv'
  BY <1>1, <1>2, <1>5, <1>7 DEF TypeInv
<1>9. CallersInv'
  BY <1>1, <1>2 DEF CallersInv
<1>10. \A id : (Unanswered(id) <=> Unanswered(id)') /\ (Untouched(id) <=> Untouched(id)')
  BY <1>2 DEF Unanswered, Untouched
<1>11. Busy' <=> Busy
  BY <1>2 DEF Busy
<1>12. WayInv'
  <2>1. IsInjective(queue')
    BY <1>1, <1>7 DEF WayInv, IsInjective
  <2>2. \A i \in DOMAIN senders' : \E j \in DOMAIN senders :
           senders'[i] = senders[j] /\ call[senders[j]] # call[c]
    BY <1>5, <1>6
  <2>3. \A i \in DOMAIN senders' : call[senders'[i]] # 0 /\ Untouched(call[senders'[i]])
    BY <1>1, <2>2 DEF WayInv
  <2>10. \A i \in DOMAIN senders' : call'[senders'[i]] # 0 /\ Untouched(call[senders[i]])'
    BY <1>2, <2>3 DEF Unanswered, Untouched
  <2>4. \A j \in DOMAIN queue' : Untouched(queue[j])'
    BY <1>1, <1>2, <1>4, <1>7, <1>10 DEF WayInv, Unanswered, Untouched
  <2>5. \A i \in DOMAIN senders', j \in DOMAIN queue' : call'[senders'[i]] # queue'[j]
    BY <1>1, <1>2, <1>7, <2>2 DEF WayInv
  <2>6. Busy => call[c] # current
    BY <1>1, <1>3 DEF WayInv
  <2>7. Busy' => /\ \A i \in DOMAIN senders' : call'[senders'[i]] # current'
                 /\ \A j \in DOMAIN queue' : queue'[j] # current'
                 /\ Unanswered(current)'
    BY <1>1, <1>2, <1>7, <1>11, <2>2, <2>6 DEF WayInv, Unanswered
  <2>8. task' = "writing" => Untouched(current)'
    BY <1>1, <1>2 DEF WayInv, Untouched, Unanswered
  <2>9. \A id \in Calls : id > made' => effect'[id] = {} /\ outcome'[id] = NotYet
    BY <1>1, <1>2 DEF WayInv
  <2> QED BY <1>5, <2>1, <2>4, <2>5, <2>7, <2>8, <2>9, <2>10 DEF WayInv
<1>13. WireInv'
  BY <1>1, <1>2 DEF WireInv, Untouched, Unanswered
<1> QED BY <1>8, <1>9, <1>12, <1>13 DEF BufferedIInv

\* Nobody waits for an abandoned call; where it is on its way it stays.
LEMMA AbandonIInv ==
    ASSUME BufferedIInv, NEW c \in Callers, Abandon(c)
    PROVE  BufferedIInv'
<1>1. TypeInv /\ CallersInv /\ WayInv /\ WireInv
  BY DEF BufferedIInv
<1> DEFINE gone == call[c]
<1>2. /\ gone # 0 /\ gone <= made
      /\ outcome' = [outcome EXCEPT ![gone] = GivenUp]
      /\ call' = [call EXCEPT ![c] = 0]
      /\ senders' = RemoveFirst(senders, c)
      /\ UNCHANGED <<made, request, effect, store, open, handles, queue, task,
                     current, requests, answers>>
  BY DEF Abandon, GiveUp, Outcome
<1>3. gone \in 1..made /\ gone \in Calls /\ gone \in Nat
  BY <1>1, <1>2, StoreCallsAssumption
     DEF CallersInv, TypeInv, Calls, StoreCallsAssumption
<1>4. /\ senders' \in Seq(Callers) /\ IsInjective(senders')
      /\ \A i \in DOMAIN senders' :
            senders'[i] # c /\ \E j \in DOMAIN senders : senders'[i] = senders[j]
  BY <1>1, <1>2, RemoveFirstKeepsOthers DEF TypeInv, WayInv
<1>5. \A d \in Callers : call'[d] = IF d = c THEN 0 ELSE call[d]
  BY <1>1, <1>2 DEF TypeInv
<1>6. \A id \in Calls : outcome'[id] = IF id = gone THEN GivenUp ELSE outcome[id]
  BY <1>1, <1>2 DEF TypeInv
<1> HIDE DEF gone
<1>7. \A id \in 1..made : id \in Calls
  BY <1>1, StoreCallsAssumption DEF TypeInv, Calls, StoreCallsAssumption
<1>8. \A id : /\ Unanswered(id) => Unanswered(id)'
              /\ Untouched(id) => Untouched(id)'
  BY <1>2, <1>6, <1>7 DEF Unanswered, Untouched
<1>9. TypeInv'
  BY <1>1, <1>2, <1>4, <1>5 DEF TypeInv
<1>10. CallersInv'
  <2>1. \A d \in Callers : d # c /\ call[d] # 0 => call[d] # gone
    BY <1>1 DEF CallersInv, gone
  <2> QED BY <1>1, <1>2, <1>5, <1>6, <1>7, <2>1 DEF CallersInv
<1>11. WayInv'
  <2>1. \A i \in DOMAIN senders' : \E j \in DOMAIN senders :
           senders'[i] = senders[j] /\ call'[senders'[i]] = call[senders[j]]
    <3> SUFFICES ASSUME NEW i \in DOMAIN senders'
                 PROVE  \E j \in DOMAIN senders :
                          /\ senders'[i] = senders[j]
                          /\ call'[senders'[i]] = call[senders[j]]
      OBVIOUS
    <3>1. senders'[i] # c /\ senders'[i] \in Callers
      BY <1>4
    <3> QED BY <1>4, <1>5, <3>1
  <2>2. \A i \in DOMAIN senders' : call'[senders'[i]] # 0 /\ Untouched(call[senders[i]])'
    BY <1>1, <1>8, <2>1 DEF WayInv, Unanswered, Untouched
  <2>3. \A j \in DOMAIN queue' : Untouched(queue[j])'
    BY <1>1, <1>2, <1>8 DEF WayInv, Unanswered, Untouched
  <2>4. \A i \in DOMAIN senders', j \in DOMAIN queue' : call'[senders'[i]] # queue'[j]
    BY <1>1, <1>2, <2>1 DEF WayInv
  <2>5. Busy' => /\ \A i \in DOMAIN senders' : call'[senders'[i]] # current'
                 /\ \A j \in DOMAIN queue' : queue'[j] # current'
                 /\ Unanswered(current)'
    <3> SUFFICES ASSUME Busy'
                 PROVE  /\ \A i \in DOMAIN senders' : call'[senders'[i]] # current'
                        /\ \A j \in DOMAIN queue' : queue'[j] # current'
                        /\ Unanswered(current)'
      OBVIOUS
    <3>1. Busy
      BY <1>2 DEF Busy
    <3>2. \A i \in DOMAIN senders' : call'[senders'[i]] # current'
      BY <1>1, <1>2, <2>1, <3>1 DEF WayInv
    <3>3. \A j \in DOMAIN queue' : queue'[j] # current'
      BY <1>1, <1>2, <3>1 DEF WayInv
    <3>4. Unanswered(current)'
      BY <1>1, <1>2, <1>8, <3>1 DEF WayInv, Unanswered
    <3> QED BY <3>2, <3>3, <3>4
  <2>6. task' = "writing" => Untouched(current)'
    BY <1>1, <1>2, <1>8 DEF WayInv, Untouched, Unanswered
  <2>7. \A id \in Calls : id > made' => effect'[id] = {} /\ outcome'[id] = NotYet
    <3>1. \A id \in Calls : id > made' => id # gone
      BY <1>1, <1>2, <1>3, StoreCallsAssumption
         DEF TypeInv, Calls, StoreCallsAssumption
    <3> QED BY <1>1, <1>2, <1>6, <3>1 DEF WayInv
  <2>8. IsInjective(queue')
    BY <1>1, <1>2 DEF WayInv
  <2> QED BY <1>4, <2>2, <2>3, <2>4, <2>5, <2>6, <2>7, <2>8 DEF WayInv
<1>12. WireInv'
  BY <1>1, <1>2, <1>8 DEF WireInv, Untouched, Unanswered
<1> QED BY <1>9, <1>10, <1>11, <1>12 DEF BufferedIInv

\* The task takes the first call of the channel.
LEMMA ReceiveIInv == BufferedIInv /\ Receive => BufferedIInv'
<1> SUFFICES ASSUME BufferedIInv, Receive PROVE BufferedIInv'
  OBVIOUS
<1>1. TypeInv /\ CallersInv /\ WayInv /\ WireInv
  BY DEF BufferedIInv
<1>2. /\ task = "recv" /\ queue # <<>> /\ task' = "writing"
      /\ current' = Head(queue) /\ queue' = Tail(queue)
      /\ UNCHANGED <<made, request, effect, outcome, store, open, call, handles,
                     senders, requests, answers>>
  BY DEF Receive, storeVars
<1>3. /\ queue' \in Seq(Nat) /\ 1 \in DOMAIN queue /\ queue[1] = current'
      /\ current' \in Nat
      /\ \A j \in DOMAIN queue' : j + 1 \in DOMAIN queue /\ queue'[j] = queue[j + 1]
                                  /\ j + 1 # 1 /\ j \in Nat
  BY <1>1, <1>2 DEF TypeInv
<1>4. TypeInv'
  BY <1>1, <1>2, <1>3 DEF TypeInv
<1>5. CallersInv'
  BY <1>1, <1>2 DEF CallersInv
<1>6. \A id : (Unanswered(id) <=> Unanswered(id)') /\ (Untouched(id) <=> Untouched(id)')
  BY <1>2 DEF Unanswered, Untouched
<1>7. WayInv'
  <2>1. IsInjective(queue')
    <3> SUFFICES ASSUME NEW i \in DOMAIN queue', NEW j \in DOMAIN queue',
                        queue'[i] = queue'[j]
                 PROVE  i = j
      BY DEF IsInjective
    <3>1. i + 1 = j + 1
      BY <1>1, <1>3 DEF WayInv, IsInjective
    <3> QED BY <1>3, <3>1
  <2>2. \A i \in DOMAIN senders' : call'[senders'[i]] # 0 /\ Untouched(call[senders[i]])'
    BY <1>1, <1>2 DEF WayInv, Unanswered, Untouched
  <2>3. \A j \in DOMAIN queue' : Untouched(queue'[j])
    BY <1>1, <1>3 DEF WayInv
  <2>4. \A j \in DOMAIN queue' : Untouched(queue[j])'
    BY <1>2, <2>3 DEF Unanswered, Untouched
  <2>5. \A i \in DOMAIN senders', j \in DOMAIN queue' : call'[senders'[i]] # queue'[j]
    BY <1>1, <1>2, <1>3 DEF WayInv
  <2>6. \A i \in DOMAIN senders' : call'[senders'[i]] # current'
    BY <1>1, <1>2, <1>3 DEF WayInv
  <2>7. \A j \in DOMAIN queue' : queue'[j] # current'
    BY <1>1, <1>3 DEF WayInv, IsInjective
  <2>8. Untouched(current')
    BY <1>1, <1>3 DEF WayInv
  <2>9. Unanswered(current)' /\ Untouched(current)'
    BY <1>2, <2>8 DEF Unanswered, Untouched
  <2>10. \A id \in Calls : id > made' => effect'[id] = {} /\ outcome'[id] = NotYet
    BY <1>1, <1>2 DEF WayInv
  <2>11. IsInjective(senders')
    BY <1>1, <1>2 DEF WayInv
  <2> QED BY <2>1, <2>2, <2>4, <2>5, <2>6, <2>7, <2>9, <2>10, <2>11 DEF WayInv
<1>8. WireInv'
  BY <1>1, <1>2 DEF WireInv
<1> QED BY <1>4, <1>5, <1>7, <1>8 DEF BufferedIInv

\* The frame of the current call goes to the server.
LEMMA WriteRequestIInv == BufferedIInv /\ WriteRequest => BufferedIInv'
<1> SUFFICES ASSUME BufferedIInv, WriteRequest PROVE BufferedIInv'
  OBVIOUS
<1>1. TypeInv /\ CallersInv /\ WayInv /\ WireInv
  BY DEF BufferedIInv
<1>2. /\ task = "writing" /\ task' = "reading"
      /\ requests' = Append(requests, current)
      /\ UNCHANGED <<made, request, effect, outcome, store, open, call, handles,
                     senders, queue, current, answers>>
  BY DEF WriteRequest, storeVars
<1>3. TypeInv' /\ CallersInv'
  BY <1>1, <1>2 DEF TypeInv, CallersInv
<1>4. WayInv'
  BY <1>1, <1>2 DEF WayInv, Busy, Unanswered, Untouched
<1>5. answers = <<>> /\ (open => requests = <<>>)
  BY <1>1, <1>2 DEF WireInv
<1>6. open => requests' = <<current>>
  BY <1>2, <1>5
<1>7. Untouched(current) /\ Untouched(current)'
  BY <1>1, <1>2 DEF WayInv, Unanswered, Untouched
<1>8. WireInv'
  BY <1>2, <1>5, <1>6, <1>7 DEF WireInv
<1> QED BY <1>3, <1>4, <1>8 DEF BufferedIInv

\* The task answers the caller, if it still waits, and takes no call further
\* than that.
LEMMA RespondIInv ==
    ASSUME BufferedIInv, NEW result, Respond(result), Busy,
           answers' = <<>>, open => requests = <<>>
    PROVE  BufferedIInv'
<1>1. TypeInv /\ CallersInv /\ WayInv /\ WireInv
  BY DEF BufferedIInv
<1>2. /\ task' = "recv"
      /\ UNCHANGED <<made, request, effect, store, open, handles, senders, queue,
                     current, requests>>
  BY DEF Respond
<1>3. Unanswered(current) /\ current \in Calls /\ current \in 1..made
  BY <1>1, StoreCallsAssumption
     DEF WayInv, TypeInv, Unanswered, Calls, StoreCallsAssumption
<1>4. /\ DOMAIN outcome' = Calls
      /\ \A id \in Calls : id # current => outcome'[id] = outcome[id]
  BY <1>1 DEF Respond, TypeInv
<1>5. /\ call' \in [Callers -> Nat]
      /\ \A c \in Callers :
            /\ call'[c] = call[c] \/ call'[c] = 0
            /\ call[c] # current => call'[c] = call[c]
            /\ call'[c] = current /\ call[c] # 0 => outcome'[current] = outcome[current]
  <2>1. CASE outcome[current] = GivenUp
    BY <1>1, <2>1 DEF Respond, TypeInv
  <2>2. CASE outcome[current] # GivenUp
    <3>1. call' = [c \in Callers |-> IF call[c] = current THEN 0 ELSE call[c]]
      BY <2>2 DEF Respond
    <3>2. current # 0
      BY <1>3
    <3> QED BY <1>1, <3>1, <3>2 DEF TypeInv
  <2> QED BY <2>1, <2>2
<1>6. TypeInv'
  BY <1>1, <1>2, <1>4, <1>5 DEF TypeInv
<1>7. \A id \in 1..made : id \in Calls
  BY <1>1, StoreCallsAssumption DEF TypeInv, Calls, StoreCallsAssumption
<1>8. CallersInv'
  <2>1. ASSUME NEW c \in Callers, call'[c] # 0
        PROVE  call'[c] = call[c] /\ call[c] \in 1..made /\ outcome'[call[c]] = NotYet
    <3>1. call'[c] = call[c]
      BY <1>5, <2>1
    <3>2. call[c] \in 1..made /\ outcome[call[c]] = NotYet
      BY <1>1, <2>1, <3>1 DEF CallersInv
    <3>3. outcome'[call[c]] = outcome[call[c]]
      BY <1>4, <1>5, <1>7, <2>1, <3>1, <3>2
    <3> QED BY <3>1, <3>2, <3>3
  <2> QED BY <1>1, <1>2, <2>1 DEF CallersInv
<1>9. \A id : id # current =>
         /\ Unanswered(id) => Unanswered(id)'
         /\ Untouched(id) => Untouched(id)'
  BY <1>2, <1>4, <1>7 DEF Unanswered, Untouched
<1>10. WayInv'
  <2>1. ~Busy' /\ task' # "writing"
    BY <1>2 DEF Busy
  <2>2. \A i \in DOMAIN senders :
           /\ senders[i] \in Callers
           /\ call[senders[i]] # current /\ call[senders[i]] # 0
           /\ Untouched(call[senders[i]])
    BY <1>1 DEF WayInv, TypeInv
  <2>3. \A i \in DOMAIN senders' :
           /\ senders'[i] = senders[i] /\ call'[senders'[i]] = call[senders[i]]
    BY <1>2, <1>5, <2>2
  <2>4. \A i \in DOMAIN senders' : call'[senders'[i]] # 0 /\ Untouched(call[senders[i]])'
    <3>1. \A i \in DOMAIN senders' :
             /\ call'[senders'[i]] # 0
             /\ \A id : id = call'[senders'[i]] => Untouched(id)'
      BY <1>2, <1>9, <2>2, <2>3
    <3> QED BY <3>1 DEF Unanswered, Untouched
  <2>5. \A j \in DOMAIN queue' : Untouched(queue[j])'
    BY <1>1, <1>2, <1>9 DEF WayInv, Unanswered, Untouched
  <2>6. \A i \in DOMAIN senders', j \in DOMAIN queue' : call'[senders'[i]] # queue'[j]
    BY <1>1, <1>2, <2>3 DEF WayInv
  <2>7. \A id \in Calls : id > made' => effect'[id] = {} /\ outcome'[id] = NotYet
    <3>1. \A id \in Calls : id > made => id # current
      BY <1>1, <1>3, StoreCallsAssumption DEF TypeInv, Calls, StoreCallsAssumption
    <3> QED BY <1>1, <1>2, <1>4, <3>1 DEF WayInv
  <2>8. IsInjective(senders') /\ IsInjective(queue')
    BY <1>1, <1>2 DEF WayInv
  <2> QED BY <2>1, <2>4, <2>5, <2>6, <2>7, <2>8 DEF WayInv
<1>11. WireInv'
  BY <1>2 DEF WireInv
<1> QED BY <1>6, <1>8, <1>10, <1>11 DEF BufferedIInv

LEMMA TaskRespondsIInv ==
    BufferedIInv /\ (WriteFails \/ ReadAnswer \/ ReadFails) => BufferedIInv'
<1> SUFFICES ASSUME BufferedIInv, WriteFails \/ ReadAnswer \/ ReadFails
             PROVE  BufferedIInv'
  OBVIOUS
<1>1. WireInv
  BY DEF BufferedIInv
<1>2. CASE WriteFails
  <2>1. Respond(Failed) /\ Busy /\ ~open /\ answers' = <<>> /\ answers = <<>>
    BY <1>1, <1>2 DEF WriteFails, Busy, WireInv
  <2> QED BY <2>1, RespondIInv
<1>3. CASE ReadAnswer
  <2>1. /\ Respond(Result(request[current], Head(answers))) /\ Busy
        /\ answers # <<>> /\ answers' = Tail(answers)
    BY <1>3 DEF ReadAnswer, Busy
  <2>2. answers = <<Head(answers)>> /\ (open => requests = <<>>)
    BY <1>1, <2>1 DEF WireInv
  <2>3. answers' = <<>>
    BY <2>1, <2>2
  <2> QED BY <2>1, <2>2, <2>3, RespondIInv
<1>4. CASE ReadFails
  <2>1. Respond(Failed) /\ Busy /\ ~open /\ answers' = <<>> /\ answers = <<>>
    BY <1>4 DEF ReadFails, Busy
  <2> QED BY <2>1, RespondIInv
<1> QED BY <1>2, <1>3, <1>4

\* The server answers the call the task waits for.
LEMMA ServerAppliesIInv == BufferedIInv /\ ServerApplies => BufferedIInv'
<1> SUFFICES ASSUME BufferedIInv, ServerApplies PROVE BufferedIInv'
  OBVIOUS
<1>1. TypeInv /\ CallersInv /\ WayInv /\ WireInv
  BY DEF BufferedIInv
<1>2. /\ open /\ task = "reading" /\ requests = <<current>> /\ answers = <<>>
      /\ Head(requests) = current /\ requests' = <<>>
      /\ Untouched(current) /\ Busy
  BY <1>1 DEF ServerApplies, WireInv, Busy
<1>3. PICK answer : /\ answers' = Append(answers, answer)
                    /\ effect' = [effect EXCEPT ![current] =
                                     {Result(request[current], answer)}]
  BY <1>2 DEF ServerApplies
<1>4. UNCHANGED <<made, request, outcome, open, call, handles, senders, queue,
                  task, current>>
  BY DEF ServerApplies
<1>5. answers' = <<answer>> /\ Head(answers') = answer
  BY <1>2, <1>3
<1>6. current \in Calls /\ current \in 1..made
  BY <1>1, <1>2, StoreCallsAssumption
     DEF Untouched, Unanswered, TypeInv, Calls, StoreCallsAssumption
<1>7. /\ DOMAIN effect' = Calls
      /\ effect'[current] = {Result(request[current], answer)}
      /\ \A id \in Calls : id # current => effect'[id] = effect[id]
  BY <1>1, <1>3, <1>6 DEF TypeInv
<1>8. TypeInv' /\ CallersInv'
  BY <1>1, <1>4, <1>7 DEF TypeInv, CallersInv
<1>9. \A id \in 1..made : id \in Calls
  BY <1>1, StoreCallsAssumption DEF TypeInv, Calls, StoreCallsAssumption
<1>10. \A id : /\ Unanswered(id) => Unanswered(id)'
               /\ id # current /\ Untouched(id) => Untouched(id)'
  BY <1>4, <1>7, <1>9 DEF Unanswered, Untouched
<1>11. WayInv'
  <2>1. \A i \in DOMAIN senders' : call'[senders'[i]] # 0 /\ Untouched(call[senders[i]])'
    BY <1>1, <1>2, <1>4, <1>10 DEF WayInv, Unanswered, Untouched
  <2>2. \A j \in DOMAIN queue' : Untouched(queue[j])'
    BY <1>1, <1>2, <1>4, <1>10 DEF WayInv, Unanswered, Untouched
  <2>3. Unanswered(current)'
    BY <1>2, <1>4, <1>10 DEF Untouched, Unanswered
  <2>4. \A id \in Calls : id > made' => effect'[id] = {} /\ outcome'[id] = NotYet
    <3>1. \A id \in Calls : id > made => id # current
      BY <1>1, <1>6, StoreCallsAssumption DEF TypeInv, Calls, StoreCallsAssumption
    <3> QED BY <1>1, <1>4, <1>7, <3>1 DEF WayInv
  <2>5. Busy' /\ task' # "writing"
    BY <1>2, <1>4 DEF Busy
  <2> QED BY <1>1, <1>2, <1>4, <2>1, <2>2, <2>3, <2>4, <2>5 DEF WayInv
<1>12. WireInv'
  BY <1>2, <1>4, <1>5, <1>7 DEF WireInv
<1> QED BY <1>8, <1>11, <1>12 DEF BufferedIInv

LEMMA OthersIInv ==
    ASSUME BufferedIInv,
           \/ \E c \in Callers : DropHandle(c)
           \/ TaskEnds \/ ServerCloses \/ UNCHANGED bufferedVars
    PROVE  BufferedIInv'
<1>1. TypeInv /\ CallersInv /\ WayInv /\ WireInv
  BY DEF BufferedIInv
<1>2. /\ UNCHANGED <<made, request, effect, outcome, call, senders, queue,
                     current, requests>>
      /\ task' = task \/ (task = "recv" /\ task' = "ended")
      /\ answers' = answers \/ answers' = <<>>
      /\ UNCHANGED <<open, answers>> \/ ~open'
  BY DEF DropHandle, TaskEnds, ServerCloses, Close, bufferedVars, storeVars,
         clientVars
<1>3. TypeInv' /\ CallersInv'
  BY <1>1, <1>2 DEF TypeInv, CallersInv
<1>4. WayInv'
  BY <1>1, <1>2 DEF WayInv, Busy, Unanswered, Untouched
<1>5. WireInv'
  BY <1>1, <1>2 DEF WireInv, Unanswered, Untouched
<1> QED BY <1>3, <1>4, <1>5 DEF BufferedIInv

LEMMA NextBufferedIInv == BufferedIInv /\ [NextBuffered]_bufferedVars => BufferedIInv'
  BY CallMethodIInv, EnqueueIInv, AbandonIInv, ReceiveIInv, WriteRequestIInv,
     TaskRespondsIInv, ServerAppliesIInv, OthersIInv
     DEF NextBuffered, Task

\* Every reachable state satisfies the inductive invariant.
THEOREM BufferedInvariance == SpecBuffered => []BufferedIInv
  BY InitBufferedIInv, NextBufferedIInv, PTL DEF SpecBuffered

-----------------------------------------------------------------------------
\* The refinement: the store, the calls and their outcomes are those of
\* StoreCalls.

LEMMA RespondImplements ==
    ASSUME BufferedIInv, NEW result, Respond(result), Busy,
           result \in effect[current] \/ (~open /\ result = Failed)
    PROVE  [Next]_storeVars
<1>1. current \in Calls /\ current <= made /\ outcome[current] \in {NotYet, GivenUp}
  BY StoreCallsAssumption
     DEF BufferedIInv, WayInv, TypeInv, Unanswered, Calls, StoreCallsAssumption
<1>2. CASE outcome[current] = GivenUp
  BY <1>2 DEF Respond, storeVars
<1>3. CASE outcome[current] # GivenUp
  <2>1. Outcome(current, result)
    BY <1>1, <1>3 DEF Respond, Outcome
  <2>2. Return(current) \/ Fail(current)
    BY <2>1 DEF Return, Fail
  <2> QED BY <1>1, <2>2 DEF Next
<1> QED BY <1>2, <1>3

LEMMA NextImplements == BufferedIInv /\ [NextBuffered]_bufferedVars => [Next]_storeVars
<1> SUFFICES ASSUME BufferedIInv, [NextBuffered]_bufferedVars
             PROVE  [Next]_storeVars
  OBVIOUS
<1>1. TypeInv /\ CallersInv /\ WayInv /\ WireInv
  BY DEF BufferedIInv
<1>2. CASE \E c \in Callers, cmd \in Requests : CallMethod(c, cmd)
  BY <1>2 DEF CallMethod, Next
<1>3. ASSUME NEW c \in Callers, Abandon(c)
      PROVE  [Next]_storeVars
  <2>1. call[c] \in 1..made /\ GiveUp(call[c])
    BY <1>1, <1>3 DEF Abandon, CallersInv
  <2>2. call[c] \in Calls
    BY <1>1, <2>1, StoreCallsAssumption DEF TypeInv, Calls, StoreCallsAssumption
  <2> QED BY <2>1, <2>2 DEF Next
<1>4. CASE \/ \E c \in Callers : Enqueue(c) \/ DropHandle(c)
           \/ Receive \/ TaskEnds \/ WriteRequest \/ UNCHANGED bufferedVars
  BY <1>4 DEF Enqueue, DropHandle, Receive, TaskEnds, WriteRequest, bufferedVars
<1>5. CASE WriteFails
  BY <1>5, RespondImplements DEF WriteFails, Busy
<1>6. CASE ReadFails
  BY <1>6, RespondImplements DEF ReadFails, Busy
<1>7. CASE ReadAnswer
  <2>1. Result(request[current], Head(answers)) \in effect[current]
    BY <1>1, <1>7 DEF ReadAnswer, WireInv
  <2> QED BY <1>7, <2>1, RespondImplements DEF ReadAnswer, Busy
<1>8. CASE ServerApplies
  <2>1. /\ Head(requests) = current /\ Untouched(current) /\ open
    BY <1>1, <1>8 DEF ServerApplies, WireInv
  <2>2. current \in Calls /\ current <= made
    BY <1>1, <2>1, StoreCallsAssumption
       DEF Untouched, Unanswered, TypeInv, Calls, StoreCallsAssumption
  <2>3. TakeEffect(current)
    BY <1>8, <2>1, <2>2 DEF ServerApplies, TakeEffect, Untouched, Unanswered
  <2> QED BY <2>2, <2>3 DEF Next
<1>9. CASE ServerCloses
  BY <1>9 DEF ServerCloses, Next
<1> QED BY <1>2, <1>3, <1>4, <1>5, <1>6, <1>7, <1>8, <1>9 DEF NextBuffered, Task

\* A call gets the answer to its own request and no other, as of a moment
\* before it returned, whoever shares the connection and gives up
\* (buffered_client.rs:26-43, 83-119).
THEOREM BufferedImplementsCalls == SpecBuffered => ImplementsCalls
<1>1. InitBuffered => Init
  BY DEF InitBuffered
<1> QED BY <1>1, NextImplements, BufferedInvariance, PTL
        DEF SpecBuffered, ImplementsCalls, Spec

-----------------------------------------------------------------------------
\* Quotients, and the order of multiples.
LEMMA DivIs ==
    ASSUME NEW n \in Nat, NEW w \in Nat \ {0}
    PROVE  /\ n \div w \in Nat
           /\ (n \div w) * w <= n /\ n < (n \div w) * w + w
BY Z3

LEMMA TimesUp ==
    ASSUME NEW i \in Nat, NEW k \in Nat, NEW w \in Nat \ {0}
    PROVE  /\ i * w \in Nat /\ (i + 1) * w = i * w + w
           /\ i <= k => i * w <= k * w
           /\ i < k => i * w + w <= k * w
<1>1. i * w \in Nat /\ k * w \in Nat /\ (i + 1) * w = i * w + w
  OBVIOUS
<1>2. ASSUME i <= k PROVE i * w <= k * w
  BY <1>2
<1>3. ASSUME i < k PROVE i * w + w <= k * w
  <2>1. i + 1 \in Nat /\ i + 1 <= k
    BY <1>3
  <2>2. (i + 1) * w <= k * w
    BY <2>1
  <2> QED BY <1>1, <2>2
<1> QED BY <1>1, <1>2, <1>3

LEMMA DivBetween ==
    ASSUME NEW k \in Nat, NEW n \in Nat, NEW w \in Nat \ {0}, k * w <= n, n < k * w + w
    PROVE  n \div w = k
<1> DEFINE q == n \div w
<1>1. q \in Nat /\ q * w <= n /\ n < q * w + w
  BY DivIs
<1> HIDE DEF q
<1>2. ~(q < k)
  <2> SUFFICES ASSUME q < k PROVE FALSE
    OBVIOUS
  <2>1. q * w + w <= k * w
    BY <1>1, TimesUp
  <2>2. q * w \in Nat /\ k * w \in Nat
    BY <1>1, TimesUp
  <2> QED BY <1>1, <2>1, <2>2
<1>3. ~(k < q)
  <2> SUFFICES ASSUME k < q PROVE FALSE
    OBVIOUS
  <2>1. k * w + w <= q * w
    BY <1>1, TimesUp
  <2>2. q * w \in Nat /\ k * w \in Nat
    BY <1>1, TimesUp
  <2> QED BY <1>1, <2>1, <2>2
<1> QED BY <1>1, <1>2, <1>3 DEF q

LEMMA LeastOfTwo ==
    ASSUME NEW a \in Nat, NEW b \in Nat
    PROVE  Min({a, b}) = IF a <= b THEN a ELSE b
<1>1. {a, b} \subseteq Nat /\ {a, b} # {}
  OBVIOUS
<1>2. Min({a, b}) \in {a, b} /\ \A j \in {a, b} : Min({a, b}) <= j
  BY <1>1, MinIs
<1> QED BY <1>2

\* FlattenSeq, of one sequence more.
LEMMA FlattenMore ==
    ASSUME NEW S, NEW seqs \in Seq(Seq(S)), NEW more \in Seq(Seq(S)),
           Len(more) = Len(seqs) + 1, \A i \in 1..Len(seqs) : more[i] = seqs[i]
    PROVE  /\ FlattenSeq(seqs) \in Seq(S)
           /\ FlattenSeq(more) = FlattenSeq(seqs) \o more[Len(more)]
<1>1. PICK f : /\ Flattens(f, seqs)
               /\ FlattenSeq(seqs) = IF Len(seqs) = 0 THEN <<>> ELSE f[Len(seqs)]
  BY FlattenSeqIs
<1>2. PICK h : /\ Flattens(h, more)
               /\ FlattenSeq(more) = IF Len(more) = 0 THEN <<>> ELSE h[Len(more)]
  BY FlattenSeqIs
<1>3. /\ Len(seqs) \in Nat /\ Len(more) \in 1..Len(more) /\ more[Len(more)] \in Seq(S)
      /\ Len(seqs) <= Len(more)
  OBVIOUS
<1>4. \A i \in 1..Len(seqs) : h[i] = f[i] /\ f[i] \in Seq(S)
  BY <1>1, <1>2, <1>3, FlattensOnce
<1>5. h[Len(more)] = IF Len(more) = 1 THEN more[Len(more)] ELSE h[Len(more) - 1] \o more[Len(more)]
  BY <1>2, <1>3, FlattensAt
<1>6. CASE Len(seqs) = 0
  <2>1. FlattenSeq(seqs) = <<>> /\ FlattenSeq(more) = more[Len(more)]
    BY <1>1, <1>2, <1>3, <1>5, <1>6
  <2> QED BY <1>3, <2>1
<1>7. CASE Len(seqs) # 0
  <2>1. Len(seqs) \in 1..Len(seqs) /\ Len(more) # 1 /\ Len(more) - 1 = Len(seqs)
    BY <1>3, <1>7
  <2>2. FlattenSeq(seqs) = f[Len(seqs)] /\ FlattenSeq(more) = h[Len(more)]
    BY <1>1, <1>2, <1>3, <1>7
  <2>3. h[Len(more)] = h[Len(seqs)] \o more[Len(more)] /\ h[Len(seqs)] = f[Len(seqs)]
        /\ f[Len(seqs)] \in Seq(S)
    BY <1>4, <1>5, <2>1
  <2> QED BY <2>2, <2>3
<1> QED BY <1>6, <1>7

\* The set of the elements of a sequence is finite.
LEMMA ElementsFinite ==
    ASSUME NEW S, NEW s \in Seq(S)
    PROVE  /\ IsFiniteSet(ToSet(s)) /\ ToSet(s) = {s[i] : i \in 1..Len(s)}
           /\ Cardinality(ToSet(s)) = 1 <=> \E c : ToSet(s) = {c}
<1>1. Len(s) \in Nat /\ DOMAIN s = 1..Len(s)
  OBVIOUS
<1>2. ToSet(s) = {s[i] : i \in 1..Len(s)}
  BY <1>1 DEF ToSet
<1>3. s \in [1..Len(s) -> ToSet(s)]
  BY <1>2
<1>4. s \in Surjection(1..Len(s), ToSet(s))
  BY <1>2, <1>3 DEF Surjection
<1>5. IsFiniteSet(1..Len(s))
  BY <1>1, FS_Interval
<1>6. IsFiniteSet(ToSet(s))
  BY <1>4, <1>5, FS_Surjection
<1> QED BY <1>2, <1>6, FS_Singleton

\* The groups of a line, and the line as little-endian hexyl orders it.
GroupsOf(line, size) ==
    [g \in 1..((Len(line) + size - 1) \div size) |->
        SubSeq(line, (g - 1) * size + 1, Min({g * size, Len(line)}))]
LittleEndian(line, size) ==
    [i \in DOMAIN line |->
        LET first == ((i - 1) \div size) * size + 1
            last == Min({first + size - 1, Len(line)})
        IN  line[first + last - i]]
ReversedGroups(line, size) ==
    FlattenSeq([g \in DOMAIN GroupsOf(line, size) |-> Reverse(GroupsOf(line, size)[g])])

\* A byte of the group that m others precede and that ends at e.
InGroup(line, size, m, e, i) ==
    /\ m \in Nat /\ e \in Nat /\ e = Min({(m + 1) * size, Len(line)})
    /\ i \in m * size + 1..e

LEMMA LittleEndianAt ==
    ASSUME NEW S, NEW line \in Seq(S), NEW size \in Nat \ {0}, NEW m, NEW e, NEW i,
           InGroup(line, size, m, e, i)
    PROVE  LittleEndian(line, size)[i] = line[m * size + 1 + e - i]
<1>0. /\ m \in Nat /\ e \in Nat /\ e = Min({(m + 1) * size, Len(line)})
      /\ i \in m * size + 1..e
  BY DEF InGroup
<1>1. m * size \in Nat /\ (m + 1) * size = m * size + size /\ Len(line) \in Nat
  BY <1>0, TimesUp
<1>2. e = IF m * size + size <= Len(line) THEN m * size + size ELSE Len(line)
  BY <1>0, <1>1, LeastOfTwo
<1>3. i \in 1..Len(line) /\ i - 1 \in Nat /\ m * size <= i - 1 /\ i - 1 < m * size + size
  BY <1>0, <1>1, <1>2
<1>4. (i - 1) \div size = m
  BY <1>0, <1>3, DivBetween
<1>5. (m * size + 1) + size - 1 \in Nat /\ (m * size + 1) + size - 1 = m * size + size
  BY <1>1
<1>6. Min({(m * size + 1) + size - 1, Len(line)}) = e
  BY <1>1, <1>2, <1>5, LeastOfTwo
<1>7. DOMAIN line = 1..Len(line)
  OBVIOUS
<1> QED BY <1>3, <1>4, <1>6, <1>7 DEF LittleEndian

\* hexyl's order is that of the groups, each reversed.
LEMMA OrderedByGroups ==
    ASSUME NEW S, NEW line \in Seq(S), NEW size \in Nat \ {0}
    PROVE  /\ LittleEndian(line, size) \in Seq(S)
           /\ ReversedGroups(line, size) = LittleEndian(line, size)
<1> DEFINE L == Len(line)
           N == (L + size - 1) \div size
           reversed == [g \in 1..N |-> Reverse(GroupsOf(line, size)[g])]
           little == LittleEndian(line, size)
           To(m) == Min({m * size, L})
<1>1. L \in Nat /\ L + size - 1 \in Nat
  OBVIOUS
<1>2. N \in Nat /\ N * size <= L + size - 1 /\ L + size - 1 < N * size + size
  BY <1>1, DivIs
<1>3. \A m \in Nat : m * size \in Nat /\ To(m) = IF m * size <= L THEN m * size ELSE L
  BY <1>1, TimesUp, LeastOfTwo
<1> HIDE DEF N, To
<1>4. \A m \in 0..N - 1 : /\ m * size < L /\ (m + 1) * size = m * size + size
                          /\ To(m) = m * size /\ To(m + 1) \in m * size + 1..L
  <2> SUFFICES ASSUME NEW m \in 0..N - 1
               PROVE  /\ m * size < L /\ (m + 1) * size = m * size + size
                      /\ To(m) = m * size /\ To(m + 1) \in m * size + 1..L
    OBVIOUS
  <2>1. m \in Nat /\ m + 1 \in Nat /\ m < N
    BY <1>2
  <2>2. m * size \in Nat /\ N * size \in Nat /\ m * size + size <= N * size
        /\ (m + 1) * size = m * size + size
    BY <1>2, <2>1, TimesUp
  <2>3. m * size < L
    BY <1>1, <1>2, <2>2
  <2>4. /\ To(m) = IF m * size <= L THEN m * size ELSE L
        /\ To(m + 1) = IF (m + 1) * size <= L THEN (m + 1) * size ELSE L
    BY <1>3, <2>1
  <2> HIDE DEF L
  <2> QED BY <1>1, <2>2, <2>3, <2>4
<1>5. To(N) = L
  <2>1. N * size \in Nat /\ To(N) = IF N * size <= L THEN N * size ELSE L
    BY <1>2, <1>3
  <2> HIDE DEF L
  <2> QED BY <1>1, <1>2, <2>1
<1>6. \A g \in 1..N : /\ reversed[g] \in Seq(S)
                      /\ Len(reversed[g]) = To(g) - (g - 1) * size
                      /\ \A i \in 1..To(g) - (g - 1) * size :
                            reversed[g][i] = line[To(g) - i + 1]
  <2> SUFFICES ASSUME NEW g \in 1..N
               PROVE  /\ reversed[g] \in Seq(S)
                      /\ Len(reversed[g]) = To(g) - (g - 1) * size
                      /\ \A i \in 1..To(g) - (g - 1) * size :
                            reversed[g][i] = line[To(g) - i + 1]
    OBVIOUS
  <2> DEFINE a == (g - 1) * size
             u == SubSeq(line, a + 1, To(g))
  <2>1. g - 1 \in 0..N - 1 /\ (g - 1) + 1 = g
    BY <1>2
  <2>2. a \in Nat /\ To(g) \in a + 1..L
    BY <1>3, <1>4, <2>1
  <2> HIDE DEF a
  <2>3. a + 1 \in Nat \ {0} /\ To(g) \in Nat /\ To(g) <= Len(line)
    BY <1>1, <2>2
  <2>4. /\ u \in Seq(S) /\ Len(u) = To(g) - a
        /\ \A i \in 1..To(g) - a : u[i] = line[a + i]
    <3>1. /\ u \in Seq(S)
          /\ Len(u) = IF a + 1 <= To(g) THEN To(g) - (a + 1) + 1 ELSE 0
          /\ \A i \in 1..To(g) - (a + 1) + 1 : u[i] = line[a + 1 + i - 1]
      BY <2>3, SubSeqIs
    <3>2. To(g) - (a + 1) + 1 = To(g) - a
      BY <2>2
    <3>3. \A i \in 1..To(g) - a : a + 1 + i - 1 = a + i
      BY <2>2
    <3> HIDE DEF u
    <3> QED BY <2>2, <3>1, <3>2, <3>3
  <2>5. GroupsOf(line, size)[g] = u
    BY <1>2 DEF GroupsOf, To, N, a
  <2>6. reversed[g] = [i \in 1..Len(u) |-> u[Len(u) - i + 1]]
    BY <2>5 DEF Reverse
  <2> HIDE DEF u, reversed
  <2>7. \A i \in 1..Len(u) : Len(u) - i + 1 \in 1..Len(u)
    BY <2>4
  <2>8. reversed[g] \in Seq(S) /\ Len(reversed[g]) = Len(u)
    <3>1. \A i \in 1..Len(u) : u[Len(u) - i + 1] \in S
      BY <2>4, <2>7
    <3> QED BY <2>4, <2>6, <3>1
  <2>9. ASSUME NEW i \in 1..To(g) - a PROVE reversed[g][i] = line[To(g) - i + 1]
    <3>1. i \in 1..Len(u) /\ Len(u) - i + 1 \in 1..To(g) - a
          /\ a + (Len(u) - i + 1) = To(g) - i + 1
      BY <2>2, <2>4, <2>7
    <3> QED BY <2>4, <2>6, <3>1
  <2> QED BY <2>4, <2>8, <2>9 DEF a
<1>7. /\ little \in Seq(S) /\ Len(little) = L
      /\ \A m \in 0..N - 1 : \A i \in m * size + 1..To(m + 1) :
            little[i] = line[m * size + 1 + To(m + 1) - i]
  <2>1. ASSUME NEW m \in 0..N - 1, NEW i \in m * size + 1..To(m + 1)
        PROVE  little[i] = line[m * size + 1 + To(m + 1) - i]
    <3>1. m \in Nat /\ To(m + 1) \in Nat /\ To(m + 1) = Min({(m + 1) * size, Len(line)})
      <4>1. m \in Nat /\ m + 1 \in Nat
        BY <1>2
      <4>2. To(m + 1) \in Nat
        BY <1>1, <1>4
      <4> QED BY <4>1, <4>2 DEF To
    <3> DEFINE e == To(m + 1)
    <3>2. InGroup(line, size, m, e, i)
      BY <3>1 DEF InGroup
    <3> HIDE DEF e
    <3>3. LittleEndian(line, size)[i] = line[m * size + 1 + e - i]
      BY <3>2, LittleEndianAt
    <3> QED BY <3>3 DEF e
  <2>2. \A i \in 1..L : little[i] \in S
    <3> SUFFICES ASSUME NEW i \in 1..L PROVE little[i] \in S
      OBVIOUS
    <3> DEFINE m == (i - 1) \div size
    <3>1. i - 1 \in Nat
      OBVIOUS
    <3>2. m \in Nat /\ m * size <= i - 1 /\ i - 1 < m * size + size
      BY <3>1, DivIs
    <3> HIDE DEF m
    <3>3. m < N
      <4> SUFFICES ASSUME N <= m PROVE FALSE
        BY <1>2, <3>2
      <4>1. N * size <= m * size /\ N * size \in Nat /\ m * size \in Nat
        BY <1>2, <3>2, TimesUp
      <4> QED BY <1>1, <1>2, <3>2, <4>1
    <3>4. m \in 0..N - 1
      BY <1>2, <3>2, <3>3
    <3> HIDE DEF little
    <3> DEFINE e == To(m + 1)
    <3>8. m * size \in Nat /\ e \in m * size + 1..L /\ e = IF m * size + size <= L
                                                     THEN m * size + size ELSE L
      <4>1. m \in Nat /\ m + 1 \in Nat
        BY <3>2
      <4>2. m * size \in Nat /\ To(m + 1) = IF (m + 1) * size <= L THEN (m + 1) * size ELSE L
        BY <1>3, <4>1
      <4>3. (m + 1) * size = m * size + size /\ To(m + 1) \in m * size + 1..L
        BY <1>4, <3>4
      <4> QED BY <4>2, <4>3
    <3>5. i \in m * size + 1..e
      <4> HIDE DEF e, L
      <4> QED BY <1>1, <3>2, <3>8
    <3>6. little[i] = line[m * size + 1 + To(m + 1) - i]
      BY <2>1, <3>4, <3>5
    <3>7. m * size + 1 + e - i \in 1..L
      <4> HIDE DEF e, L
      <4> QED BY <1>1, <3>2, <3>5, <3>8
    <3> QED BY <3>6, <3>7
  <2>3. little = [i \in 1..L |-> little[i]]
    <3>1. DOMAIN line = 1..L
      OBVIOUS
    <3> HIDE DEF L
    <3> QED BY <3>1 DEF LittleEndian
  <2> HIDE DEF little
  <2>4. little \in Seq(S) /\ Len(little) = L
    BY <1>1, <2>2, <2>3
  <2> QED BY <2>1, <2>4
<1> HIDE DEF little, reversed
\* After m groups.
<1> DEFINE front(m) == [g \in 1..m |-> reversed[g]]
           Good == {m \in 0..N : FlattenSeq(front(m)) = SubSeq(little, 1, To(m))}
<1> HIDE DEF front, Good
<1>8. 0 \in Good
  <2>1. front(0) \in Seq(Seq(S)) /\ Len(front(0)) = 0
    BY DEF front
  <2>2. FlattenSeq(front(0)) = <<>>
    BY <2>1, FlattenSeqIs
  <2>3. To(0) = 0
    BY <1>1, <1>3
  <2>4. SubSeq(little, 1, 0) = <<>>
    BY <1>7
  <2>5. SubSeq(little, 1, To(0)) = <<>>
    BY <2>3, <2>4
  <2>6. FlattenSeq(front(0)) = SubSeq(little, 1, To(0))
    BY <2>2, <2>5
  <2>7. 0 \in 0..N
    BY <1>2
  <2> QED BY <2>6, <2>7 DEF Good
<1>9. ASSUME NEW m \in 0..N - 1, m \in Good PROVE m + 1 \in Good
  <2> DEFINE f == front(m)
             h == front(m + 1)
             e == To(m + 1)
             a == m * size
             x == SubSeq(little, 1, a)
             y == reversed[m + 1]
             z == SubSeq(little, 1, e)
  <2>1. m \in Nat /\ m + 1 \in 1..N /\ (m + 1) - 1 = m /\ m + 1 \in 0..N
    BY <1>2
  <2>2. a \in Nat /\ To(m) = a /\ e \in a + 1..L /\ a < L
    BY <1>3, <1>4, <2>1
  <2>3. f \in Seq(Seq(S)) /\ h \in Seq(Seq(S)) /\ Len(h) = Len(f) + 1 /\ Len(h) = m + 1
        /\ (\A i \in 1..Len(f) : h[i] = f[i]) /\ h[m + 1] = y
    <3>1. \A i \in 1..m + 1 : reversed[i] \in Seq(S)
      BY <1>2, <1>6
    <3> QED BY <2>1, <3>1 DEF front
  <2>4. FlattenSeq(f) = x
    <3>1. FlattenSeq(front(m)) = SubSeq(little, 1, To(m))
      BY <1>9 DEF Good
    <3> QED BY <2>2, <3>1
  <2> HIDE DEF f, h
  <2>5. FlattenSeq(h) = x \o y
    BY <2>3, <2>4, FlattenMore
  <2>6. y \in Seq(S) /\ Len(y) = e - a /\ \A i \in 1..e - a : y[i] = line[e - i + 1]
    BY <1>6, <2>1
  <2>7. x \in Seq(S) /\ Len(x) = a /\ \A i \in 1..a : x[i] = little[i]
    <3>1. 1 \in Nat \ {0} /\ a <= Len(little)
      BY <1>7, <2>2
    <3>2. /\ x \in Seq(S) /\ Len(x) = (IF 1 <= a THEN a - 1 + 1 ELSE 0)
          /\ \A i \in 1..a - 1 + 1 : x[i] = little[1 + i - 1]
      BY <1>7, <2>2, <3>1, SubSeqIs
    <3>3. a - 1 + 1 = a /\ \A i \in 1..a : 1 + i - 1 = i
      BY <2>2
    <3> HIDE DEF x
    <3> QED BY <2>2, <3>2, <3>3
  <2>8. z \in Seq(S) /\ Len(z) = e /\ \A i \in 1..e : z[i] = little[i]
    <3>1. 1 \in Nat \ {0} /\ e \in Nat /\ e <= Len(little)
      BY <1>1, <1>7, <2>2
    <3>2. /\ z \in Seq(S) /\ Len(z) = (IF 1 <= e THEN e - 1 + 1 ELSE 0)
          /\ \A i \in 1..e - 1 + 1 : z[i] = little[1 + i - 1]
      BY <1>7, <3>1, SubSeqIs
    <3>3. e - 1 + 1 = e /\ \A i \in 1..e : 1 + i - 1 = i
      BY <3>1
    <3> HIDE DEF z, e
    <3> QED BY <3>1, <3>2, <3>3
  <2> HIDE DEF x, y, z, e, a
  <2>9. \A i \in a + 1..e : little[i] = y[i - a]
    <3> SUFFICES ASSUME NEW i \in a + 1..e PROVE little[i] = y[i - a]
      OBVIOUS
    <3>1. little[i] = line[a + 1 + e - i]
      BY <1>7 DEF a, e
    <3>2. i - a \in 1..e - a /\ e - (i - a) + 1 = a + 1 + e - i
      BY <2>2
    <3> QED BY <2>6, <3>1, <3>2
  <2>10. x \o y = z
    <3>1. x \o y \in Seq(S) /\ Len(x \o y) = e
          /\ \A i \in 1..e : (x \o y)[i] = IF i <= a THEN x[i] ELSE y[i - a]
      <4>1. e - a \in Nat /\ a \in Nat /\ e \in Nat /\ a + (e - a) = e
        <5>1. L \in Nat
          BY <1>1
        <5> HIDE DEF L
        <5> QED BY <2>2, <5>1
      <4>2. x \in Seq(S) /\ y \in Seq(S) /\ Len(x) = a /\ Len(y) = e - a
        BY <2>6, <2>7
      <4>3. /\ x \o y \in Seq(S) /\ Len(x \o y) = Len(x) + Len(y)
            /\ \A i \in 1..Len(x) + Len(y) : (x \o y)[i] = IF i <= Len(x) THEN x[i] ELSE y[i - Len(x)]
        BY <4>2, ConcatProperties
      <4> QED BY <4>1, <4>2, <4>3
    <3>2. ASSUME NEW i \in 1..e PROVE (x \o y)[i] = z[i]
      BY <2>2, <2>7, <2>8, <2>9, <3>1
    <3> DEFINE t == x \o y
    <3>3. t \in Seq(S) /\ Len(t) = Len(z) /\ \A i \in 1..Len(t) : t[i] = z[i]
      BY <2>8, <3>1, <3>2
    <3> HIDE DEF t
    <3>4. t = z
      BY <2>8, <3>3, SeqEqual
    <3> QED BY <3>4 DEF t
  <2> QED BY <2>1, <2>5, <2>10 DEF h, z, e, Good
<1>10. N \in Good
  <2> DEFINE Bad == {m \in 0..N : m \notin Good}
  <2>6. N \in 0..N
    BY <1>2
  <2> SUFFICES ASSUME Bad # {} PROVE FALSE
    BY <2>6
  <2>1. Bad \subseteq Nat
    OBVIOUS
  <2>2. PICK m \in Bad : \A k \in Bad : m <= k
    <3> HIDE DEF Bad
    <3> QED BY <2>1, Least
  <2>3. m \in 0..N /\ m \notin Good /\ m # 0
    BY <1>8
  <2>4. m - 1 \in 0..N - 1 /\ (m - 1) + 1 = m /\ m - 1 \notin Bad
    BY <1>2, <2>2, <2>3
  <2>5. m - 1 \in Good
    BY <1>2, <2>4
  <2> QED BY <1>9, <2>3, <2>4, <2>5
<1>11. SubSeq(little, 1, L) = little
  BY <1>7
<1>12. front(N) = reversed
  BY DEF reversed, front
<1>13. FlattenSeq(reversed) = little
  BY <1>5, <1>10, <1>11, <1>12 DEF Good
<1>14. ReversedGroups(line, size) = FlattenSeq(reversed)
  BY DEF ReversedGroups, reversed, GroupsOf, N
<1> QED BY <1>7, <1>13, <1>14 DEF little

\* What the listing is made of: the bytes asked for, in chunks of a line each.
BytesAsked(j) == SubSeq(j.input, j.means.first + 1,
                        Min({Len(j.input), j.means.first + j.means.count}))
ChunkOf(j, i) ==
    SubSeq(BytesAsked(j), (i - 1) * j.width + 1, Min({i * j.width, Len(BytesAsked(j))}))
OneByte(line) == \E c : ToSet(line) = {c}
RowOf(j, position, bytes) ==
    Line("row", position, IF j.little THEN LittleEndian(bytes, j.group) ELSE bytes, bytes)

\* Line i repeats the one before and is left out; LineOf is what is printed.
RepeatsAt(j, i) ==
    /\ j.squeeze /\ i >= 2 /\ i * j.width <= Len(BytesAsked(j))
    /\ ChunkOf(j, i) = ChunkOf(j, i - 1) /\ OneByte(ChunkOf(j, i))
LineOf(j, i) ==
    IF ~RepeatsAt(j, i)
    THEN <<RowOf(j, j.means.position + (i - 1) * j.width, ChunkOf(j, i))>>
    ELSE IF RepeatsAt(j, i - 1) THEN <<>> ELSE <<Mark("star")>>
LinesTo(j, n) == FlattenSeq([i \in 1..n |-> LineOf(j, i)])
LastOf(j, n) ==
    IF BytesAsked(j) = <<>> THEN <<Mark("no content")>>
    ELSE IF Len(BytesAsked(j)) > n * j.width \/ RepeatsAt(j, n)
         THEN <<RowOf(j, j.means.position + n * j.width, ChunkOf(j, n + 1))>>
    ELSE <<>>
ListingOf(j) ==
    LET n == Len(BytesAsked(j)) \div j.width
    IN  <<Mark("header")>> \o LinesTo(j, n) \o LastOf(j, n) \o <<Mark("footer")>>

\* A job and a tool at work on it.
BytesOf(j) == ToSet(j.input)
LineKinds == {"header", "row", "star", "no content", "footer", "array", "new row",
              "same row", "total"}
PrintedLines(j) ==
    [kind : LineKinds, position : Nat, bytes : Seq(BytesOf(j)), chars : Seq(BytesOf(j))]
HexylJob(j) ==
    /\ j.input \in Seq(BytesOf(j))
    /\ j.width \in Nat \ {0} /\ j.group \in Nat \ {0}
    /\ j.little \in BOOLEAN /\ j.squeeze \in BOOLEAN /\ j.seekable \in BOOLEAN
    /\ j.include \in {"off", "file", "stdin"}
HexylState(j) ==
    [pc : {"arguments", "skip", "take", "line", "full", "include", "done"},
     status : {"running", "ok", "error"},
     skip : Nat, limit : Nat, display : Nat, line : Seq(BytesOf(j)),
     squeezer : {"disabled", "ignore", "print", "delete"}, byte : BytesOf(j) \cup {0},
     idx : Nat, total : Nat, out : Seq(PrintedLines(j))]
AsksFor(j) ==
    /\ j.means.prints = TRUE /\ j.means.status = "ok"
    /\ j.means.first \in Nat /\ j.means.count \in Nat /\ j.means.position \in Nat

LEMMA BytesAskedIs ==
    ASSUME NEW j, HexylJob(j), AsksFor(j)
    PROVE  /\ BytesAsked(j) \in Seq(BytesOf(j))
           /\ Len(BytesAsked(j)) = IF j.means.first >= Len(j.input) THEN 0
                                   ELSE IF j.means.first + j.means.count <= Len(j.input)
                                   THEN j.means.count ELSE Len(j.input) - j.means.first
           /\ \A i \in 1..Len(BytesAsked(j)) : BytesAsked(j)[i] = j.input[j.means.first + i]
<1> DEFINE S == BytesOf(j)
           input == j.input
           first == j.means.first
           count == j.means.count
           to == Min({Len(input), first + count})
           b == SubSeq(input, first + 1, to)
<1>1. input \in Seq(S) /\ Len(input) \in Nat /\ first \in Nat /\ count \in Nat
  BY DEF HexylJob, AsksFor
<1> HIDE DEF S, input, first, count
<1>2. to = IF Len(input) <= first + count THEN Len(input) ELSE first + count
  BY <1>1, LeastOfTwo
<1>3. first + 1 \in Nat \ {0} /\ to \in Nat /\ to <= Len(input)
  BY <1>1, <1>2
<1>4. /\ b \in Seq(S)
      /\ Len(b) = (IF first + 1 <= to THEN to - (first + 1) + 1 ELSE 0)
      /\ \A i \in 1..to - (first + 1) + 1 : b[i] = input[first + 1 + i - 1]
  BY <1>1, <1>3, SubSeqIs
<1> HIDE DEF b, to
<1>5. Len(b) = IF first >= Len(input) THEN 0
               ELSE IF first + count <= Len(input) THEN count ELSE Len(input) - first
  BY <1>1, <1>2, <1>3, <1>4
<1>6. ASSUME NEW i \in 1..Len(b) PROVE b[i] = input[first + i]
  <2>1. i \in 1..to - (first + 1) + 1 /\ first + 1 + i - 1 = first + i
    BY <1>1, <1>3, <1>4
  <2> QED BY <1>4, <2>1
<1>7. BytesAsked(j) = b
  BY DEF BytesAsked, b, to, input, first, count
<1> QED BY <1>4, <1>5, <1>6, <1>7 DEF S, input, first, count

\* A chunk, before and at the end.
LinesFit(j, k) == k \in Nat /\ k * j.width <= Len(BytesAsked(j))

LEMMA ChunkIs ==
    ASSUME NEW j, HexylJob(j), AsksFor(j), NEW k, LinesFit(j, k)
    PROVE  /\ ChunkOf(j, k + 1) \in Seq(BytesOf(j))
           /\ k * j.width \in Nat
           /\ Len(ChunkOf(j, k + 1)) = IF k * j.width + j.width <= Len(BytesAsked(j))
                                       THEN j.width ELSE Len(BytesAsked(j)) - k * j.width
           /\ \A i \in 1..Len(ChunkOf(j, k + 1)) :
                 ChunkOf(j, k + 1)[i] = BytesAsked(j)[k * j.width + i]
<1> DEFINE S == BytesOf(j)
           b == BytesAsked(j)
           w == j.width
           a == k * w
           to == Min({(k + 1) * w, Len(b)})
           c == SubSeq(b, a + 1, to)
<1>1. b \in Seq(S) /\ Len(b) \in Nat /\ w \in Nat \ {0} /\ a <= Len(b)
  BY BytesAskedIs DEF HexylJob, LinesFit
<1>0. k \in Nat
  BY DEF LinesFit
<1> HIDE DEF b, w, S
<1>2. a \in Nat /\ (k + 1) * w = a + w /\ (k + 1) * w \in Nat
  BY <1>0, <1>1, TimesUp
<1> HIDE DEF a
<1>3. to = IF a + w <= Len(b) THEN a + w ELSE Len(b)
  BY <1>1, <1>2, LeastOfTwo
<1>4. a + 1 \in Nat \ {0} /\ to \in Nat /\ to <= Len(b)
  BY <1>1, <1>2, <1>3
<1> DEFINE m == a + 1
<1>9. m \in Nat \ {0} /\ m = a + 1
  BY <1>2
<1> HIDE DEF m, to
<1>5. /\ SubSeq(b, m, to) \in Seq(S)
      /\ Len(SubSeq(b, m, to)) = (IF m <= to THEN to - m + 1 ELSE 0)
      /\ \A i \in 1..to - m + 1 : SubSeq(b, m, to)[i] = b[m + i - 1]
  <2>1. b \in Seq(S) /\ m \in Nat \ {0} /\ to \in Nat /\ to <= Len(b)
    BY <1>1, <1>4, <1>9
  <2> QED BY <2>1, SubSeqIs
<1>10. c = SubSeq(b, m, to)
  BY DEF m
<1> HIDE DEF c
<1>6. Len(c) = IF a + w <= Len(b) THEN w ELSE Len(b) - a
  <2>1. Len(c) = IF m <= to THEN to - m + 1 ELSE 0
    BY <1>5, <1>10
  <2> QED BY <1>1, <1>2, <1>3, <1>9, <2>1
<1>7. ASSUME NEW i \in 1..Len(c) PROVE c[i] = b[a + i]
  <2>1. i \in 1..to - m + 1 /\ m + i - 1 = a + i
    <3>1. Len(c) = IF m <= to THEN to - m + 1 ELSE 0
      BY <1>5, <1>10
    <3> QED BY <1>2, <1>4, <1>9, <3>1
  <2> QED BY <1>5, <1>10, <2>1
<1>8. ChunkOf(j, k + 1) = c
  <2>1. (k + 1) - 1 = k
    BY <1>0
  <2> QED BY <2>1 DEF ChunkOf, c, to, a, w, b
<1>11. c \in Seq(S)
  BY <1>5, <1>10
<1> QED BY <1>2, <1>6, <1>7, <1>8, <1>11 DEF S, a, w, b

\* u is the n elements of b that follow the first a.
IsPart(S, u, b, a, n) ==
    /\ a \in Nat /\ n \in Nat
    /\ u \in Seq(S) /\ Len(u) = n
    /\ \A i \in 1..n : u[i] = b[a + i]

LEMMA PartIs ==
    ASSUME NEW S, NEW b \in Seq(S), NEW a \in Nat, NEW e \in Nat, a <= e, e <= Len(b)
    PROVE  IsPart(S, SubSeq(b, a + 1, e), b, a, e - a)
<1> DEFINE m == a + 1
           u == SubSeq(b, m, e)
<1>1. m \in Nat \ {0} /\ m = a + 1
  OBVIOUS
<1> HIDE DEF m
<1>2. /\ u \in Seq(S) /\ Len(u) = (IF m <= e THEN e - m + 1 ELSE 0)
      /\ \A i \in 1..e - m + 1 : u[i] = b[m + i - 1]
  BY <1>1, SubSeqIs
<1> HIDE DEF u
<1>3. Len(u) = e - a
  BY <1>1, <1>2
<1>4. ASSUME NEW i \in 1..e - a PROVE u[i] = b[a + i]
  <2>1. i \in 1..e - m + 1 /\ m + i - 1 = a + i
    BY <1>1
  <2> QED BY <1>2, <2>1
<1>5. IsPart(S, u, b, a, e - a)
  <2>1. e - a \in Nat
    OBVIOUS
  <2> QED BY <1>2, <1>3, <1>4, <2>1 DEF IsPart
<1> QED BY <1>5 DEF u, m

LEMMA NoPart ==
    ASSUME NEW S, NEW b \in Seq(S), NEW a \in Nat, NEW e \in Nat, e <= a
    PROVE  SubSeq(b, a + 1, e) = <<>>
<1> DEFINE m == a + 1
<1>1. m \in Nat \ {0} /\ e < m
  OBVIOUS
<1> HIDE DEF m
<1>2. SubSeq(b, m, e) = <<>>
  BY <1>1
<1> QED BY <1>2 DEF m

LEMMA SameParts ==
    ASSUME NEW S, NEW u, NEW v, NEW b, NEW a, NEW n,
           IsPart(S, u, b, a, n), IsPart(S, v, b, a, n)
    PROVE  u = v
<1>1. u \in Seq(S) /\ v \in Seq(S) /\ Len(u) = Len(v) /\ \A i \in 1..Len(u) : u[i] = v[i]
  BY DEF IsPart
<1> QED BY <1>1, SeqEqual

\* A part of a part, either way.
LEMMA PartOfPart ==
    ASSUME NEW S, NEW u, NEW v, NEW b, NEW a, NEW n, NEW c, NEW m,
           IsPart(S, u, b, a, n), IsPart(S, v, u, c, m), c + m <= n
    PROVE  IsPart(S, v, b, a + c, m)
<1>1. a \in Nat /\ n \in Nat /\ c \in Nat /\ m \in Nat /\ v \in Seq(S) /\ Len(v) = m
  BY DEF IsPart
<1>2. ASSUME NEW i \in 1..m PROVE v[i] = b[a + c + i]
  <2>1. c + i \in 1..n /\ a + (c + i) = a + c + i
    BY <1>1
  <2>2. v[i] = u[c + i] /\ u[c + i] = b[a + (c + i)]
    BY <2>1 DEF IsPart
  <2> QED BY <2>1, <2>2
<1> QED BY <1>1, <1>2 DEF IsPart

LEMMA PartWithin ==
    ASSUME NEW S, NEW u, NEW v, NEW b, NEW a, NEW n, NEW c \in Nat, NEW m,
           IsPart(S, u, b, a, n), IsPart(S, v, b, a + c, m), c + m <= n
    PROVE  IsPart(S, v, u, c, m)
<1>1. a \in Nat /\ n \in Nat /\ m \in Nat /\ v \in Seq(S) /\ Len(v) = m
  BY DEF IsPart
<1>2. ASSUME NEW i \in 1..m PROVE v[i] = u[c + i]
  <2>1. c + i \in 1..n /\ a + (c + i) = a + c + i
    BY <1>1
  <2>2. v[i] = b[a + c + i] /\ u[c + i] = b[a + (c + i)]
    BY <2>1 DEF IsPart
  <2> QED BY <2>1, <2>2
<1> QED BY <1>1, <1>2 DEF IsPart

LEMMA PartsJoin ==
    ASSUME NEW S, NEW u, NEW v, NEW b, NEW a, NEW n, NEW m,
           IsPart(S, u, b, a, n), IsPart(S, v, b, a + n, m)
    PROVE  IsPart(S, u \o v, b, a, n + m)
<1>1. /\ a \in Nat /\ n \in Nat /\ m \in Nat /\ n + m \in Nat
      /\ u \in Seq(S) /\ Len(u) = n /\ v \in Seq(S) /\ Len(v) = m
  BY DEF IsPart
<1>2. /\ u \o v \in Seq(S) /\ Len(u \o v) = Len(u) + Len(v)
      /\ \A i \in 1..Len(u) + Len(v) :
            (u \o v)[i] = IF i <= Len(u) THEN u[i] ELSE v[i - Len(u)]
  BY <1>1, ConcatProperties
<1> DEFINE t == u \o v
<1> HIDE DEF t
<1>3. t \in Seq(S) /\ Len(t) = n + m
      /\ \A i \in 1..n + m : t[i] = IF i <= n THEN u[i] ELSE v[i - n]
  BY <1>1, <1>2 DEF t
<1>4. ASSUME NEW i \in 1..n + m PROVE t[i] = b[a + i]
  <2>1. CASE i <= n
    <3>1. i \in 1..n
      BY <1>1, <2>1
    <3>2. u[i] = b[a + i]
      BY <3>1 DEF IsPart
    <3> QED BY <1>3, <2>1, <3>2
  <2>2. CASE ~(i <= n)
    <3>1. i - n \in 1..m /\ a + n + (i - n) = a + i
      BY <1>1, <2>2
    <3>2. v[i - n] = b[a + n + (i - n)]
      BY <3>1 DEF IsPart
    <3> QED BY <1>3, <2>2, <3>1, <3>2
  <2> QED BY <2>1, <2>2
<1>5. IsPart(S, t, b, a, n + m)
  BY <1>1, <1>3, <1>4 DEF IsPart
<1> QED BY <1>5 DEF t

\* n of the bytes asked for are read, l is the input behind them, and take()
\* lets through limit more.
HasRead(j, l, limit, n) ==
    /\ n \in 0..Len(BytesAsked(j)) /\ limit \in Nat
    /\ IsPart(BytesOf(j), l, j.input, j.means.first + n, Len(l))
    /\ Len(l) = IF j.means.first + n < Len(j.input) THEN Len(j.input) - (j.means.first + n) ELSE 0
    /\ limit + n <= j.means.count
    /\ limit + n = j.means.count \/ limit = Len(l)

LEMMA AskedIsPart ==
    ASSUME NEW j, HexylJob(j), AsksFor(j)
    PROVE  IsPart(BytesOf(j), BytesAsked(j), j.input, j.means.first, Len(BytesAsked(j)))
<1> DEFINE b == BytesAsked(j)
<1>1. b \in Seq(BytesOf(j)) /\ \A i \in 1..Len(b) : b[i] = j.input[j.means.first + i]
  BY BytesAskedIs
<1> HIDE DEF b
<1>2. Len(b) \in Nat /\ j.means.first \in Nat
  BY <1>1 DEF AsksFor
<1>3. IsPart(BytesOf(j), b, j.input, j.means.first, Len(b))
  BY <1>1, <1>2 DEF IsPart
<1> QED BY <1>3 DEF b

LEMMA HasReadMore ==
    ASSUME NEW j, HexylJob(j), AsksFor(j), NEW l, NEW limit, NEW n, HasRead(j, l, limit, n),
           NEW k \in 1..Len(l), k <= limit
    PROVE  /\ HasRead(j, SubSeq(l, k + 1, Len(l)), limit - k, n + k)
           /\ IsPart(BytesOf(j), SubSeq(l, 1, k), BytesAsked(j), n, k)
<1> DEFINE S == BytesOf(j)
           b == BytesAsked(j)
           first == j.means.first
           count == j.means.count
           size == Len(j.input)
           rest == SubSeq(l, k + 1, Len(l))
           piece == SubSeq(l, 1, k)
<1>1. /\ n \in 0..Len(b) /\ limit \in Nat /\ IsPart(S, l, j.input, first + n, Len(l))
      /\ Len(l) = IF first + n < size THEN size - (first + n) ELSE 0
      /\ limit + n <= count
      /\ limit + n = count \/ limit = Len(l)
  BY DEF HasRead
<1>2. first \in Nat /\ count \in Nat /\ size \in Nat /\ Len(b) \in Nat
  BY BytesAskedIs DEF AsksFor, HexylJob
<1>3. Len(b) = IF first >= size THEN 0
               ELSE IF first + count <= size THEN count ELSE size - first
  BY BytesAskedIs
<1>4. l \in Seq(S) /\ Len(l) \in Nat /\ k \in Nat
  BY <1>1 DEF IsPart
<1>5. IsPart(S, b, j.input, first, Len(b))
  BY AskedIsPart
<1> HIDE DEF S, b, first, count, size
<1>6. n + k <= Len(b)
  BY <1>1, <1>2, <1>3, <1>4
<1>7. IsPart(S, piece, l, 0, k)
  <2>1. IsPart(S, SubSeq(l, 0 + 1, k), l, 0, k - 0)
    BY <1>4, PartIs
  <2>2. 0 + 1 = 1 /\ k - 0 = k
    BY <1>4
  <2> QED BY <2>1, <2>2
<1>8. IsPart(S, rest, l, k, Len(l) - k)
  BY <1>4, PartIs
<1> HIDE DEF piece, rest
<1>9. IsPart(S, piece, j.input, first + n, k)
  <2>1. IsPart(S, piece, j.input, first + n + 0, k)
    BY <1>1, <1>4, <1>7, PartOfPart
  <2>2. first + n + 0 = first + n
    BY <1>1, <1>2
  <2> QED BY <2>1, <2>2
<1>10. IsPart(S, piece, b, n, k)
  <2>1. n \in Nat
    BY <1>1
  <2> QED BY <1>5, <1>6, <1>9, <2>1, PartWithin
<1>11. Len(rest) = Len(l) - k /\ IsPart(S, rest, j.input, first + (n + k), Len(rest))
  <2>1. Len(rest) = Len(l) - k
    BY <1>8 DEF IsPart
  <2>2. k + (Len(l) - k) <= Len(l)
    BY <1>4
  <2>3. IsPart(S, rest, j.input, first + n + k, Len(l) - k)
    BY <1>1, <1>8, <2>2, PartOfPart
  <2>4. first + n + k = first + (n + k)
    BY <1>1, <1>2, <1>4
  <2> QED BY <2>1, <2>3, <2>4
<1>12. HasRead(j, rest, limit - k, n + k)
  <2>1. n + k \in 0..Len(b) /\ limit - k \in Nat
    BY <1>1, <1>4, <1>6
  <2>2. Len(rest) = IF first + (n + k) < size THEN size - (first + (n + k)) ELSE 0
    BY <1>1, <1>2, <1>4, <1>11
  <2>3. limit - k + (n + k) = limit + n
    BY <1>1, <1>4
  <2>4. limit = Len(l) => limit - k = Len(rest)
    BY <1>11
  <2>5. limit - k + (n + k) <= count
    BY <1>1, <2>3
  <2>6. limit - k + (n + k) = count \/ limit - k = Len(rest)
    BY <1>1, <2>3, <2>4
  <2> QED BY <1>11, <2>1, <2>2, <2>5, <2>6 DEF HasRead, S, b, first, count, size
<1> QED BY <1>10, <1>12 DEF S, b, piece, rest

LEMMA HasReadAll ==
    ASSUME NEW j, HexylJob(j), AsksFor(j), NEW l, NEW limit, NEW n, HasRead(j, l, limit, n),
           l = <<>> \/ limit = 0
    PROVE  n = Len(BytesAsked(j))
<1> DEFINE b == BytesAsked(j)
           first == j.means.first
           count == j.means.count
           size == Len(j.input)
<1>1. /\ n \in 0..Len(b) /\ limit \in Nat
      /\ Len(l) = IF first + n < size THEN size - (first + n) ELSE 0
      /\ limit + n <= count
      /\ limit + n = count \/ limit = Len(l)
  BY DEF HasRead
<1>2. first \in Nat /\ count \in Nat /\ size \in Nat /\ Len(b) \in Nat
  BY BytesAskedIs DEF AsksFor, HexylJob
<1>3. Len(b) = IF first >= size THEN 0
               ELSE IF first + count <= size THEN count ELSE size - first
  BY BytesAskedIs
<1>4. Len(l) = 0 \/ limit = 0
  OBVIOUS
<1> HIDE DEF b, first, count, size
<1>5. CASE Len(l) = 0
  <2>1. ~(first + n < size)
    BY <1>1, <1>2, <1>5
  <2> QED BY <1>1, <1>2, <1>3, <2>1 DEF b
<1>6. CASE limit = 0 /\ limit + n = count
  BY <1>1, <1>2, <1>3, <1>6 DEF b
<1> QED BY <1>1, <1>4, <1>5, <1>6

\* The bytes of a chunk.
ChunkLen(j, k) == IF k * j.width + j.width <= Len(BytesAsked(j)) THEN j.width
                  ELSE Len(BytesAsked(j)) - k * j.width

LEMMA ChunkIsPart ==
    ASSUME NEW j, HexylJob(j), AsksFor(j), NEW k, LinesFit(j, k)
    PROVE  /\ IsPart(BytesOf(j), ChunkOf(j, k + 1), BytesAsked(j), k * j.width, ChunkLen(j, k))
           /\ LinesFit(j, k + 1) => ChunkLen(j, k) = j.width
<1> DEFINE S == BytesOf(j)
           b == BytesAsked(j)
           w == j.width
           a == k * w
           c == ChunkOf(j, k + 1)
<1>1. /\ c \in Seq(S) /\ a \in Nat
      /\ Len(c) = IF a + w <= Len(b) THEN w ELSE Len(b) - a
      /\ \A i \in 1..Len(c) : c[i] = b[a + i]
  BY ChunkIs
<1>2. a <= Len(b) /\ k \in Nat
  BY DEF LinesFit
<1>3. w \in Nat \ {0} /\ Len(b) \in Nat
  BY BytesAskedIs DEF HexylJob
<1>4. (k + 1) * w = a + w
  BY <1>2, <1>3, TimesUp
<1>5. LinesFit(j, k + 1) => a + w <= Len(b)
  BY <1>4 DEF LinesFit
<1>6. ChunkLen(j, k) = IF a + w <= Len(b) THEN w ELSE Len(b) - a
  BY DEF ChunkLen
<1> HIDE DEF S, b, w, a, c
<1>7. ChunkLen(j, k) \in Nat
  BY <1>1, <1>2, <1>3, <1>6
<1>8. IsPart(S, c, b, a, ChunkLen(j, k))
  BY <1>1, <1>6, <1>7 DEF IsPart
<1> QED BY <1>5, <1>6, <1>8 DEF S, b, w, a, c

\* What is printed of a line is a line.
LEMMA RowIs ==
    ASSUME NEW j, HexylJob(j), NEW position \in Nat, NEW bytes \in Seq(BytesOf(j))
    PROVE  RowOf(j, position, bytes) \in PrintedLines(j)
<1>1. LittleEndian(bytes, j.group) \in Seq(BytesOf(j))
  BY OrderedByGroups DEF HexylJob
<1> QED BY <1>1 DEF RowOf, Line, PrintedLines, LineKinds

LEMMA MarkIs ==
    ASSUME NEW j, NEW kind \in LineKinds
    PROVE  Mark(kind) \in PrintedLines(j)
BY DEF Mark, Line, PrintedLines

LEMMA LineOfIs ==
    ASSUME NEW j, HexylJob(j), AsksFor(j), NEW k, LinesFit(j, k)
    PROVE  LineOf(j, k + 1) \in Seq(PrintedLines(j))
<1> DEFINE m == k + 1
           n == (m - 1) * j.width
           row == RowOf(j, j.means.position + n, ChunkOf(j, m))
           star == Mark("star")
           P == PrintedLines(j)
<1>1. k * j.width \in Nat /\ ChunkOf(j, m) \in Seq(BytesOf(j))
  BY ChunkIs
<1>2. m - 1 = k
  BY DEF LinesFit
<1>3. n \in Nat
  <2> HIDE DEF m
  <2> QED BY <1>1, <1>2
<1>4. j.means.position \in Nat
  BY DEF AsksFor
<1> HIDE DEF m, n
<1>5. j.means.position + n \in Nat
  BY <1>3, <1>4
<1>6. row \in P /\ star \in P
  <2>1. row \in P
    BY <1>1, <1>5, RowIs
  <2>2. star \in P
    BY MarkIs DEF LineKinds
  <2> QED BY <2>1, <2>2
<1>10. row = RowOf(j, j.means.position + (m - 1) * j.width, ChunkOf(j, m))
  BY DEF n
<1> HIDE DEF row
<1>7. LineOf(j, m) = <<row>> \/ LineOf(j, m) = <<>> \/ LineOf(j, m) = <<star>>
  <2>1. LineOf(j, m) = IF ~RepeatsAt(j, m) THEN <<row>>
                       ELSE IF RepeatsAt(j, m - 1) THEN <<>> ELSE <<star>>
    BY <1>10 DEF LineOf
  <2> HIDE DEF star
  <2> QED BY <2>1
<1> HIDE DEF star, P
<1>9. <<row>> \in Seq(P) /\ <<>> \in Seq(P) /\ <<star>> \in Seq(P)
  BY <1>6
<1>8. LineOf(j, m) \in Seq(P)
  BY <1>7, <1>9
<1> QED BY <1>8 DEF P, m

LEMMA FitsBefore ==
    ASSUME NEW j, HexylJob(j), AsksFor(j), NEW k, LinesFit(j, k), NEW i \in 0..k
    PROVE  LinesFit(j, i)
<1>1. k \in Nat /\ k * j.width <= Len(BytesAsked(j)) /\ j.width \in Nat \ {0}
  BY DEF LinesFit, HexylJob
<1>2. i \in Nat /\ i <= k
  BY <1>1
<1>3. i * j.width <= k * j.width /\ i * j.width \in Nat /\ k * j.width \in Nat
  BY <1>1, <1>2, TimesUp
<1>4. Len(BytesAsked(j)) \in Nat
  BY BytesAskedIs
<1> QED BY <1>1, <1>2, <1>3, <1>4 DEF LinesFit

LEMMA LinesAre ==
    ASSUME NEW j, HexylJob(j), AsksFor(j), NEW k, LinesFit(j, k)
    PROVE  /\ LinesTo(j, k) \in Seq(PrintedLines(j))
           /\ k = 0 => LinesTo(j, k) = <<>>
           /\ LinesFit(j, k + 1) => LinesTo(j, k + 1) = LinesTo(j, k) \o LineOf(j, k + 1)
<1> DEFINE P == PrintedLines(j)
           lines(n) == [i \in 1..n |-> LineOf(j, i)]
<1>1. k \in Nat
  BY DEF LinesFit
<1> HIDE DEF P
<1>2. ASSUME NEW i \in 1..k PROVE LineOf(j, i) \in Seq(P)
  <2>1. i - 1 \in 0..k /\ (i - 1) + 1 = i
    BY <1>1
  <2>2. LinesFit(j, i - 1)
    BY <2>1, FitsBefore
  <2>3. LineOf(j, (i - 1) + 1) \in Seq(P)
    BY <2>2, LineOfIs DEF P
  <2> QED BY <2>1, <2>3
<1>3. lines(k) \in Seq(Seq(P)) /\ Len(lines(k)) = k
  BY <1>1, <1>2
<1>4. LineOf(j, k + 1) \in Seq(P)
  BY LineOfIs DEF P
<1>5. lines(k + 1) \in Seq(Seq(P)) /\ Len(lines(k + 1)) = k + 1
  <2>1. \A i \in 1..k + 1 : LineOf(j, i) \in Seq(P)
    BY <1>1, <1>2, <1>4
  <2>2. k + 1 \in Nat
    BY <1>1
  <2> QED BY <2>1, <2>2
<1>6. \A i \in 1..k : lines(k + 1)[i] = lines(k)[i]
  BY <1>1
<1>7. lines(k + 1)[k + 1] = LineOf(j, k + 1)
  BY <1>1
<1>8. LinesTo(j, k) = FlattenSeq(lines(k)) /\ LinesTo(j, k + 1) = FlattenSeq(lines(k + 1))
  BY DEF LinesTo
<1> DEFINE f == lines(k)
           h == lines(k + 1)
<1>f. /\ f \in Seq(Seq(P)) /\ Len(f) = k /\ h \in Seq(Seq(P)) /\ Len(h) = k + 1
      /\ (\A i \in 1..k : h[i] = f[i]) /\ h[k + 1] = LineOf(j, k + 1)
  BY <1>3, <1>5, <1>6, <1>7
<1>h. LinesTo(j, k) = FlattenSeq(f) /\ LinesTo(j, k + 1) = FlattenSeq(h)
  BY <1>8
<1> HIDE DEF f, h
<1>9. FlattenSeq(f) \in Seq(P) /\ FlattenSeq(h) = FlattenSeq(f) \o h[Len(h)]
  BY <1>f, FlattenMore
<1>10. k = 0 => FlattenSeq(f) = <<>>
  BY <1>f, FlattenSeqIs
<1> QED BY <1>f, <1>h, <1>9, <1>10 DEF P

\* What the squeezer knows after k lines.
Squeezes(j, squeezer, byte, k) ==
    /\ squeezer \in {"disabled", "ignore", "print", "delete"}
    /\ squeezer = "disabled" <=> j.squeeze = FALSE
    /\ squeezer \in {"print", "delete"} => k >= 1 /\ ToSet(ChunkOf(j, k)) = {byte}
    /\ squeezer = "print" => ~RepeatsAt(j, k)
    /\ squeezer = "delete" => RepeatsAt(j, k)
    /\ squeezer = "ignore" => k = 0 \/ ~OneByte(ChunkOf(j, k))

\* Full lines of one byte are the same.
LEMMA OneByteChunks ==
    ASSUME NEW S, NEW b, NEW u, NEW v, NEW a, NEW e, NEW w, NEW c,
           IsPart(S, u, b, a, w), IsPart(S, v, b, e, w), ToSet(u) = {c}, ToSet(v) = {c}
    PROVE  u = v
<1>1. u \in Seq(S) /\ v \in Seq(S) /\ Len(u) = w /\ Len(v) = w
  BY DEF IsPart
<1>2. ToSet(u) = {u[i] : i \in 1..Len(u)} /\ ToSet(v) = {v[i] : i \in 1..Len(v)}
  BY <1>1, ElementsFinite
<1>3. \A i \in 1..Len(u) : u[i] = v[i]
  BY <1>1, <1>2
<1> QED BY <1>1, <1>3, SeqEqual

LEMMA SqueezeRepeats ==
    ASSUME NEW j, HexylJob(j), AsksFor(j), NEW q, NEW c, NEW k,
           Squeezes(j, q, c, k), LinesFit(j, k), LinesFit(j, k + 1),
           q \in {"print", "delete"}, ToSet(ChunkOf(j, k + 1)) = {c}
    PROVE  /\ LineOf(j, k + 1) = IF q = "delete" THEN <<>> ELSE <<Mark("star")>>
           /\ Squeezes(j, "delete", c, k + 1)
<1>1. k \in Nat /\ k >= 1 /\ ToSet(ChunkOf(j, k)) = {c} /\ j.squeeze # FALSE
  BY DEF Squeezes, LinesFit
<1>2. j.squeeze = TRUE
  BY <1>1 DEF HexylJob
<1>3. ChunkOf(j, k + 1) = ChunkOf(j, k)
  <2>1. k - 1 \in 0..k /\ (k - 1) + 1 = k
    BY <1>1
  <2>2. LinesFit(j, k - 1)
    BY <2>1, FitsBefore
  <2>3. /\ IsPart(BytesOf(j), ChunkOf(j, (k - 1) + 1), BytesAsked(j), (k - 1) * j.width, ChunkLen(j, k - 1))
        /\ LinesFit(j, (k - 1) + 1) => ChunkLen(j, k - 1) = j.width
    BY <2>2, ChunkIsPart
  <2>4. IsPart(BytesOf(j), ChunkOf(j, k), BytesAsked(j), (k - 1) * j.width, j.width)
    BY <2>1, <2>3
  <2>5. IsPart(BytesOf(j), ChunkOf(j, k + 1), BytesAsked(j), k * j.width, j.width)
    BY ChunkIsPart
  <2> QED BY <1>1, <2>4, <2>5, OneByteChunks
<1>4. RepeatsAt(j, k + 1)
  <2>1. OneByte(ChunkOf(j, k + 1))
    BY DEF OneByte
  <2>2. k + 1 >= 2 /\ (k + 1) - 1 = k
    BY <1>1
  <2>3. (k + 1) * j.width <= Len(BytesAsked(j))
    BY DEF LinesFit
  <2> QED BY <1>2, <1>3, <2>1, <2>2, <2>3 DEF RepeatsAt
<1>5. (k + 1) - 1 = k /\ k + 1 >= 1
  BY <1>1
<1>6. q = "delete" <=> RepeatsAt(j, k)
  BY DEF Squeezes
<1>7. LineOf(j, k + 1) = IF q = "delete" THEN <<>> ELSE <<Mark("star")>>
  BY <1>4, <1>5, <1>6 DEF LineOf
<1>8. Squeezes(j, "delete", c, k + 1)
  BY <1>2, <1>4, <1>5 DEF Squeezes
<1> QED BY <1>7, <1>8

LEMMA SqueezePrints ==
    ASSUME NEW j, HexylJob(j), AsksFor(j), NEW q, NEW c, NEW k,
           Squeezes(j, q, c, k), LinesFit(j, k), LinesFit(j, k + 1),
           ~(q \in {"print", "delete"} /\ ToSet(ChunkOf(j, k + 1)) = {c})
    PROVE  /\ LineOf(j, k + 1) = <<RowOf(j, j.means.position + k * j.width, ChunkOf(j, k + 1))>>
           /\ Squeezes(j, IF q = "disabled" THEN "disabled"
                          ELSE IF Cardinality(ToSet(ChunkOf(j, k + 1))) = 1 THEN "print" ELSE "ignore",
                       ChunkOf(j, k + 1)[1], k + 1)
<1> DEFINE line == ChunkOf(j, k + 1)
           p == IF q = "disabled" THEN "disabled"
                ELSE IF Cardinality(ToSet(line)) = 1 THEN "print" ELSE "ignore"
<1>1. k \in Nat /\ (k + 1) - 1 = k /\ k + 1 >= 1
  BY DEF LinesFit
<1>2. ~RepeatsAt(j, k + 1)
  <2> SUFFICES ASSUME RepeatsAt(j, k + 1) PROVE FALSE
    OBVIOUS
  <2>1. j.squeeze /\ k + 1 >= 2 /\ line = ChunkOf(j, k) /\ OneByte(line)
    BY <1>1 DEF RepeatsAt
  <2>2. q \in {"ignore", "print", "delete"} /\ k # 0
    BY <1>1, <2>1 DEF Squeezes
  <2>3. q # "ignore"
    BY <2>1, <2>2 DEF Squeezes
  <2>4. ToSet(ChunkOf(j, k)) = {c}
    BY <2>2, <2>3 DEF Squeezes
  <2> QED BY <2>1, <2>2, <2>3, <2>4
<1>3. line \in Seq(BytesOf(j)) /\ Len(line) = j.width /\ j.width \in Nat \ {0}
  BY ChunkIsPart DEF IsPart, HexylJob
<1> HIDE DEF line
<1>4. /\ ToSet(line) = {line[i] : i \in 1..Len(line)}
      /\ Cardinality(ToSet(line)) = 1 <=> OneByte(line)
  BY <1>3, ElementsFinite DEF OneByte
<1>5. OneByte(line) => ToSet(line) = {line[1]}
  <2>1. line[1] \in ToSet(line)
    BY <1>3, <1>4
  <2> QED BY <2>1 DEF OneByte
<1>6. LineOf(j, k + 1) = <<RowOf(j, j.means.position + k * j.width, line)>>
  BY <1>1, <1>2 DEF LineOf, line
<1>7. Squeezes(j, p, line[1], k + 1)
  <2>1. p \in {"disabled", "ignore", "print", "delete"} /\ p # "delete"
    OBVIOUS
  <2>2. p = "disabled" <=> j.squeeze = FALSE
    BY DEF Squeezes
  <2>3. p = "print" => OneByte(line)
    BY <1>4
  <2>4. p = "ignore" => ~OneByte(line)
    BY <1>4
  <2> HIDE DEF p
  <2> QED BY <1>1, <1>2, <1>5, <2>1, <2>2, <2>3, <2>4 DEF Squeezes, line
<1> QED BY <1>6, <1>7 DEF p, line

\* Where hexyl is in its listing: k lines are done, l is the input behind what
\* s.line holds of the next one.
Progress(j, l, s, k) ==
    /\ LinesFit(j, k) /\ s.idx = k * j.width
    /\ Len(s.line) <= j.width
    /\ HasRead(j, l, s.limit, k * j.width + Len(s.line))
    /\ IsPart(BytesOf(j), s.line, BytesAsked(j), k * j.width, Len(s.line))
    /\ s.display = j.means.position
    /\ s.out = IF k * j.width + Len(s.line) = 0 THEN <<>>
               ELSE <<Mark("header")>> \o LinesTo(j, k)
    /\ Squeezes(j, s.squeezer, s.byte, k)

LEMMA ConcatTypes ==
    ASSUME NEW P, NEW x \in Seq(P), NEW y \in Seq(P), NEW z \in Seq(P)
    PROVE  /\ x \o y \in Seq(P) /\ (x \o y) \o z = x \o (y \o z)
           /\ x \o <<>> = x /\ Len(x \o y) = Len(x) + Len(y)
OBVIOUS

LEMMA TwoLines ==
    ASSUME NEW x, NEW y
    PROVE  /\ <<x>> \o <<y>> = <<x, y>> /\ <<x>> \o <<>> = <<x>>
           /\ <<>> \o <<x, y>> = <<x, y>>
<1> DEFINE P == {x, y}
           a == <<x>>
           b == <<y>>
           c == <<x, y>>
<1>1. /\ a \in Seq(P) /\ Len(a) = 1 /\ a[1] = x
      /\ b \in Seq(P) /\ Len(b) = 1 /\ b[1] = y
      /\ c \in Seq(P) /\ Len(c) = 2 /\ c[1] = x /\ c[2] = y
      /\ <<>> \in Seq(P)
  OBVIOUS
<1> HIDE DEF P, a, b, c
<1>2. a \o <<>> = a /\ <<>> \o c = c
  BY <1>1
<1>3. a \o b = c
  <2> DEFINE t == a \o b
  <2>1. t \in Seq(P) /\ Len(t) = 2
        /\ \A i \in 1..2 : t[i] = IF i <= 1 THEN a[i] ELSE b[i - 1]
    BY <1>1, ConcatProperties
  <2> HIDE DEF t
  <2>2. \A i \in 1..Len(t) : t[i] = c[i]
    BY <1>1, <2>1
  <2>3. t = c
    BY <1>1, <2>1, <2>2, SeqEqual
  <2> QED BY <2>3 DEF t
<1> QED BY <1>2, <1>3 DEF a, b, c

\* What is printed before the next line.
LEMMA OutIs ==
    ASSUME NEW j, HexylJob(j), AsksFor(j), NEW k, LinesFit(j, k)
    PROVE  /\ <<Mark("header")>> \in Seq(PrintedLines(j))
           /\ <<Mark("header")>> \o LinesTo(j, k) \in Seq(PrintedLines(j))
           /\ <<Mark("header")>> \o LinesTo(j, k) # <<>>
<1> DEFINE P == PrintedLines(j)
           h == <<Mark("header")>>
           x == LinesTo(j, k)
<1>1. Mark("header") \in P
  BY MarkIs DEF LineKinds
<1> HIDE DEF P
<1>2. h \in Seq(P) /\ Len(h) = 1
  BY <1>1
<1>3. x \in Seq(P)
  BY LinesAre DEF P
<1> HIDE DEF h, x
<1>4. h \o x \in Seq(P) /\ Len(h \o x) = Len(h) + Len(x)
  BY <1>2, <1>3, ConcatProperties
<1>6. Len(x) \in Nat
  BY <1>3
<1>5. h \o x # <<>>
  BY <1>2, <1>4, <1>6
<1> QED BY <1>2, <1>4, <1>5 DEF P, h, x

\* A read of n bytes into the line.
ReadsInto(l, s, t, n) ==
    /\ t.line = s.line \o SubSeq(l, 1, n) /\ t.limit = s.limit - n
    /\ t.out = IF s.out = <<>> THEN Append(s.out, Mark("header")) ELSE s.out
    /\ t.idx = s.idx /\ t.display = s.display
    /\ t.squeezer = s.squeezer /\ t.byte = s.byte

LEMMA ReadProgress ==
    ASSUME NEW j, HexylJob(j), AsksFor(j), NEW l, NEW s, NEW k, Progress(j, l, s, k),
           NEW n \in 1..Len(l), n <= s.limit, Len(s.line) + n <= j.width,
           NEW t, ReadsInto(l, s, t, n)
    PROVE  /\ Progress(j, SubSeq(l, n + 1, Len(l)), t, k)
           /\ Len(t.line) = Len(s.line) + n
<1> DEFINE S == BytesOf(j)
           b == BytesAsked(j)
           w == j.width
           a == k * w
           m == Len(s.line)
           piece == SubSeq(l, 1, n)
           rest == SubSeq(l, n + 1, Len(l))
<1>1. /\ LinesFit(j, k) /\ s.idx = a /\ m <= w
      /\ HasRead(j, l, s.limit, a + m)
      /\ IsPart(S, s.line, b, a, m)
      /\ s.out = IF a + m = 0 THEN <<>> ELSE <<Mark("header")>> \o LinesTo(j, k)
  BY DEF Progress
<1>r. ReadsInto(l, s, t, n)
  OBVIOUS
<1>2. HasRead(j, rest, s.limit - n, a + m + n) /\ IsPart(S, piece, b, a + m, n)
  <2> HIDE DEF a, m
  <2> QED BY <1>1, HasReadMore
<1>3. a \in Nat /\ m \in Nat /\ w \in Nat \ {0} /\ k \in Nat
  <2>1. w \in Nat \ {0} /\ k \in Nat
    BY <1>1 DEF HexylJob, LinesFit
  <2>2. a \in Nat /\ m \in Nat
    <3> HIDE DEF a, m
    <3> QED BY <1>1 DEF IsPart
  <2> QED BY <2>1, <2>2
<1>4. IsPart(S, t.line, b, a, m + n) /\ Len(t.line) = m + n
  <2> HIDE DEF a, m, piece, b, S
  <2>1. t.line = s.line \o piece
    BY <1>r DEF ReadsInto, piece
  <2>2. IsPart(S, t.line, b, a, m + n)
    BY <1>1, <1>2, <2>1, PartsJoin
  <2> QED BY <2>2 DEF IsPart
<1>5. t.out = <<Mark("header")>> \o LinesTo(j, k)
  <2>1. CASE a + m = 0
    <3>1. k = 0
      <4> SUFFICES ASSUME k # 0 PROVE FALSE
        OBVIOUS
      <4>1. 0 \in Nat /\ 0 < k
        BY <1>3
      <4>2. 0 * w + w <= k * w /\ 0 * w \in Nat
        BY <1>3, <4>1, TimesUp
      <4>3. a = 0 /\ w >= 1
        <5> HIDE DEF a, m, w
        <5> QED BY <1>3, <2>1
      <4> DEFINE z == 0 * w
      <4>4. z + w <= a /\ z \in Nat
        BY <4>2
      <4> HIDE DEF z, a, w
      <4> QED BY <1>3, <4>3, <4>4
    <3>2. LinesTo(j, k) = <<>>
      BY <1>1, <3>1, LinesAre
    <3>3. s.out = <<>>
      BY <1>1, <2>1
    <3>4. t.out = <<Mark("header")>>
      BY <1>r, <3>3 DEF ReadsInto
    <3>5. <<Mark("header")>> \o <<>> = <<Mark("header")>>
      BY <1>1, <3>2, OutIs, ConcatTypes
    <3> QED BY <3>2, <3>4, <3>5
  <2>2. CASE a + m # 0
    <3>1. s.out = <<Mark("header")>> \o LinesTo(j, k)
      <4> HIDE DEF a, m
      <4> QED BY <1>1, <2>2
    <3>2. s.out # <<>>
      BY <1>1, <3>1, OutIs
    <3> QED BY <1>r, <3>1, <3>2 DEF ReadsInto
  <2> QED BY <2>1, <2>2
<1>6. a + (m + n) # 0 /\ a + m + n = a + (m + n) /\ m + n <= w
  <2> HIDE DEF a, m, w
  <2>1. m + n <= w
    BY DEF m, w
  <2> QED BY <1>3, <2>1
<1>7. Len(t.line) <= w /\ a + Len(t.line) # 0
      /\ HasRead(j, rest, t.limit, a + Len(t.line))
  BY <1>2, <1>4, <1>6, <1>r DEF ReadsInto
<1>8. IsPart(S, t.line, b, a, Len(t.line))
  BY <1>4
<1>9. /\ t.idx = a /\ t.display = j.means.position
      /\ Squeezes(j, t.squeezer, t.byte, k)
  BY <1>r DEF Progress, ReadsInto
<1> HIDE DEF rest, S, b
<1>10. Progress(j, rest, t, k)
  BY <1>1, <1>5, <1>7, <1>8, <1>9 DEF Progress, S, b
<1> QED BY <1>4, <1>10 DEF rest, m

\* A full line is the next chunk.
LEMMA FullLine ==
    ASSUME NEW j, HexylJob(j), AsksFor(j), NEW l, NEW s, NEW k, Progress(j, l, s, k)
    PROVE  /\ LinesFit(j, k)
           /\ Len(s.line) = j.width => LinesFit(j, k + 1) /\ s.line = ChunkOf(j, k + 1)
<1> DEFINE S == BytesOf(j)
           b == BytesAsked(j)
           w == j.width
           a == k * w
           m == Len(s.line)
<1>1. LinesFit(j, k) /\ HasRead(j, l, s.limit, a + m) /\ IsPart(S, s.line, b, a, m)
  BY DEF Progress
<1> SUFFICES ASSUME m = w PROVE LinesFit(j, k + 1) /\ s.line = ChunkOf(j, k + 1)
  BY <1>1
<1>2. k \in Nat /\ w \in Nat \ {0} /\ (k + 1) * w = a + w
  BY <1>1, TimesUp DEF LinesFit, HexylJob
<1>3. a + w <= Len(b)
  <2>1. a + m \in 0..Len(b)
    BY <1>1 DEF HasRead
  <2>2. Len(b) \in Nat
    BY BytesAskedIs
  <2> HIDE DEF a, m, b, w
  <2> QED BY <2>1, <2>2
<1>4. LinesFit(j, k + 1)
  BY <1>2, <1>3 DEF LinesFit
<1>5. IsPart(S, ChunkOf(j, k + 1), b, a, w)
  BY <1>1, <1>4, ChunkIsPart
<1>6. IsPart(S, s.line, b, a, w)
  BY <1>1
<1> HIDE DEF S, b, a, w
<1>7. s.line = ChunkOf(j, k + 1)
  BY <1>5, <1>6, SameParts
<1> QED BY <1>4, <1>7

\* The next line is begun.
LEMMA LineProgress ==
    ASSUME NEW j, HexylJob(j), AsksFor(j), NEW l, NEW s, NEW k, Progress(j, l, s, k),
           Len(s.line) = j.width,
           NEW t,
           t.line = <<>>, t.idx = s.idx + j.width, t.out = s.out \o LineOf(j, k + 1),
           Squeezes(j, t.squeezer, t.byte, k + 1),
           t.limit = s.limit, t.display = s.display
    PROVE  Progress(j, l, t, k + 1)
<1> DEFINE S == BytesOf(j)
           P == PrintedLines(j)
           b == BytesAsked(j)
           w == j.width
           a == k * w
           c == (k + 1) * w
           m == Len(s.line)
           h == <<Mark("header")>>
<1>1. /\ LinesFit(j, k) /\ s.idx = a /\ HasRead(j, l, s.limit, a + m)
      /\ s.display = j.means.position
      /\ s.out = IF a + m = 0 THEN <<>> ELSE h \o LinesTo(j, k)
  BY DEF Progress
<1>2. LinesFit(j, k + 1)
  BY FullLine
<1>3. k \in Nat /\ k + 1 \in Nat /\ w \in Nat \ {0} /\ c = a + w /\ a \in Nat /\ c \in Nat
  <2>1. k \in Nat /\ w \in Nat \ {0}
    BY <1>1 DEF LinesFit, HexylJob
  <2>2. a \in Nat /\ c = a + w
    BY <2>1, TimesUp
  <2> HIDE DEF a, c, w
  <2> QED BY <2>1, <2>2
<1>4. m = w
  OBVIOUS
<1>5. s.out = h \o LinesTo(j, k)
  <2>1. a + m # 0
    <3> HIDE DEF a, m, w
    <3> QED BY <1>3, <1>4
  <2> HIDE DEF a, m
  <2> QED BY <1>1, <2>1
<1>6. t.out = h \o LinesTo(j, k + 1)
  <2>1. /\ LinesTo(j, k) \in Seq(P)
        /\ LinesTo(j, k + 1) = LinesTo(j, k) \o LineOf(j, k + 1)
    BY <1>1, <1>2, LinesAre
  <2>2. LineOf(j, k + 1) \in Seq(P) /\ h \in Seq(P)
    BY <1>1, LineOfIs, OutIs
  <2> HIDE DEF h, P
  <2>3. (h \o LinesTo(j, k)) \o LineOf(j, k + 1) = h \o (LinesTo(j, k) \o LineOf(j, k + 1))
    BY <2>1, <2>2, ConcatTypes
  <2> QED BY <1>5, <2>1, <2>3
<1>7. Len(t.line) = 0 /\ c + 0 = c /\ c # 0
  <2> HIDE DEF a, c, w
  <2> QED BY <1>3
<1>8. HasRead(j, l, t.limit, c + Len(t.line))
  <2>1. a + m = c + Len(t.line)
    <3> HIDE DEF a, c, m, w
    <3> QED BY <1>3, <1>4, <1>7
  <2>2. HasRead(j, l, t.limit, a + m)
    BY <1>1
  <2> HIDE DEF a, c, m
  <2> QED BY <2>1, <2>2
<1>9. IsPart(S, t.line, b, c, Len(t.line))
  <2>1. t.line \in Seq(S) /\ Len(t.line) = 0
    OBVIOUS
  <2> HIDE DEF c, S
  <2> QED BY <1>3, <2>1 DEF IsPart
<1>10. t.idx = c /\ Len(t.line) <= w /\ t.display = j.means.position /\ c + Len(t.line) # 0
  <2> HIDE DEF a, c, w
  <2> QED BY <1>1, <1>3, <1>7 DEF w
<1> QED BY <1>2, <1>6, <1>8, <1>9, <1>10 DEF Progress

\* The end of the input.
Exhausts(l, s) == l = <<>> \/ s.limit = 0
LastLines(j, s, last) ==
    last = IF s.out = <<>> THEN <<Mark("header"), Mark("no content")>>
           ELSE IF s.line # <<>> \/ s.squeezer = "delete"
                THEN <<RowOf(j, s.idx + s.display, s.line)>>
           ELSE <<>>

LEMMA ListingDone ==
    ASSUME NEW j, HexylJob(j), AsksFor(j), NEW l, NEW s, NEW k, Progress(j, l, s, k),
           Len(s.line) < j.width, Exhausts(l, s), NEW last, LastLines(j, s, last)
    PROVE  s.out \o last \o <<Mark("footer")>> = ListingOf(j)
<1> DEFINE S == BytesOf(j)
           P == PrintedLines(j)
           b == BytesAsked(j)
           w == j.width
           a == k * w
           m == Len(s.line)
           h == <<Mark("header")>>
           f == <<Mark("footer")>>
           x == LinesTo(j, k)
           row == RowOf(j, s.idx + s.display, s.line)
<1>l. last = IF s.out = <<>> THEN <<Mark("header"), Mark("no content")>>
             ELSE IF s.line # <<>> \/ s.squeezer = "delete" THEN <<row>>
             ELSE <<>>
  BY DEF LastLines
<1> HIDE DEF row
<1>1. /\ LinesFit(j, k) /\ s.idx = a /\ HasRead(j, l, s.limit, a + m)
      /\ IsPart(S, s.line, b, a, m)
      /\ s.display = j.means.position
      /\ s.out = IF a + m = 0 THEN <<>> ELSE h \o x
      /\ Squeezes(j, s.squeezer, s.byte, k)
  BY DEF Progress
<1>2. k \in Nat /\ w \in Nat \ {0} /\ a \in Nat /\ m \in Nat /\ m < w /\ Len(b) \in Nat
  <2>1. k \in Nat /\ w \in Nat \ {0} /\ a \in Nat
    BY <1>1, TimesUp DEF LinesFit, HexylJob
  <2>2. m \in Nat
    <3> HIDE DEF m
    <3> QED BY <1>1 DEF IsPart
  <2>3. Len(b) \in Nat
    BY BytesAskedIs
  <2> QED BY <2>1, <2>2, <2>3
<1>3. a + m = Len(b)
  <2> HIDE DEF a, m
  <2> QED BY <1>1, HasReadAll DEF Exhausts
<1>4. Len(b) \div w = k
  <2>1. k * w <= Len(b) /\ Len(b) < k * w + w
    <3>1. a <= Len(b) /\ Len(b) < a + w
      <4> HIDE DEF a, m, b, w
      <4> QED BY <1>2, <1>3
    <3> QED BY <3>1
  <2> HIDE DEF b, w
  <2> QED BY <1>2, <2>1, DivBetween
<1>5. IsPart(S, ChunkOf(j, k + 1), b, a, m)
  <2>1. IsPart(S, ChunkOf(j, k + 1), b, a, ChunkLen(j, k))
    BY <1>1, ChunkIsPart
  <2>2. ChunkLen(j, k) = IF a + w <= Len(b) THEN w ELSE Len(b) - a
    BY DEF ChunkLen
  <2>3. ChunkLen(j, k) = m
    <3> HIDE DEF a, m, b, w
    <3> QED BY <1>2, <1>3, <2>2
  <2> QED BY <2>1, <2>3
<1>6. s.line = ChunkOf(j, k + 1)
  <2> HIDE DEF S, b, a, m
  <2> QED BY <1>1, <1>5, SameParts
<1>7. row = RowOf(j, j.means.position + k * w, ChunkOf(j, k + 1))
  <2>1. a + j.means.position = j.means.position + a
    <3>1. j.means.position \in Nat
      BY DEF AsksFor
    <3> HIDE DEF a
    <3> QED BY <1>2, <3>1
  <2> HIDE DEF w
  <2> QED BY <1>1, <1>6, <2>1 DEF w, row
<1>8. x \in Seq(P) /\ h \in Seq(P) /\ (k = 0 => x = <<>>) /\ h \o x # <<>> /\ h \o x \in Seq(P)
  BY <1>1, LinesAre, OutIs
<1>9. Mark("footer") \in P /\ Mark("no content") \in P /\ row \in P
  <2>1. Mark("footer") \in P /\ Mark("no content") \in P
    BY MarkIs DEF LineKinds
  <2>2. j.means.position + k * w \in Nat
    <3>1. j.means.position \in Nat
      BY DEF AsksFor
    <3> HIDE DEF w
    <3> QED BY <1>2, <3>1 DEF a
  <2>3. ChunkOf(j, k + 1) \in Seq(BytesOf(j))
    BY <1>1, ChunkIs
  <2>4. row \in P
    BY <1>7, <2>2, <2>3, RowIs
  <2> QED BY <2>1, <2>4
<1>10. ListingOf(j) = h \o x \o LastOf(j, k) \o f
  BY <1>4 DEF ListingOf
<1>11. CASE a + m = 0
  <2>1. a = 0 /\ m = 0 /\ Len(b) = 0
    <3> HIDE DEF a, m, b
    <3> QED BY <1>2, <1>3, <1>11
  <2>2. b = <<>>
    <3>1. b \in Seq(S)
      BY BytesAskedIs
    <3> HIDE DEF b
    <3> QED BY <2>1, <3>1
  <2>3. k = 0
    <3> SUFFICES ASSUME k # 0 PROVE FALSE
      OBVIOUS
    <3> DEFINE z == 0 * w
    <3>1. z + w <= a /\ z \in Nat
      <4>1. 0 \in Nat /\ 0 < k
        BY <1>2
      <4>2. 0 * w + w <= k * w /\ 0 * w \in Nat
        BY <1>2, <4>1, TimesUp
      <4> QED BY <4>2
    <3> HIDE DEF z, a, w
    <3> QED BY <1>2, <2>1, <3>1
  <2>4. x = <<>> /\ s.out = <<>>
    BY <1>1, <1>8, <1>11, <2>3
  <2>5. LastOf(j, k) = <<Mark("no content")>>
    BY <2>2 DEF LastOf
  <2>6. last = <<Mark("header"), Mark("no content")>>
    BY <1>l, <2>4
  <2>7. h \o <<>> = h /\ h \o <<Mark("no content")>> = last /\ <<>> \o last = last
    BY <2>6, TwoLines
  <2> HIDE DEF h, x, f
  <2> QED BY <1>10, <2>4, <2>5, <2>7 DEF f
<1>12. CASE a + m # 0
  <2>1. Len(b) # 0
    <3> HIDE DEF a, m, b
    <3> QED BY <1>3, <1>12
  <2>2. b # <<>>
    BY <2>1
  <2>3. s.out = h \o x /\ s.out # <<>>
    <3>1. s.out = h \o x
      <4> HIDE DEF a, m, h, x
      <4> QED BY <1>1, <1>12
    <3> QED BY <1>8, <3>1
  <2>4. s.line # <<>> <=> Len(b) > k * w
    <3>1. s.line # <<>> <=> m # 0
      <4>1. s.line \in Seq(S)
        BY <1>1 DEF IsPart
      <4> QED BY <4>1
    <3>2. m # 0 <=> Len(b) > a
      <4> HIDE DEF a, m, b
      <4> QED BY <1>2, <1>3
    <3> QED BY <3>1, <3>2
  <2>5. s.squeezer = "delete" <=> RepeatsAt(j, k)
    <3>1. s.squeezer = "delete" => RepeatsAt(j, k)
      BY <1>1 DEF Squeezes
    <3>2. ASSUME RepeatsAt(j, k) PROVE s.squeezer = "delete"
      <4>1. j.squeeze /\ k >= 2 /\ OneByte(ChunkOf(j, k))
        BY <3>2 DEF RepeatsAt
      <4>2. s.squeezer # "disabled" /\ s.squeezer # "print"
        BY <1>1, <3>2, <4>1 DEF Squeezes
      <4>3. s.squeezer # "ignore"
        BY <1>1, <1>2, <4>1 DEF Squeezes
      <4> QED BY <1>1, <4>2, <4>3 DEF Squeezes
    <3> QED BY <3>1, <3>2
  <2>6. LastOf(j, k) = last
    <3>1. LastOf(j, k) = IF Len(b) > k * w \/ RepeatsAt(j, k) THEN <<row>> ELSE <<>>
      BY <1>7, <2>2 DEF LastOf
    <3>2. last = IF s.line # <<>> \/ s.squeezer = "delete" THEN <<row>> ELSE <<>>
      BY <1>l, <2>3
    <3> QED BY <2>4, <2>5, <3>1, <3>2
  <2> QED BY <1>10, <2>3, <2>6
<1> QED BY <1>11, <1>12

\* The listing of the property, in the terms of the invariant.
LEMMA ListingIs ==
    ASSUME HexylJob(job), AsksFor(job)
    PROVE  Listing(job.means.first, job.means.count, job.means.position) = ListingOf(job)
<1> DEFINE S == BytesOf(job)
           bytes == BytesAsked(job)
           w == job.width
           full == Len(bytes) \div w
           position == job.means.position
           chunk(i) == ChunkOf(job, i)
           order(line) == IF job.little THEN ReversedGroups(line, job.group) ELSE line
           row(i) == <<Line("row", position + (i - 1) * w, order(chunk(i)), chunk(i))>>
           again(i) == /\ job.squeeze /\ i \in 2..full
                       /\ chunk(i) = chunk(i - 1) /\ Cardinality(ToSet(chunk(i))) = 1
           lines == [i \in 1..full |-> IF ~again(i) THEN row(i)
                                       ELSE IF again(i - 1) THEN <<>>
                                       ELSE <<Mark("star")>>]
           last == CASE bytes = <<>> -> <<Mark("no content")>>
                     [] Len(bytes) > full * w \/ again(full) -> row(full + 1)
                     [] OTHER -> <<>>
<1>1. Listing(job.means.first, job.means.count, job.means.position)
        = <<Mark("header")>> \o FlattenSeq(lines) \o last \o <<Mark("footer")>>
  BY DEF Listing, BytesAsked, ChunkOf, ReversedGroups, GroupsOf
<1>2. Len(bytes) \in Nat /\ w \in Nat \ {0}
  BY BytesAskedIs DEF HexylJob
<1>3. /\ full \in Nat /\ full * w <= Len(bytes) /\ Len(bytes) < full * w + w
      /\ LinesFit(job, full)
  <2> DEFINE L == Len(bytes)
  <2> HIDE DEF L, w
  <2>1. L \div w \in Nat /\ (L \div w) * w <= L /\ L < (L \div w) * w + w
    BY <1>2, DivIs DEF L
  <2> QED BY <2>1 DEF L, LinesFit, w
<1> HIDE DEF full
<1>4. \A i \in 0..full : chunk(i + 1) \in Seq(S) /\ LinesFit(job, i)
  <2> SUFFICES ASSUME NEW i \in 0..full PROVE chunk(i + 1) \in Seq(S) /\ LinesFit(job, i)
    OBVIOUS
  <2>1. LinesFit(job, i)
    BY <1>3, FitsBefore
  <2> QED BY <2>1, ChunkIs
<1>5. \A i \in 1..full + 1 : chunk(i) \in Seq(S)
  <2> SUFFICES ASSUME NEW i \in 1..full + 1 PROVE chunk(i) \in Seq(S)
    OBVIOUS
  <2>1. i - 1 \in 0..full /\ (i - 1) + 1 = i
    BY <1>3
  <2> HIDE DEF chunk
  <2>2. chunk((i - 1) + 1) \in Seq(S)
    BY <1>4, <2>1
  <2> QED BY <2>1, <2>2
<1>6. \A i \in 1..full + 1 : row(i) = <<RowOf(job, position + (i - 1) * w, chunk(i))>>
  <2> SUFFICES ASSUME NEW i \in 1..full + 1
               PROVE  row(i) = <<RowOf(job, position + (i - 1) * w, chunk(i))>>
    OBVIOUS
  <2> DEFINE c == chunk(i)
  <2>1. c \in Seq(S)
    BY <1>5
  <2> HIDE DEF c
  <2>2. order(c) = IF job.little THEN LittleEndian(c, job.group) ELSE c
    <3>1. ReversedGroups(c, job.group) = LittleEndian(c, job.group)
      BY <2>1, OrderedByGroups DEF HexylJob
    <3> QED BY <3>1
  <2> HIDE DEF order
  <2> QED BY <2>2 DEF RowOf, c
<1>7. \A i \in 0..full : again(i) <=> RepeatsAt(job, i)
  <2> SUFFICES ASSUME NEW i \in 0..full PROVE again(i) <=> RepeatsAt(job, i)
    OBVIOUS
  <2>1. i \in 2..full <=> i >= 2
    BY <1>3
  <2>2. i * w <= Len(bytes)
    BY <1>4 DEF LinesFit
  <2>3. CASE i >= 2
    <3>1. i \in 1..full + 1
      BY <1>3, <2>3
    <3> DEFINE c == chunk(i)
    <3>2. c \in Seq(S)
      BY <1>5, <3>1
    <3> HIDE DEF c
    <3>3. Cardinality(ToSet(c)) = 1 <=> OneByte(c)
      BY <3>2, ElementsFinite DEF OneByte
    <3> QED BY <2>1, <2>2, <2>3, <3>3 DEF RepeatsAt, c
  <2>4. CASE ~(i >= 2)
    <3>1. ~again(i)
      BY <2>1, <2>4
    <3>2. ~RepeatsAt(job, i)
      BY <2>4 DEF RepeatsAt
    <3> QED BY <3>1, <3>2
  <2> QED BY <2>3, <2>4
<1> HIDE DEF again, row, chunk
<1>8. lines = [i \in 1..full |-> LineOf(job, i)]
  <2> SUFFICES ASSUME NEW i \in 1..full
               PROVE  (IF ~again(i) THEN row(i)
                       ELSE IF again(i - 1) THEN <<>> ELSE <<Mark("star")>>) = LineOf(job, i)
    BY <1>3
  <2>1. i \in 0..full /\ i - 1 \in 0..full /\ i \in 1..full + 1
    BY <1>3
  <2>2. again(i) <=> RepeatsAt(job, i)
    BY <1>7, <2>1
  <2>3. again(i - 1) <=> RepeatsAt(job, i - 1)
    BY <1>7, <2>1
  <2>4. row(i) = <<RowOf(job, position + (i - 1) * w, ChunkOf(job, i))>>
    BY <1>6, <2>1 DEF chunk
  <2> QED BY <2>2, <2>3, <2>4 DEF LineOf
<1>9. last = LastOf(job, full)
  <2>1. again(full) <=> RepeatsAt(job, full)
    BY <1>3, <1>7
  <2>2. full + 1 \in 1..full + 1 /\ (full + 1) - 1 = full
    BY <1>3
  <2>3. row(full + 1) = <<RowOf(job, position + full * w, ChunkOf(job, full + 1))>>
    <3>1. row(full + 1) = <<RowOf(job, position + ((full + 1) - 1) * w, chunk(full + 1))>>
      BY <1>6, <2>2
    <3> QED BY <2>2, <3>1 DEF chunk
  <2>4. CASE bytes = <<>>
    <3>1. Len(bytes) = 0
      BY <2>4
    <3>2. full = 0
      <4>1. 0 * w <= Len(bytes) /\ Len(bytes) < 0 * w + w
        <5> HIDE DEF w
        <5> QED BY <1>2, <3>1
      <4>2. 0 \in Nat
        OBVIOUS
      <4>3. Len(bytes) \div w = 0
        <5> DEFINE L == Len(bytes)
        <5> HIDE DEF L, w
        <5> QED BY <1>2, <4>1, <4>2, DivBetween DEF L
      <4> QED BY <4>3 DEF full
    <3>3. ~again(full)
      BY <1>3, <3>2 DEF again
    <3>4. ~(Len(bytes) > full * w)
      <4>1. full * w \in Nat
        BY <1>2, <1>3, TimesUp
      <4> DEFINE z == full * w
                 L == Len(bytes)
      <4> HIDE DEF z, L
      <4>2. ~(L > z)
        BY <3>1, <4>1 DEF L, z
      <4> QED BY <4>2 DEF L, z
    <3>5. last = <<Mark("no content")>>
      BY <2>4, <3>3, <3>4
    <3> QED BY <2>4, <3>5 DEF LastOf
  <2>5. CASE bytes # <<>>
    <3>1. last = IF Len(bytes) > full * w \/ RepeatsAt(job, full) THEN row(full + 1) ELSE <<>>
      BY <2>1, <2>5
    <3> QED BY <2>3, <2>5, <3>1 DEF LastOf
  <2> QED BY <2>4, <2>5
<1>10. FlattenSeq(lines) = LinesTo(job, full)
  BY <1>8 DEF LinesTo
<1>11. ListingOf(job) = <<Mark("header")>> \o LinesTo(job, full) \o LastOf(job, full)
                        \o <<Mark("footer")>>
  BY DEF ListingOf, full
<1> QED BY <1>1, <1>9, <1>10, <1>11

-----------------------------------------------------------------------------
\* The C array after n bytes.
CellOf(j, i) == Line(IF (i - 1) % IncludeRow # 0 THEN "same row"
                     ELSE IF i > 1 THEN "new row" ELSE "row",
                     0, <<BytesAsked(j)[i]>>, <<>>)
ArrayHead(j) == IF j.include = "file" THEN <<Mark("array")>> ELSE <<>>
CellsTo(j, n) == [i \in 1..n |-> CellOf(j, i)]
ArrayOf(j) ==
    LET n == Len(BytesAsked(j))
    IN  IF j.include = "stdin" THEN CellsTo(j, n)
        ELSE <<Mark("array")>> \o CellsTo(j, n) \o <<Line("total", n, <<>>, <<>>)>>

LEMMA ArrayIs ==
    ASSUME HexylJob(job), AsksFor(job)
    PROVE  CArray(job.means.first, job.means.count) = ArrayOf(job)
<1> DEFINE bytes == BytesAsked(job)
           cells == [i \in DOMAIN bytes |-> CellOf(job, i)]
<1>1. CArray(job.means.first, job.means.count)
        = IF job.include = "stdin" THEN cells
          ELSE <<Mark("array")>> \o cells \o <<Line("total", Len(bytes), <<>>, <<>>)>>
  BY DEF CArray, BytesAsked, CellOf
<1>2. bytes \in Seq(BytesOf(job))
  BY BytesAskedIs
<1> HIDE DEF bytes
<1>3. DOMAIN bytes = 1..Len(bytes)
  BY <1>2
<1>4. cells = CellsTo(job, Len(bytes))
  BY <1>3 DEF CellsTo
<1> QED BY <1>1, <1>4 DEF ArrayOf, bytes

\* The C array so far.
Including(j, l, s) ==
    /\ HasRead(j, l, s.limit, s.total)
    /\ s.out = ArrayHead(j) \o CellsTo(j, s.total)

LEMMA CellIs ==
    ASSUME NEW j, NEW i \in Nat, NEW byte, byte = BytesAsked(j)[i + 1]
    PROVE  IncludeByte(i, byte) = CellOf(j, i + 1)
<1>1. i = 0 => i % IncludeRow = 0
  BY HexylAssumption
<1>2. (i + 1) - 1 = i /\ (i + 1 > 1 <=> i > 0) /\ (i = 0 \/ i > 0) /\ ~(i = 0 /\ i > 0)
  OBVIOUS
<1> DEFINE m == i + 1
           r == i % IncludeRow
<1>3. m - 1 = i /\ (m > 1 <=> i > 0)
  BY <1>2
<1> HIDE DEF m
<1>4. CellOf(j, m) = Line(IF r # 0 THEN "same row" ELSE IF i > 0 THEN "new row" ELSE "row",
                          0, <<byte>>, <<>>)
  BY <1>3 DEF CellOf, m
<1>5. IncludeByte(i, byte) = Line(CASE r # 0 -> "same row" [] r = 0 /\ i > 0 -> "new row"
                                    [] i = 0 -> "row", 0, <<byte>>, <<>>)
  BY DEF IncludeByte
<1> HIDE DEF r
<1>6. (CASE r # 0 -> "same row" [] r = 0 /\ i > 0 -> "new row" [] i = 0 -> "row")
        = (IF r # 0 THEN "same row" ELSE IF i > 0 THEN "new row" ELSE "row")
  BY <1>1, <1>2 DEF r
<1> QED BY <1>4, <1>5, <1>6 DEF m

LEMMA CellTypes ==
    ASSUME NEW j, NEW n \in Nat
    PROVE  /\ CellsTo(j, n) \in Seq({CellOf(j, i) : i \in Nat}) /\ Len(CellsTo(j, n)) = n
           /\ \A i \in 1..n : CellsTo(j, n)[i] = CellOf(j, i)
BY DEF CellsTo

\* A read of k bytes adds a cell for each.
AddsCells(l, s, t, k) ==
    /\ t.limit = s.limit - k /\ t.total = s.total + k
    /\ t.out = s.out \o [i \in 1..k |-> IncludeByte(s.total + i - 1, SubSeq(l, 1, k)[i])]

LEMMA IncludeMore ==
    ASSUME NEW j, HexylJob(j), AsksFor(j), NEW l, NEW s, Including(j, l, s),
           NEW k \in 1..Len(l), k <= s.limit, NEW t, AddsCells(l, s, t, k)
    PROVE  Including(j, SubSeq(l, k + 1, Len(l)), t)
<1> DEFINE n == s.total
           b == BytesAsked(j)
           piece == SubSeq(l, 1, k)
           more == [i \in 1..k |-> IncludeByte(n + i - 1, piece[i])]
           P == {CellOf(j, i) : i \in Nat}
           head == ArrayHead(j)
<1>1. HasRead(j, l, s.limit, n) /\ s.out = head \o CellsTo(j, n)
  BY DEF Including
<1>t. t.limit = s.limit - k /\ t.total = n + k /\ t.out = s.out \o more
  BY DEF AddsCells
<1>2. HasRead(j, SubSeq(l, k + 1, Len(l)), t.limit, n + k) /\ IsPart(BytesOf(j), piece, b, n, k)
  BY <1>1, <1>t, HasReadMore
<1>3. n \in Nat /\ k \in Nat /\ n + k \in Nat
  BY <1>2 DEF IsPart
<1>4. \A i \in 1..k : piece[i] = b[n + i]
  BY <1>2 DEF IsPart
<1> HIDE DEF piece, n
<1>5. ASSUME NEW i \in 1..k PROVE more[i] = CellOf(j, n + i) /\ more[i] \in P
  <2> DEFINE m == n + i - 1
  <2>1. m \in Nat /\ m + 1 = n + i /\ n + i \in Nat
    BY <1>3
  <2>2. more[i] = IncludeByte(m, piece[i])
    OBVIOUS
  <2> HIDE DEF m, more
  <2>3. piece[i] = b[m + 1]
    BY <1>4, <2>1
  <2>4. IncludeByte(m, piece[i]) = CellOf(j, m + 1)
    BY <2>1, <2>3, CellIs
  <2>5. more[i] = CellOf(j, n + i)
    BY <2>1, <2>2, <2>4
  <2> QED BY <2>1, <2>5
<1>6. more \in Seq(P) /\ Len(more) = k
  <2>1. \A i \in 1..k : IncludeByte(n + i - 1, piece[i]) \in P
    BY <1>5
  <2> HIDE DEF P
  <2> QED BY <1>3, <2>1
<1> HIDE DEF more
<1>7. CellsTo(j, n) \in Seq(P) /\ Len(CellsTo(j, n)) = n
      /\ \A i \in 1..n : CellsTo(j, n)[i] = CellOf(j, i)
  BY <1>3, CellTypes
<1>8. CellsTo(j, n + k) \in Seq(P) /\ Len(CellsTo(j, n + k)) = n + k
      /\ \A i \in 1..n + k : CellsTo(j, n + k)[i] = CellOf(j, i)
  BY <1>3, CellTypes
<1> DEFINE u == CellsTo(j, n)
           v == CellsTo(j, n + k)
           z == u \o more
<1> HIDE DEF P, u, v
<1>9. z \in Seq(P) /\ Len(z) = n + k
      /\ \A i \in 1..n + k : z[i] = IF i <= n THEN u[i] ELSE more[i - n]
  <2>1. u \in Seq(P) /\ Len(u) = n
    BY <1>7 DEF u
  <2> QED BY <1>6, <2>1, ConcatProperties
<1> HIDE DEF z
<1>10. \A i \in 1..Len(z) : z[i] = v[i]
  <2> SUFFICES ASSUME NEW i \in 1..n + k PROVE z[i] = v[i]
    BY <1>9
  <2>1. v[i] = CellOf(j, i)
    BY <1>8 DEF v
  <2>2. CASE i <= n
    <3>1. u[i] = CellOf(j, i)
      BY <1>3, <1>7, <2>2 DEF u
    <3> QED BY <1>9, <2>1, <2>2, <3>1
  <2>3. CASE ~(i <= n)
    <3>1. i - n \in 1..k /\ n + (i - n) = i
      BY <1>3, <2>3
    <3>2. more[i - n] = CellOf(j, n + (i - n))
      BY <1>5, <3>1
    <3> QED BY <1>9, <2>1, <2>3, <3>1, <3>2
  <2> QED BY <2>2, <2>3
<1>11. z = v
  BY <1>8, <1>9, <1>10, SeqEqual DEF v
<1>12. t.out = head \o v
  <2>1. t.out = (head \o u) \o more
    BY <1>1, <1>t DEF u
  <2> DEFINE Q == P \cup {Mark("array")}
  <2>2. head \in Seq(Q) /\ u \in Seq(Q) /\ more \in Seq(Q)
    <3>1. u \in Seq(P)
      BY <1>7 DEF u
    <3>2. P \subseteq Q
      OBVIOUS
    <3>3. u \in Seq(Q) /\ more \in Seq(Q)
      <4> HIDE DEF Q
      <4> QED BY <1>6, <3>1, <3>2
    <3>4. head \in Seq(Q)
      <4> DEFINE mark == Mark("array")
      <4>1. head = <<mark>> \/ head = <<>>
        BY DEF ArrayHead
      <4>2. mark \in Q
        OBVIOUS
      <4> HIDE DEF mark, head, Q
      <4>3. <<mark>> \in Seq(Q) /\ <<>> \in Seq(Q)
        BY <4>2
      <4> QED BY <4>1, <4>3
    <3> QED BY <3>3, <3>4
  <2> HIDE DEF Q, head
  <2>3. (head \o u) \o more = head \o (u \o more)
    BY <2>2, ConcatTypes
  <2> QED BY <1>11, <2>1, <2>3 DEF z
<1> HIDE DEF head
<1> QED BY <1>2, <1>12, <1>t DEF Including, head, v

LEMMA IncludeDone ==
    ASSUME NEW j, HexylJob(j), AsksFor(j), NEW l, NEW s, Including(j, l, s), Exhausts(l, s),
           j.include # "off"
    PROVE  (IF j.include = "stdin" THEN s.out
            ELSE Append(s.out, Line("total", s.total, <<>>, <<>>))) = ArrayOf(j)
<1> DEFINE n == s.total
           b == BytesAsked(j)
           f == Line("total", n, <<>>, <<>>)
           c == CellsTo(j, n)
           h == Mark("array")
<1>1. HasRead(j, l, s.limit, n) /\ s.out = ArrayHead(j) \o c
  BY DEF Including
<1>2. n = Len(b)
  BY <1>1, HasReadAll DEF Exhausts
<1>3. n \in Nat
  BY <1>2, BytesAskedIs
<1>4. c \in Seq({CellOf(j, i) : i \in Nat})
  BY <1>3, CellTypes
<1>5. j.include \in {"stdin", "file"}
  BY DEF HexylJob
<1>6. CASE j.include = "stdin"
  <2>1. s.out = <<>> \o c
    BY <1>1, <1>6 DEF ArrayHead
  <2> HIDE DEF c
  <2>2. <<>> \o c = c
    BY <1>4
  <2> QED BY <1>2, <1>6, <2>1, <2>2 DEF ArrayOf, c
<1>7. CASE j.include = "file"
  <2>1. s.out = <<h>> \o c
    BY <1>1, <1>7 DEF ArrayHead
  <2> DEFINE Q == {CellOf(j, i) : i \in Nat} \cup {h, f}
  <2>2. c \in Seq(Q) /\ <<h>> \in Seq(Q) /\ f \in Q
    <3>1. {CellOf(j, i) : i \in Nat} \subseteq Q /\ h \in Q /\ f \in Q
      OBVIOUS
    <3> DEFINE R == {CellOf(j, i) : i \in Nat}
    <3> HIDE DEF Q, R, h, f, c
    <3>2. c \in Seq(Q)
      BY <1>4, <3>1 DEF R
    <3> QED BY <3>1, <3>2
  <2> HIDE DEF Q, h, f, c
  <2> DEFINE y == <<h>> \o c
  <2>3. y \in Seq(Q)
    BY <2>2, ConcatTypes
  <2> HIDE DEF y
  <2>4. Append(y, f) = y \o <<f>>
    BY <2>2, <2>3
  <2>5. ArrayOf(j) = y \o <<f>>
    BY <1>2, <1>7 DEF ArrayOf, y, h, c, f
  <2> QED BY <1>7, <2>1, <2>4, <2>5 DEF y, f
<1> QED BY <1>5, <1>6, <1>7

\* The job of hexyl: its texts, and what they mean.
JobIInv ==
    /\ job.tool = "hexyl" /\ HexylJob(job) /\ job.means = Meaning
    /\ \E text : job.skip \in {{}, {text}}
    /\ \E text : job.length \in {{}, {text}}

LEMMA NumbersAre ==
    ASSUME NEW text, NEW radix
    PROVE  Number(text, radix) \subseteq Nat
<1> DEFINE value == FoldLeft(LAMBDA sum, c : radix * sum + Digit[c], 0, text)
           bad == text = <<>> \/ ~(ToSet(text) \subseteq DOMAIN Digit)
<1>1. Number(text, radix) = IF bad \/ value \notin 0..MaxCount THEN {} ELSE {value}
  BY DEF Number
<1> HIDE DEF value, bad
<1> QED BY <1>1, HexylAssumption

LEMMA UnitsAre ==
    ASSUME NEW text, NEW block, block \subseteq Nat
    PROVE  NumberAndUnit(text, block) \subseteq Nat
<1> DEFINE n == Max({i \in 0..Len(text) : ToSet(SubSeq(text, 1, i)) \subseteq DOMAIN Digit})
           unit == SubSeq(text, n + 1, Len(text))
           bytes == CASE unit = <<>> -> {1}
                      [] unit = <<"kib">> -> {Kibi}
                      [] unit = <<"block">> -> block
                      [] OTHER -> {}
           numbers == Number(SubSeq(text, 1, n), 10)
<1>1. NumberAndUnit(text, block) = {c \in {k * u : k \in numbers, u \in bytes} : c <= MaxCount}
  BY DEF NumberAndUnit
<1>2. numbers \subseteq Nat
  BY NumbersAre
<1> HIDE DEF unit, numbers
<1>3. bytes = {1} \/ bytes = {Kibi} \/ bytes = block \/ bytes = {}
  <2>1. CASE unit = <<>>
    <3>1. unit # <<"kib">> /\ unit # <<"block">>
      BY <2>1
    <3> QED BY <2>1, <3>1
  <2>2. CASE unit = <<"kib">>
    <3>1. unit # <<>> /\ unit # <<"block">>
      BY <2>2
    <3> QED BY <2>2, <3>1
  <2>3. CASE unit = <<"block">>
    <3>1. unit # <<>> /\ unit # <<"kib">>
      BY <2>3
    <3> QED BY <2>3, <3>1
  <2>4. CASE unit # <<>> /\ unit # <<"kib">> /\ unit # <<"block">>
    BY <2>4
  <2> QED BY <2>1, <2>2, <2>3, <2>4
<1>4. bytes \subseteq Nat
  BY <1>3, HexylAssumption
<1> HIDE DEF bytes
<1>5. \A k \in numbers, u \in bytes : k * u \in Nat
  <2> SUFFICES ASSUME NEW k \in numbers, NEW u \in bytes PROVE k * u \in Nat
    OBVIOUS
  <2>1. k \in Nat /\ u \in Nat
    BY <1>2, <1>4
  <2> QED BY <2>1
<1> QED BY <1>1, <1>5

LEMMA BlockIs == Block \subseteq Nat
<1>1. Number(Tail(job.block), 16) \subseteq Nat
  BY NumbersAre
<1>2. NumberAndUnit(job.block, {}) \subseteq Nat
  <2>1. {} \subseteq Nat
    OBVIOUS
  <2> QED BY <2>1, UnitsAre
<1> QED BY <1>1, <1>2 DEF Block

LEMMA OffsetIs ==
    ASSUME NEW text, NEW block, block \subseteq Nat
    PROVE  \A o \in ByteOffset(text, block) : o.value \in Nat /\ o.backward \in BOOLEAN
<1> DEFINE sign == IF text = <<>> THEN {} ELSE {Head(text)} \cap {"+", "-"}
           body == IF sign = {} THEN text ELSE Tail(text)
           values == IF IsHex(body) THEN Number(Tail(body), 16) ELSE NumberAndUnit(body, block)
<1>1. ByteOffset(text, block) = {[backward |-> sign = {"-"}, value |-> n] : n \in values}
  BY DEF ByteOffset
<1> HIDE DEF sign, body
<1>2. values \subseteq Nat
  BY NumbersAre, UnitsAre
<1> HIDE DEF values
<1>3. (sign = {"-"}) \in BOOLEAN
  OBVIOUS
<1> DEFINE back == sign = {"-"}
<1> HIDE DEF back
<1>4. ByteOffset(text, block) = {[backward |-> back, value |-> n] : n \in values} /\ back \in BOOLEAN
  BY <1>1, <1>3 DEF back
<1> QED BY <1>2, <1>4

LEMMA CountIs ==
    ASSUME NEW text, NEW block, block \subseteq Nat
    PROVE  ByteCount(text, block) \subseteq Nat
BY OffsetIs DEF ByteCount

LEMMA CountsAre ==
    ASSUME NEW texts
    PROVE  Counts(texts) \subseteq Nat
<1> DEFINE B == Block
<1>1. B \subseteq Nat
  BY BlockIs
<1> HIDE DEF B
<1>2. \A text \in texts : ByteCount(text, B) \subseteq Nat
  BY <1>1, CountIs
<1> QED BY <1>2 DEF Counts, B

LEMMA OffsetsAre == \A o \in Offsets : o.value \in Nat /\ o.backward \in BOOLEAN
<1> DEFINE B == Block
<1>1. B \subseteq Nat
  BY BlockIs
<1> HIDE DEF B
<1>2. \A text \in job.skip : \A o \in ByteOffset(text, B) : o.value \in Nat /\ o.backward \in BOOLEAN
  BY <1>1, OffsetIs
<1> QED BY <1>2 DEF Offsets, B

\* What the arguments of a job that hexyl accepts are.
Shift == CHOOSE n \in Counts({job.display}) : TRUE
Length == CHOOSE n \in Counts(job.length) : TRUE
Offset == CHOOSE o \in Offsets : TRUE

LEMMA ArgumentsAre ==
    ASSUME JobIInv, ValidArguments
    PROVE  /\ Shift \in Nat
           /\ job.length # {} => Length \in Nat
           /\ job.skip # {} => Offset.value \in Nat /\ Offset.backward \in BOOLEAN
<1>1. Shift \in Nat
  <2>1. Counts({job.display}) # {} /\ Counts({job.display}) \subseteq Nat
    BY CountsAre DEF ValidArguments
  <2> QED BY <2>1 DEF Shift
<1>2. ASSUME job.length # {} PROVE Length \in Nat
  <2>1. PICK text : job.length = {text}
    BY <1>2 DEF JobIInv
  <2>2. Cardinality({text}) = 1 /\ Cardinality({}) = 0
    BY FS_Singleton, FS_EmptySet
  <2>3. Cardinality(Counts(job.length)) = Cardinality(job.length)
    BY DEF ValidArguments
  <2>4. Counts(job.length) # {}
    BY <2>1, <2>2, <2>3
  <2>5. Counts(job.length) \subseteq Nat
    BY CountsAre
  <2> QED BY <2>4, <2>5 DEF Length
<1>3. ASSUME job.skip # {} PROVE Offset.value \in Nat /\ Offset.backward \in BOOLEAN
  <2>1. PICK text : job.skip = {text}
    BY <1>3 DEF JobIInv
  <2>2. Cardinality({text}) = 1 /\ Cardinality({}) = 0
    BY FS_Singleton, FS_EmptySet
  <2>3. Cardinality(Offsets) = Cardinality(job.skip)
    BY DEF ValidArguments
  <2>4. Offsets # {}
    BY <2>1, <2>2, <2>3
  <2>5. Offset \in Offsets
    BY <2>4 DEF Offset
  <2> QED BY <2>5, OffsetsAre
<1> QED BY <1>1, <1>2, <1>3

HexBlock == IsHex(job.block) /\ \E n \in Block : n > 0
BadOffset == job.skip # {} /\ Offset.backward
             /\ (~job.seekable \/ Offset.value > Len(job.input))
From == IF job.skip = {} THEN 0
        ELSE IF Offset.backward THEN Len(job.input) - Offset.value
        ELSE IF job.seekable THEN Offset.value ELSE Min({Offset.value, Len(job.input)})

LEMMA MeaningCases ==
    ASSUME JobIInv
    PROVE  /\ HexBlock => job.means = Ends("ok")
           /\ ~HexBlock /\ (~ValidArguments \/ BadOffset) => job.means = Ends("error")
           /\ ~HexBlock /\ ValidArguments /\ ~BadOffset => job.means = Asks(From)
<1>1. Meaning = IF HexBlock THEN Ends("ok")
                ELSE IF ~ValidArguments \/ BadOffset THEN Ends("error") ELSE Asks(From)
  BY DEF Meaning, HexBlock, BadOffset, From, Offset
<1>2. job.means = Meaning
  BY DEF JobIInv
<1> QED BY <1>1, <1>2

LEMMA FromIs ==
    ASSUME JobIInv, ValidArguments, ~BadOffset
    PROVE  From \in Nat
<1>1. Len(job.input) \in Nat /\ job.seekable \in BOOLEAN
  BY DEF JobIInv, HexylJob
<1>2. job.skip # {} => Offset.value \in Nat /\ Offset.backward \in BOOLEAN
  BY ArgumentsAre
<1>3. CASE job.skip = {}
  BY <1>3 DEF From
<1>4. CASE job.skip # {} /\ Offset.backward
  <2>1. ~(Offset.value > Len(job.input))
    BY <1>4 DEF BadOffset
  <2> QED BY <1>1, <1>2, <1>4, <2>1 DEF From
<1>5. CASE job.skip # {} /\ ~Offset.backward
  <2>1. Min({Offset.value, Len(job.input)}) \in Nat
    BY <1>1, <1>2, <1>5, LeastOfTwo
  <2> QED BY <1>1, <1>2, <1>5, <2>1 DEF From
<1> QED BY <1>3, <1>4, <1>5

\* What is printed when something is.
LEMMA PrintsIs ==
    ASSUME JobIInv, job.means.prints
    PROVE  /\ AsksFor(job)
           /\ job.means.count = IF job.length = {} THEN Len(job.input) ELSE Length
           /\ job.means.position = job.means.first + Shift
           /\ ValidArguments /\ ~HexBlock
<1>1. ValidArguments /\ ~HexBlock /\ ~BadOffset /\ job.means = Asks(From)
  BY MeaningCases DEF Ends
<1>2. From \in Nat /\ Shift \in Nat /\ (job.length # {} => Length \in Nat)
  BY <1>1, FromIs, ArgumentsAre
<1>3. Len(job.input) \in Nat
  BY DEF JobIInv, HexylJob
<1>4. Asks(From) = [status |-> "ok", prints |-> TRUE, first |-> From,
                    count |-> IF job.length = {} THEN Len(job.input) ELSE Length,
                    position |-> From + Shift]
  BY DEF Asks, Shift, Length
<1> DEFINE f == From
           n == IF job.length = {} THEN Len(job.input) ELSE Length
<1>5. n \in Nat /\ f \in Nat
  BY <1>2, <1>3
<1> HIDE DEF f, n
<1>6. job.means = [status |-> "ok", prints |-> TRUE, first |-> f, count |-> n,
                   position |-> f + Shift]
  BY <1>1, <1>4 DEF f, n
<1>7. /\ job.means.status = "ok" /\ job.means.prints = TRUE /\ job.means.first = f
      /\ job.means.count = n /\ job.means.position = f + Shift
  BY <1>6
<1>8. f + Shift \in Nat
  BY <1>2, <1>5
<1> QED BY <1>1, <1>5, <1>7, <1>8 DEF AsksFor, n

IsPrinter(s) ==
    s = [pc |-> s.pc, status |-> s.status, skip |-> s.skip, limit |-> s.limit,
         display |-> s.display, line |-> s.line, squeezer |-> s.squeezer, byte |-> s.byte,
         idx |-> s.idx, total |-> s.total, out |-> s.out]

\* Nothing is printed yet.
Fresh(j, s) ==
    /\ s.status = "running" /\ s.line = <<>> /\ s.idx = 0 /\ s.total = 0 /\ s.out = <<>>
    /\ s.squeezer = IF j.squeeze THEN "ignore" ELSE "disabled"

\* l is the input behind its first n bytes, or its end.
Behind(j, l, n) ==
    /\ IsPart(BytesOf(j), l, j.input, n, Len(l))
    /\ Len(l) = IF n < Len(j.input) THEN Len(j.input) - n ELSE 0

Skipping(j, l, s) ==
    /\ s.skip \in Nat /\ s.display \in 0..Len(j.input) /\ Behind(j, l, s.display)
    /\ j.means.first = IF s.display + s.skip <= Len(j.input) THEN s.display + s.skip
                       ELSE Len(j.input)
InListing(j, l, s) ==
    /\ j.include = "off" /\ s.status = "running" /\ \E k : Progress(j, l, s, k)
    /\ s.pc = "line" => Len(s.line) < j.width
    /\ s.pc = "full" => Len(s.line) = j.width
InArray(j, l, s) == j.include # "off" /\ s.status = "running" /\ Including(j, l, s)

\* What it printed in the end.
AsAsked(j, s) ==
    /\ s.status = j.means.status
    /\ s.out = IF ~j.means.prints THEN <<>>
               ELSE IF j.include = "off" THEN ListingOf(j) ELSE ArrayOf(j)

Phases(j, l, s) ==
    /\ IsPrinter(s)
    /\ s.pc \in {"arguments", "skip", "take", "line", "full", "include", "done"}
    /\ s.pc = "arguments" => l = j.input /\ s = Printer
    /\ s.pc = "skip" => j.means.prints /\ Fresh(j, s) /\ Skipping(j, l, s)
    /\ s.pc = "take" => j.means.prints /\ Fresh(j, s) /\ s.display = j.means.first
                        /\ Behind(j, l, j.means.first)
    /\ s.pc \in {"line", "full"} => j.means.prints /\ InListing(j, l, s)
    /\ s.pc = "include" => j.means.prints /\ InArray(j, l, s)
    /\ s.pc = "done" => AsAsked(j, s)
HexylIInv == JobIInv /\ Phases(job, left, st)

-----------------------------------------------------------------------------
LEMMA BehindIs ==
    ASSUME NEW j, HexylJob(j), NEW n \in Nat
    PROVE  Behind(j, SubSeq(j.input, n + 1, Len(j.input)), n)
<1> DEFINE S == BytesOf(j)
           b == j.input
           L == Len(b)
           l == SubSeq(b, n + 1, L)
<1>1. b \in Seq(S) /\ L \in Nat
  BY DEF HexylJob
<1> HIDE DEF S, b
<1>2. ASSUME n < L PROVE Behind(j, l, n)
  <2>1. IsPart(S, l, b, n, L - n)
    BY <1>1, <1>2, PartIs
  <2>2. Len(l) = L - n
    BY <2>1 DEF IsPart
  <2> HIDE DEF l
  <2> QED BY <1>2, <2>1, <2>2 DEF Behind, S, b, L
<1>3. ASSUME ~(n < L) PROVE Behind(j, l, n)
  <2>1. L <= n
    BY <1>1, <1>3
  <2>2. l = <<>>
    BY <1>1, <2>1, NoPart
  <2> HIDE DEF l
  <2>3. Len(l) = 0 /\ l \in Seq(S)
    BY <2>2
  <2>4. IsPart(S, l, b, n, Len(l))
    BY <2>3 DEF IsPart
  <2> QED BY <1>3, <2>3, <2>4 DEF Behind, S, b, L
<1> QED BY <1>2, <1>3 DEF l, L, b

LEMMA BehindMore ==
    ASSUME NEW j, HexylJob(j), NEW l, NEW n, n \in Nat, Behind(j, l, n), NEW k \in 1..Len(l)
    PROVE  Behind(j, SubSeq(l, k + 1, Len(l)), n + k) /\ n + k <= Len(j.input)
<1> DEFINE S == BytesOf(j)
           b == j.input
           L == Len(b)
           rest == SubSeq(l, k + 1, Len(l))
<1>1. IsPart(S, l, b, n, Len(l)) /\ Len(l) = (IF n < L THEN L - n ELSE 0) /\ L \in Nat
  BY DEF Behind, HexylJob
<1>2. l \in Seq(S) /\ Len(l) \in Nat
  BY <1>1 DEF IsPart
<1> HIDE DEF S, b, L
<1>3. n < L /\ Len(l) = L - n /\ k \in Nat /\ k <= Len(l)
  BY <1>1, <1>2
<1>4. IsPart(S, rest, l, k, Len(l) - k)
  BY <1>2, <1>3, PartIs
<1>5. IsPart(S, rest, b, n + k, Len(l) - k)
  <2>1. k + (Len(l) - k) <= Len(l)
    BY <1>2, <1>3
  <2> HIDE DEF rest
  <2> QED BY <1>1, <1>4, <2>1, PartOfPart
<1>6. Len(rest) = Len(l) - k
  BY <1>5 DEF IsPart
<1>7. Len(rest) = (IF n + k < L THEN L - (n + k) ELSE 0) /\ n + k <= L
  BY <1>1, <1>3, <1>6
<1> HIDE DEF rest
<1>8. IsPart(S, rest, b, n + k, Len(rest))
  BY <1>5, <1>6
<1> QED BY <1>7, <1>8 DEF Behind, S, b, L, rest

\* Take begins the listing or the array.
LEMMA TakesAll ==
    ASSUME NEW j, HexylJob(j), AsksFor(j), NEW l, Behind(j, l, j.means.first),
           NEW limit \in Nat, limit <= j.means.count, limit = j.means.count \/ limit = Len(l)
    PROVE  HasRead(j, l, limit, 0)
<1> DEFINE first == j.means.first
<1>1. first \in Nat /\ first + 0 = first
  BY DEF AsksFor
<1>2. 0 \in 0..Len(BytesAsked(j))
  BY BytesAskedIs
<1>3. limit + 0 = limit
  OBVIOUS
<1> HIDE DEF first
<1>4. /\ IsPart(BytesOf(j), l, j.input, first + 0, Len(l))
      /\ Len(l) = IF first + 0 < Len(j.input) THEN Len(j.input) - (first + 0) ELSE 0
  BY <1>1 DEF Behind, first
<1> QED BY <1>2, <1>3, <1>4 DEF HasRead, first

LEMMA ListingBegins ==
    ASSUME NEW j, HexylJob(j), AsksFor(j), NEW l, NEW t, HasRead(j, l, t.limit, 0),
           Fresh(j, t), t.display = j.means.position
    PROVE  Progress(j, l, t, 0) /\ Len(t.line) < j.width
<1>1. j.width \in Nat \ {0} /\ 0 * j.width = 0
  BY DEF HexylJob
<1>2. t.line = <<>> /\ Len(t.line) = 0 /\ t.idx = 0 /\ t.out = <<>>
  BY DEF Fresh
<1>3. LinesFit(j, 0)
  BY <1>1, BytesAskedIs DEF LinesFit
<1>4. IsPart(BytesOf(j), t.line, BytesAsked(j), 0, 0)
  BY <1>2 DEF IsPart
<1>5. Squeezes(j, t.squeezer, t.byte, 0)
  BY DEF Squeezes, Fresh, HexylJob
<1> DEFINE z == 0 * j.width
<1>6. z = 0 /\ z + Len(t.line) = 0
  BY <1>1, <1>2
<1> HIDE DEF z
<1>7. HasRead(j, l, t.limit, z + Len(t.line)) /\ IsPart(BytesOf(j), t.line, BytesAsked(j), z, Len(t.line))
  BY <1>2, <1>4, <1>6
<1>8. Len(t.line) <= j.width
  BY <1>1, <1>2
<1>9. Progress(j, l, t, 0)
  BY <1>2, <1>3, <1>5, <1>6, <1>7, <1>8 DEF Progress, z
<1> QED BY <1>1, <1>2, <1>9

LEMMA ArrayBegins ==
    ASSUME NEW j, NEW l, NEW t, HasRead(j, l, t.limit, 0), t.total = 0, t.out = ArrayHead(j)
    PROVE  Including(j, l, t)
<1> DEFINE h == ArrayHead(j)
           m == Mark("array")
<1>1. h = <<m>> \/ h = <<>>
  BY DEF ArrayHead
<1>2. CellsTo(j, 0) = <<>>
  BY DEF CellsTo
<1> HIDE DEF h, m
<1>3. h \o <<>> = h
  BY <1>1, TwoLines
<1> QED BY <1>2, <1>3 DEF Including, h

LEMMA MeaningKept ==
    ASSUME job' = job
    PROVE  Meaning' = Meaning
<1>1. Block' = Block
  BY DEF Block
<1> QED BY <1>1 DEF Meaning, Offsets, Counts, ValidArguments, Asks

LEMMA JobKept ==
    ASSUME JobIInv, job' = job
    PROVE  JobIInv'
BY MeaningKept DEF JobIInv

LEMMA PhasesKept ==
    ASSUME HexylIInv, job' = job, Phases(job, left', st')
    PROVE  HexylIInv'
BY JobKept DEF HexylIInv

LEMMA HexylInit == InitHexyl => HexylIInv
<1> SUFFICES ASSUME InitHexyl PROVE HexylIInv
  OBVIOUS
<1>1. HexylJob(job)
  <2>1. PICK Bytes : job.input \in Seq(Bytes)
    BY DEF InitHexyl
  <2>2. job.input \in Seq(ToSet(job.input))
    BY <2>1, ElementsFinite
  <2> QED BY <2>2 DEF InitHexyl, HexylJob, BytesOf
<1>2. JobIInv
  BY <1>1 DEF InitHexyl, JobIInv
<1>3. IsPrinter(st) /\ st.pc = "arguments"
  BY DEF InitHexyl, Printer, IsPrinter
<1> QED BY <1>2, <1>3 DEF HexylIInv, Phases, InitHexyl

\* An exit that prints nothing.
LEMMA ExitKeeps ==
    ASSUME HexylIInv, st.pc = "arguments", NEW status, Exit(status), job.means = Ends(status)
    PROVE  HexylIInv'
<1>1. job' = job /\ IsPrinter(st) /\ st = Printer
  BY DEF HexylIInv, Phases, Exit, Stay
<1>2. /\ IsPrinter(st') /\ st'.pc = "done" /\ st'.status = status /\ st'.out = <<>>
  BY <1>1 DEF IsPrinter, Exit, Printer
<1>3. AsAsked(job, st')
  BY <1>2 DEF AsAsked, Ends
<1>4. Phases(job, left', st')
  BY <1>2, <1>3 DEF Phases
<1> QED BY <1>1, <1>4, PhasesKept

LEMMA InvalidKeeps == ASSUME HexylIInv, InvalidArguments PROVE HexylIInv'
<1>1. ~ValidArguments /\ ~HexBlock /\ Exit("error") /\ st.pc = "arguments"
  BY DEF InvalidArguments, HexBlock, Hexes
<1>2. job.means = Ends("error")
  BY <1>1, MeaningCases DEF HexylIInv
<1> QED BY <1>1, <1>2, ExitKeeps

LEMMA HexBlockKeeps == ASSUME HexylIInv, HexBlockSize PROVE HexylIInv'
<1>1. HexBlock /\ Exit("ok") /\ st.pc = "arguments"
  BY DEF HexBlockSize, HexBlock, Hexes
<1>2. job.means = Ends("ok")
  BY <1>1, MeaningCases DEF HexylIInv
<1> QED BY <1>1, <1>2, ExitKeeps

\* What is known when the arguments have been accepted.
LEMMA Started ==
    ASSUME HexylIInv, st.pc = "arguments", ValidArguments, ~IsHex(job.block),
           NEW pc, NEW display, NEW rest, NEW skip, Start(pc, display, rest, skip)
    PROVE  /\ left = job.input /\ left' = rest /\ job' = job
           /\ IsPrinter(st') /\ st'.pc = pc /\ st'.skip = skip /\ st'.display = display
           /\ Fresh(job, st')
           /\ BadOffset => job.means = Ends("error")
           /\ ~BadOffset => job.means.prints /\ job.means.first = From /\ From \in Nat
<1>1. left = job.input /\ IsPrinter(st) /\ st = Printer /\ JobIInv
  BY DEF HexylIInv, Phases
<1>2. left' = rest /\ job' = job
  BY DEF Start
<1>3. st' = [st EXCEPT !.pc = pc, !.skip = skip, !.display = display,
                       !.squeezer = IF job.squeeze THEN "ignore" ELSE "disabled"]
  BY DEF Start
<1>4. /\ IsPrinter(st') /\ st'.pc = pc /\ st'.skip = skip /\ st'.display = display
      /\ Fresh(job, st')
  BY <1>1, <1>3 DEF IsPrinter, Printer, Fresh
<1>5. ~HexBlock
  BY DEF HexBlock
<1>6. BadOffset => job.means = Ends("error")
  BY <1>1, <1>5, MeaningCases
<1>7. ~BadOffset => job.means = Asks(From) /\ From \in Nat
  BY <1>1, <1>5, MeaningCases, FromIs
<1>8. Asks(From).prints = TRUE /\ Asks(From).first = From
  BY DEF Asks
<1> QED BY <1>1, <1>2, <1>4, <1>6, <1>7, <1>8

\* It is ready to take.
LEMMA TakeNext ==
    ASSUME HexylIInv, job' = job, IsPrinter(st'), st'.pc = "take", Fresh(job, st'),
           job.means.prints, st'.display = job.means.first, Behind(job, left', job.means.first)
    PROVE  HexylIInv'
<1>1. Phases(job, left', st')
  BY DEF Phases
<1> QED BY <1>1, PhasesKept

LEMMA NoSkipKeeps == ASSUME HexylIInv, NoSkip PROVE HexylIInv'
<1>1. /\ ValidArguments /\ ~IsHex(job.block) /\ st.pc = "arguments" /\ job.skip = {}
      /\ Start("take", 0, left, 0)
  BY DEF NoSkip, Hexes
<1>2. ~BadOffset /\ From = 0
  BY <1>1 DEF BadOffset, From
<1>3. /\ left = job.input /\ left' = left /\ job' = job
      /\ IsPrinter(st') /\ st'.pc = "take" /\ st'.display = 0 /\ Fresh(job, st')
      /\ job.means.prints /\ job.means.first = 0
  BY <1>1, <1>2, Started
<1>4. Behind(job, left', 0)
  <2>1. HexylJob(job) /\ job.input \in Seq(BytesOf(job))
    BY DEF HexylIInv, JobIInv, HexylJob
  <2>2. Behind(job, SubSeq(job.input, 0 + 1, Len(job.input)), 0)
    BY <2>1, BehindIs
  <2>3. SubSeq(job.input, 1, Len(job.input)) = job.input /\ 0 + 1 = 1
    BY <2>1
  <2> QED BY <1>3, <2>2, <2>3
<1> QED BY <1>3, <1>4, TakeNext

LEMMA SeekKeeps == ASSUME HexylIInv, SeekFile PROVE HexylIInv'
<1> DEFINE to == IF Offset.backward THEN Len(left) - Offset.value ELSE Offset.value
<1>1. /\ ValidArguments /\ ~IsHex(job.block) /\ st.pc = "arguments" /\ job.skip # {}
      /\ job.seekable
      /\ IF to < 0 THEN Exit("error")
         ELSE Start("take", to, SubSeq(left, to + 1, Len(left)), 0)
  BY DEF SeekFile, Hexes, Offset
<1>2. JobIInv /\ left = job.input /\ HexylJob(job)
  BY <1>1 DEF HexylIInv, Phases, JobIInv
<1>3. Offset.value \in Nat /\ Offset.backward \in BOOLEAN /\ Len(job.input) \in Nat
  BY <1>1, <1>2, ArgumentsAre DEF HexylJob
<1>4. to \in Int /\ (to < 0 <=> BadOffset) /\ (~BadOffset => to = From)
  BY <1>1, <1>2, <1>3 DEF BadOffset, From
<1> HIDE DEF to
<1>5. CASE to < 0
  <2>1. ~HexBlock
    BY <1>1 DEF HexBlock
  <2>2. job.means = Ends("error")
    BY <1>2, <1>4, <1>5, <2>1, MeaningCases
  <2>3. Exit("error")
    BY <1>1, <1>5
  <2> QED BY <1>1, <2>2, <2>3, ExitKeeps
<1>6. CASE ~(to < 0)
  <2>1. Start("take", to, SubSeq(left, to + 1, Len(left)), 0)
    BY <1>1, <1>6
  <2>2. /\ left' = SubSeq(left, to + 1, Len(left)) /\ job' = job
        /\ IsPrinter(st') /\ st'.pc = "take" /\ st'.display = to /\ Fresh(job, st')
        /\ job.means.prints /\ job.means.first = to
    BY <1>1, <1>4, <1>6, <2>1, Started
  <2>3. Behind(job, left', to)
    <3>1. to \in Nat
      BY <1>4, <1>6
    <3> QED BY <1>2, <2>2, <3>1, BehindIs
  <2> QED BY <2>2, <2>3, TakeNext
<1> QED BY <1>5, <1>6

LEMMA StartSkipKeeps == ASSUME HexylIInv, StartSkip PROVE HexylIInv'
<1>1. /\ ValidArguments /\ ~IsHex(job.block) /\ st.pc = "arguments" /\ job.skip # {}
      /\ ~job.seekable
      /\ IF Offset.backward THEN Exit("error") ELSE Start("skip", 0, left, Offset.value)
  BY DEF StartSkip, Hexes, Offset
<1>2. JobIInv /\ left = job.input /\ HexylJob(job)
  BY <1>1 DEF HexylIInv, Phases, JobIInv
<1>3. Offset.value \in Nat /\ Offset.backward \in BOOLEAN /\ Len(job.input) \in Nat
  BY <1>1, <1>2, ArgumentsAre DEF HexylJob
<1>4. Offset.backward <=> BadOffset
  BY <1>1 DEF BadOffset
<1>5. CASE Offset.backward
  <2>1. ~HexBlock
    BY <1>1 DEF HexBlock
  <2>2. job.means = Ends("error")
    BY <1>2, <1>4, <1>5, <2>1, MeaningCases
  <2>3. Exit("error")
    BY <1>1, <1>5
  <2> QED BY <1>1, <2>2, <2>3, ExitKeeps
<1>6. CASE ~Offset.backward
  <2>1. Start("skip", 0, left, Offset.value)
    BY <1>1, <1>6
  <2>2. /\ left' = left /\ job' = job
        /\ IsPrinter(st') /\ st'.pc = "skip" /\ st'.display = 0 /\ st'.skip = Offset.value
        /\ Fresh(job, st') /\ job.means.prints /\ job.means.first = From
    BY <1>1, <1>4, <1>6, <2>1, Started
  <2>3. From = IF Offset.value <= Len(job.input) THEN Offset.value ELSE Len(job.input)
    BY <1>1, <1>3, <1>6, LeastOfTwo DEF From
  <2>4. Behind(job, left', 0)
    <3>1. job.input \in Seq(BytesOf(job))
      BY <1>2 DEF HexylJob
    <3>2. Behind(job, SubSeq(job.input, 0 + 1, Len(job.input)), 0)
      BY <1>2, BehindIs
    <3>3. SubSeq(job.input, 1, Len(job.input)) = job.input /\ 0 + 1 = 1
      BY <3>1
    <3> QED BY <1>2, <2>2, <3>2, <3>3
  <2>5. Skipping(job, left', st')
    <3>1. 0 + Offset.value = Offset.value /\ 0 \in 0..Len(job.input)
      BY <1>3
    <3> QED BY <1>3, <2>2, <2>3, <2>4, <3>1 DEF Skipping
  <2>6. Phases(job, left', st')
    BY <2>2, <2>5 DEF Phases
  <2> QED BY <2>2, <2>6, PhasesKept
<1> QED BY <1>5, <1>6

LEMMA SkipPieceKeeps ==
    ASSUME HexylIInv, NEW k \in 1..Len(left), SkipPiece(k)
    PROVE  HexylIInv'
<1>1. /\ st.pc = "skip" /\ k <= st.skip /\ job' = job
      /\ left' = SubSeq(left, k + 1, Len(left))
      /\ st' = [st EXCEPT !.skip = @ - k, !.display = @ + k]
  BY DEF SkipPiece, Hexes, Consume
<1>2. /\ JobIInv /\ HexylJob(job) /\ IsPrinter(st) /\ job.means.prints
      /\ Fresh(job, st) /\ Skipping(job, left, st)
  BY <1>1 DEF HexylIInv, Phases, JobIInv
<1>3. /\ st.skip \in Nat /\ st.display \in 0..Len(job.input) /\ Behind(job, left, st.display)
      /\ job.means.first = IF st.display + st.skip <= Len(job.input) THEN st.display + st.skip
                           ELSE Len(job.input)
      /\ Len(job.input) \in Nat
  BY <1>2 DEF Skipping, HexylJob
<1>4. Behind(job, left', st.display + k) /\ st.display + k <= Len(job.input)
  <2>1. st.display \in Nat
    BY <1>3
  <2> QED BY <1>1, <1>2, <1>3, <2>1, BehindMore
<1>5. /\ IsPrinter(st') /\ st'.pc = "skip" /\ st'.skip = st.skip - k
      /\ st'.display = st.display + k
      /\ st'.status = st.status /\ st'.line = st.line /\ st'.idx = st.idx
      /\ st'.total = st.total /\ st'.out = st.out /\ st'.squeezer = st.squeezer
  BY <1>1, <1>2 DEF IsPrinter
<1>6. Fresh(job, st')
  BY <1>2, <1>5 DEF Fresh
<1>7. st'.skip \in Nat /\ st'.display \in 0..Len(job.input)
      /\ st'.display + st'.skip = st.display + st.skip
  <2> DEFINE a == st.skip
             d == st.display
             L == Len(job.input)
  <2>1. a \in Nat /\ d \in 0..L /\ L \in Nat /\ k <= a /\ k \in Nat /\ d + k <= L
    <3>1. k \in Nat
      OBVIOUS
    <3> QED BY <1>1, <1>3, <1>4, <3>1
  <2> HIDE DEF a, d, L
  <2>2. a - k \in Nat /\ d + k \in 0..L /\ (d + k) + (a - k) = d + a
    BY <2>1
  <2> QED BY <1>5, <2>2 DEF a, d, L
<1>8. Skipping(job, left', st')
  BY <1>3, <1>4, <1>5, <1>7 DEF Skipping
<1>9. Phases(job, left', st')
  BY <1>2, <1>5, <1>6, <1>8 DEF Phases
<1> QED BY <1>1, <1>9, PhasesKept

LEMMA SkippedKeeps == ASSUME HexylIInv, Skipped PROVE HexylIInv'
<1>1. /\ st.pc = "skip" /\ (st.skip = 0 \/ left = <<>>) /\ job' = job /\ left' = left
      /\ st' = [st EXCEPT !.pc = "take"]
  BY DEF Skipped, Hexes, Stay
<1>2. /\ JobIInv /\ HexylJob(job) /\ IsPrinter(st) /\ job.means.prints
      /\ Fresh(job, st) /\ Skipping(job, left, st)
  BY <1>1 DEF HexylIInv, Phases, JobIInv
<1>3. /\ st.skip \in Nat /\ st.display \in 0..Len(job.input) /\ Behind(job, left, st.display)
      /\ job.means.first = IF st.display + st.skip <= Len(job.input) THEN st.display + st.skip
                           ELSE Len(job.input)
      /\ Len(job.input) \in Nat
  BY <1>2 DEF Skipping, HexylJob
<1>4. job.means.first = st.display
  <2>1. left = <<>> => Len(left) = 0
    OBVIOUS
  <2>2. left = <<>> => st.display = Len(job.input)
    BY <1>3, <2>1 DEF Behind
  <2> QED BY <1>1, <1>3, <2>2
<1>5. /\ IsPrinter(st') /\ st'.pc = "take" /\ st'.display = st.display
      /\ st'.status = st.status /\ st'.line = st.line /\ st'.idx = st.idx
      /\ st'.total = st.total /\ st'.out = st.out /\ st'.squeezer = st.squeezer
  BY <1>1, <1>2 DEF IsPrinter
<1>6. Fresh(job, st')
  BY <1>2, <1>5 DEF Fresh
<1> QED BY <1>1, <1>2, <1>3, <1>4, <1>5, <1>6, TakeNext

LEMMA TakeKeeps == ASSUME HexylIInv, Take PROVE HexylIInv'
<1> DEFINE limit == IF job.length = {} THEN Len(left) ELSE Length
           out == IF job.include = "file" THEN Append(st.out, Mark("array")) ELSE st.out
<1>1. /\ st.pc = "take" /\ job' = job /\ left' = left
      /\ st' = [st EXCEPT !.pc = IF job.include = "off" THEN "line" ELSE "include",
                          !.limit = limit, !.display = @ + Shift, !.out = out]
  BY DEF Take, Hexes, Stay, Printed, Shift, Length
<1>2. /\ JobIInv /\ HexylJob(job) /\ IsPrinter(st) /\ job.means.prints
      /\ Fresh(job, st) /\ st.display = job.means.first /\ Behind(job, left, job.means.first)
  BY <1>1 DEF HexylIInv, Phases, JobIInv
<1>3. /\ AsksFor(job)
      /\ job.means.count = IF job.length = {} THEN Len(job.input) ELSE Length
      /\ job.means.position = job.means.first + Shift
      /\ ValidArguments
  BY <1>2, PrintsIs
<1>4. HasRead(job, left, limit, 0)
  <2>1. Len(left) \in Nat /\ Len(left) <= Len(job.input) /\ Len(job.input) \in Nat
    <3>1. Len(left) = IF job.means.first < Len(job.input)
                      THEN Len(job.input) - job.means.first ELSE 0
      BY <1>2 DEF Behind
    <3>2. job.means.first \in Nat /\ Len(job.input) \in Nat
      BY <1>2, <1>3 DEF AsksFor, HexylJob
    <3> QED BY <3>1, <3>2
  <2>2. job.length # {} => Length \in Nat
    BY <1>2, <1>3, ArgumentsAre
  <2>3. limit \in Nat /\ limit <= job.means.count
        /\ (limit = job.means.count \/ limit = Len(left))
    BY <1>3, <2>1, <2>2
  <2> HIDE DEF limit
  <2> QED BY <1>2, <1>3, <2>3, TakesAll
<1> HIDE DEF limit, out
<1>5. /\ IsPrinter(st') /\ st'.limit = limit /\ st'.display = st.display + Shift
      /\ st'.pc = (IF job.include = "off" THEN "line" ELSE "include")
      /\ st'.status = st.status /\ st'.line = st.line /\ st'.idx = st.idx
      /\ st'.total = st.total /\ st'.out = out /\ st'.squeezer = st.squeezer
  BY <1>1, <1>2 DEF IsPrinter
<1>6. CASE job.include = "off"
  <2>1. Fresh(job, st')
    BY <1>2, <1>5, <1>6 DEF Fresh, out
  <2>2. st'.display = job.means.position
    BY <1>2, <1>3, <1>5
  <2>3. HasRead(job, left', st'.limit, 0)
    BY <1>1, <1>4, <1>5
  <2> DEFINE l == left'
             t == st'
  <2>4. HasRead(job, l, t.limit, 0) /\ Fresh(job, t) /\ t.display = job.means.position
    BY <2>1, <2>2, <2>3
  <2> HIDE DEF l, t
  <2>5. Progress(job, l, t, 0) /\ Len(t.line) < job.width
    BY <1>2, <1>3, <2>4, ListingBegins
  <2>6. t.status = "running" /\ t.pc = "line"
    BY <1>5, <1>6, <2>4 DEF Fresh, t
  <2>7. InListing(job, l, t)
    BY <1>6, <2>5, <2>6 DEF InListing
  <2>8. Phases(job, l, t)
    BY <1>2, <1>5, <2>6, <2>7 DEF Phases, t
  <2> QED BY <1>1, <2>8, PhasesKept DEF l, t
<1>7. CASE job.include # "off"
  <2> DEFINE l == left'
             t == st'
  <2>1. HasRead(job, l, t.limit, 0) /\ t.total = 0
    BY <1>1, <1>2, <1>4, <1>5 DEF Fresh
  <2>2. t.out = ArrayHead(job)
    <3>1. st.out = <<>>
      BY <1>2 DEF Fresh
    <3>2. Append(<<>>, Mark("array")) = <<Mark("array")>>
      OBVIOUS
    <3> QED BY <1>5, <3>1, <3>2 DEF ArrayHead, out
  <2>3. t.status = "running" /\ t.pc = "include" /\ IsPrinter(t)
    BY <1>2, <1>5, <1>7 DEF Fresh
  <2> HIDE DEF l, t
  <2>4. Including(job, l, t)
    BY <2>1, <2>2, ArrayBegins
  <2>5. Phases(job, l, t)
    BY <1>2, <1>7, <2>3, <2>4 DEF Phases, InArray
  <2> QED BY <1>1, <2>5, PhasesKept DEF l, t
<1> QED BY <1>6, <1>7

\* A step of the listing that leaves it in a line.
LEMMA ListingGoesOn ==
    ASSUME HexylIInv, st.pc \in {"line", "full"}, job' = job, IsPrinter(st'),
           st'.pc \in {"line", "full"}, st'.status = st.status,
           NEW k, Progress(job, left', st', k),
           st'.pc = "line" => Len(st'.line) < job.width,
           st'.pc = "full" => Len(st'.line) = job.width
    PROVE  HexylIInv'
<1>1. job.means.prints /\ InListing(job, left, st)
  BY DEF HexylIInv, Phases
<1>2. InListing(job, left', st')
  BY <1>1 DEF InListing
<1>3. Phases(job, left', st')
  BY <1>1, <1>2 DEF Phases
<1> QED BY <1>3, PhasesKept

\* What holds while the listing is printed.
LEMMA AtListing ==
    ASSUME HexylIInv, st.pc \in {"line", "full"}
    PROVE  /\ JobIInv /\ HexylJob(job) /\ AsksFor(job) /\ IsPrinter(st)
           /\ job.include = "off" /\ st.status = "running" /\ job.means.prints
           /\ \E k : Progress(job, left, st, k)
           /\ st.pc = "line" => Len(st.line) < job.width
           /\ st.pc = "full" => Len(st.line) = job.width
<1>1. JobIInv /\ IsPrinter(st) /\ job.means.prints /\ InListing(job, left, st)
  BY DEF HexylIInv, Phases
<1>2. HexylJob(job) /\ AsksFor(job)
  BY <1>1, PrintsIs DEF JobIInv
<1> QED BY <1>1, <1>2 DEF InListing

LEMMA ReadKeeps ==
    ASSUME HexylIInv, NEW n \in 1..Len(left), ReadLine(n)
    PROVE  HexylIInv'
<1> DEFINE out == IF st.out = <<>> THEN Append(st.out, Mark("header")) ELSE st.out
           pc == IF Len(st.line) + n = job.width THEN "full" ELSE "line"
           line == st.line \o SubSeq(left, 1, n)
<1>1. /\ st.pc = "line" /\ n <= st.limit /\ Len(st.line) + n <= job.width
      /\ job' = job /\ left' = SubSeq(left, n + 1, Len(left))
      /\ st' = [st EXCEPT !.pc = pc, !.line = line, !.limit = @ - n, !.out = out]
  BY DEF ReadLine, Hexes, Consume, Piece, Printed
<1>2. /\ HexylJob(job) /\ AsksFor(job) /\ IsPrinter(st)
      /\ \E k : Progress(job, left, st, k)
  BY <1>1, AtListing
<1>3. PICK k : Progress(job, left, st, k)
  BY <1>2
<1> HIDE DEF out, pc, line
<1>4. /\ IsPrinter(st') /\ st'.pc = pc /\ st'.line = line /\ st'.limit = st.limit - n
      /\ st'.out = out /\ st'.idx = st.idx /\ st'.display = st.display
      /\ st'.squeezer = st.squeezer /\ st'.byte = st.byte /\ st'.status = st.status
  BY <1>1, <1>2 DEF IsPrinter
<1> DEFINE t == st'
           l == SubSeq(left, n + 1, Len(left))
<1>5. ReadsInto(left, st, t, n)
  BY <1>4 DEF ReadsInto, out, line
<1>t. t = st' /\ l = SubSeq(left, n + 1, Len(left))
  OBVIOUS
<1> HIDE DEF t, l
<1>6. Progress(job, l, t, k) /\ Len(t.line) = Len(st.line) + n
  <2>1. n <= st.limit /\ Len(st.line) + n <= job.width /\ HexylJob(job) /\ AsksFor(job)
    BY <1>1, <1>2
  <2> QED BY <1>3, <1>5, <2>1, ReadProgress DEF l
<1>7. /\ pc \in {"line", "full"}
      /\ pc = "line" => Len(t.line) < job.width
      /\ pc = "full" => Len(t.line) = job.width
  <2> DEFINE m == Len(st.line)
             w == job.width
  <2>1. m \in Nat /\ w \in Nat /\ m + n <= w /\ n \in Nat
    <3>1. m \in Nat
      BY <1>3 DEF Progress, IsPart
    <3> QED BY <1>1, <1>2, <3>1 DEF HexylJob
  <2>2. pc = (IF m + n = w THEN "full" ELSE "line") /\ Len(t.line) = m + n
    BY <1>6 DEF pc
  <2> HIDE DEF m, w
  <2>3. /\ pc \in {"line", "full"} /\ (pc = "line" => m + n < w) /\ (pc = "full" => m + n = w)
    BY <2>1, <2>2
  <2> QED BY <2>2, <2>3 DEF w
<1>8. Progress(job, left', st', k)
  BY <1>1, <1>6, <1>t
<1> QED BY <1>1, <1>4, <1>7, <1>8, <1>t, ListingGoesOn

\* The squeezer's three outcomes.
LEMMA NextLineKeeps ==
    ASSUME HexylIInv, st.pc = "full", NEW k, Progress(job, left, st, k),
           NEW squeezer, NEW byte, NEW out, NextLine(squeezer, byte, out),
           out = st.out \o LineOf(job, k + 1), Squeezes(job, squeezer, byte, k + 1)
    PROVE  HexylIInv'
<1>1. /\ job' = job /\ left' = left
      /\ st' = [st EXCEPT !.pc = "line", !.line = <<>>, !.idx = @ + job.width,
                          !.squeezer = squeezer, !.byte = byte, !.out = out]
  BY DEF NextLine, Stay
<1>2. /\ HexylJob(job) /\ AsksFor(job) /\ IsPrinter(st) /\ Len(st.line) = job.width
  BY AtListing
<1>3. /\ IsPrinter(st') /\ st'.pc = "line" /\ st'.line = <<>> /\ st'.limit = st.limit
      /\ st'.out = out /\ st'.idx = st.idx + job.width /\ st'.display = st.display
      /\ st'.squeezer = squeezer /\ st'.byte = byte /\ st'.status = st.status
  BY <1>1, <1>2 DEF IsPrinter
<1> DEFINE t == st'
<1>4. /\ t.line = <<>> /\ t.idx = st.idx + job.width /\ t.out = st.out \o LineOf(job, k + 1)
      /\ Squeezes(job, t.squeezer, t.byte, k + 1) /\ t.limit = st.limit
      /\ t.display = st.display
  BY <1>3
<1>t. t = st'
  OBVIOUS
<1> HIDE DEF t
<1>5. Progress(job, left, t, k + 1)
  BY <1>2, <1>4, LineProgress
<1>6. Progress(job, left', st', k + 1)
  BY <1>1, <1>5, <1>t
<1>7. Len(st'.line) < job.width
  <2>1. Len(st'.line) = 0 /\ job.width \in Nat \ {0}
    BY <1>2, <1>3 DEF HexylJob
  <2> QED BY <2>1
<1> QED BY <1>1, <1>3, <1>6, <1>7, ListingGoesOn

\* What the full line is.
LEMMA AtFullLine ==
    ASSUME HexylIInv, st.pc = "full"
    PROVE  \E k : /\ Progress(job, left, st, k) /\ Squeezes(job, st.squeezer, st.byte, k)
                  /\ LinesFit(job, k) /\ LinesFit(job, k + 1)
                  /\ st.line = ChunkOf(job, k + 1)
                  /\ HexylJob(job) /\ AsksFor(job)
                  /\ st.out \in Seq(PrintedLines(job))
                  /\ st.idx + st.display = job.means.position + k * job.width
<1>1. /\ HexylJob(job) /\ AsksFor(job) /\ \E k : Progress(job, left, st, k)
      /\ Len(st.line) = job.width
  BY AtListing
<1>2. PICK k : Progress(job, left, st, k)
  BY <1>1
<1>3. LinesFit(job, k) /\ LinesFit(job, k + 1) /\ st.line = ChunkOf(job, k + 1)
  BY <1>1, <1>2, FullLine
<1>4. /\ Squeezes(job, st.squeezer, st.byte, k) /\ st.idx = k * job.width
      /\ st.display = job.means.position
      /\ st.out = IF k * job.width + Len(st.line) = 0 THEN <<>>
                  ELSE <<Mark("header")>> \o LinesTo(job, k)
  BY <1>2 DEF Progress
<1>5. st.out \in Seq(PrintedLines(job))
  <2>1. <<Mark("header")>> \o LinesTo(job, k) \in Seq(PrintedLines(job))
    BY <1>1, <1>3, OutIs
  <2> DEFINE y == <<Mark("header")>> \o LinesTo(job, k)
             P == PrintedLines(job)
  <2>2. st.out = <<>> \/ st.out = y
    BY <1>4
  <2>3. y \in Seq(P)
    BY <2>1
  <2> HIDE DEF y, P
  <2>4. <<>> \in Seq(P)
    OBVIOUS
  <2>5. st.out \in Seq(P)
    BY <2>2, <2>3, <2>4
  <2> QED BY <2>5 DEF P
<1>6. st.idx + st.display = job.means.position + k * job.width
  <2> DEFINE a == k * job.width
  <2>1. a \in Nat
    BY <1>1, <1>3, ChunkIs
  <2>2. job.means.position \in Nat
    BY <1>1 DEF AsksFor
  <2>3. st.idx = a /\ st.display = job.means.position
    BY <1>4
  <2> HIDE DEF a
  <2>4. st.idx + st.display = job.means.position + a
    BY <2>1, <2>2, <2>3
  <2> QED BY <2>4 DEF a
<1> QED BY <1>1, <1>2, <1>3, <1>4, <1>5, <1>6

LEMMA SqueezeLineKeeps == ASSUME HexylIInv, SqueezeLine PROVE HexylIInv'
<1>1. /\ st.pc = "full" /\ st.squeezer = "delete" /\ ToSet(st.line) = {st.byte}
      /\ NextLine("delete", st.byte, st.out)
  BY DEF SqueezeLine, Hexes, Repeats
<1>2. PICK k : /\ Progress(job, left, st, k) /\ Squeezes(job, st.squeezer, st.byte, k)
               /\ LinesFit(job, k) /\ LinesFit(job, k + 1)
               /\ st.line = ChunkOf(job, k + 1) /\ HexylJob(job) /\ AsksFor(job)
               /\ st.out \in Seq(PrintedLines(job))
  BY <1>1, AtFullLine
<1>3. LineOf(job, k + 1) = <<>> /\ Squeezes(job, "delete", st.byte, k + 1)
  BY <1>1, <1>2, SqueezeRepeats
<1>4. st.out = st.out \o LineOf(job, k + 1)
  <2> DEFINE P == PrintedLines(job)
  <2>1. st.out \in Seq(P)
    BY <1>2
  <2> DEFINE out == st.out
  <2> HIDE DEF P, out
  <2>2. out \o <<>> = out
    <3>1. out \in Seq(P)
      BY <2>1 DEF out
    <3> QED BY <3>1
  <2> QED BY <1>3, <2>2 DEF out
<1> QED BY <1>1, <1>2, <1>3, <1>4, NextLineKeeps

\* A line that is printed.
LEMMA PrintsOne ==
    ASSUME NEW P, NEW out \in Seq(P), NEW line
    PROVE  Append(out, line) = out \o <<line>>
<1> DEFINE Q == P \cup {line}
<1>1. out \in Seq(Q) /\ line \in Q
  OBVIOUS
<1> HIDE DEF Q
<1> QED BY <1>1

LEMMA StarLineKeeps == ASSUME HexylIInv, StarLine PROVE HexylIInv'
<1>1. /\ st.pc = "full" /\ st.squeezer = "print" /\ ToSet(st.line) = {st.byte}
      /\ NextLine("delete", st.byte, Append(st.out, Mark("star")))
  BY DEF StarLine, Hexes, Repeats, Printed
<1>2. PICK k : /\ Progress(job, left, st, k) /\ Squeezes(job, st.squeezer, st.byte, k)
               /\ LinesFit(job, k) /\ LinesFit(job, k + 1)
               /\ st.line = ChunkOf(job, k + 1) /\ HexylJob(job) /\ AsksFor(job)
               /\ st.out \in Seq(PrintedLines(job))
  BY <1>1, AtFullLine
<1>3. LineOf(job, k + 1) = <<Mark("star")>> /\ Squeezes(job, "delete", st.byte, k + 1)
  BY <1>1, <1>2, SqueezeRepeats
<1>4. Append(st.out, Mark("star")) = st.out \o LineOf(job, k + 1)
  BY <1>2, <1>3, PrintsOne
<1> QED BY <1>1, <1>2, <1>3, <1>4, NextLineKeeps

LEMMA PrintLineKeeps == ASSUME HexylIInv, PrintLine PROVE HexylIInv'
<1> DEFINE q == IF st.squeezer = "disabled" THEN "disabled"
                ELSE IF Cardinality(ToSet(st.line)) = 1 THEN "print" ELSE "ignore"
           row == RowOf(job, st.idx + st.display, st.line)
<1>1. /\ st.pc = "full"
      /\ ~(st.squeezer \in {"print", "delete"} /\ ToSet(st.line) = {st.byte})
      /\ NextLine(q, st.line[1], Append(st.out, row))
  BY DEF PrintLine, Hexes, Repeats, Printed, Row, RowOf, Ordered, LittleEndian
<1>2. PICK k : /\ Progress(job, left, st, k) /\ Squeezes(job, st.squeezer, st.byte, k)
               /\ LinesFit(job, k) /\ LinesFit(job, k + 1)
               /\ st.line = ChunkOf(job, k + 1) /\ HexylJob(job) /\ AsksFor(job)
               /\ st.out \in Seq(PrintedLines(job))
               /\ st.idx + st.display = job.means.position + k * job.width
  BY <1>1, AtFullLine
<1>3. /\ LineOf(job, k + 1) = <<row>>
      /\ Squeezes(job, q, st.line[1], k + 1)
  BY <1>1, <1>2, SqueezePrints
<1> HIDE DEF row, q
<1>4. Append(st.out, row) = st.out \o LineOf(job, k + 1)
  BY <1>2, <1>3, PrintsOne
<1> QED BY <1>1, <1>2, <1>3, <1>4, NextLineKeeps

LEMMA EndKeeps == ASSUME HexylIInv, EndOfInput PROVE HexylIInv'
<1> DEFINE row == RowOf(job, st.idx + st.display, st.line)
           mark == <<Mark("footer")>>
           last == CASE st.out = <<>> -> <<Mark("header"), Mark("no content")>>
                     [] st.line # <<>> \/ st.squeezer = "delete" -> <<row>>
                     [] OTHER -> <<>>
<1>1. /\ st.pc = "line" /\ Exhausts(left, st) /\ job' = job /\ left' = left
      /\ st' = [st EXCEPT !.pc = "done", !.status = "ok", !.out = @ \o last \o mark]
  BY DEF EndOfInput, Hexes, Stay, Exhausted, Exhausts, Row, RowOf, Ordered, LittleEndian
<1>2. /\ HexylJob(job) /\ AsksFor(job) /\ IsPrinter(st) /\ job.means.prints
      /\ job.include = "off" /\ Len(st.line) < job.width
      /\ \E k : Progress(job, left, st, k)
  BY <1>1, AtListing
<1>3. PICK k : Progress(job, left, st, k)
  BY <1>2
<1>4. st.out = <<>> => st.line = <<>> /\ st.squeezer # "delete"
  <2> SUFFICES ASSUME st.out = <<>> PROVE st.line = <<>> /\ st.squeezer # "delete"
    OBVIOUS
  <2> DEFINE a == k * job.width
             m == Len(st.line)
  <2>1. /\ LinesFit(job, k) /\ Squeezes(job, st.squeezer, st.byte, k)
        /\ st.out = IF a + m = 0 THEN <<>> ELSE <<Mark("header")>> \o LinesTo(job, k)
        /\ IsPart(BytesOf(job), st.line, BytesAsked(job), a, m)
    BY <1>3 DEF Progress
  <2>2. <<Mark("header")>> \o LinesTo(job, k) # <<>>
    BY <1>2, <2>1, OutIs
  <2>3. a + m = 0
    BY <2>1, <2>2
  <2>4. a \in Nat /\ m \in Nat
    <3> HIDE DEF a, m
    <3> QED BY <2>1 DEF IsPart
  <2>5. a = 0 /\ m = 0
    <3> HIDE DEF a, m
    <3> QED BY <2>3, <2>4
  <2>6. st.line = <<>>
    <3>1. st.line \in Seq(BytesOf(job))
      BY <2>1 DEF IsPart
    <3> QED BY <2>5, <3>1
  <2>7. st.squeezer # "delete"
    <3> SUFFICES ASSUME st.squeezer = "delete" PROVE FALSE
      OBVIOUS
    <3>1. k \in Nat /\ k >= 1 /\ job.width \in Nat \ {0}
      BY <1>2, <2>1 DEF Squeezes, LinesFit, HexylJob
    <3>2. 0 * job.width + job.width <= k * job.width /\ 0 * job.width \in Nat
      <4>1. 0 \in Nat /\ 0 < k
        BY <3>1
      <4> QED BY <3>1, <4>1, TimesUp
    <3> DEFINE z == 0 * job.width
               w == job.width
    <3>3. z + w <= a /\ z \in Nat /\ w \in Nat \ {0}
      BY <3>1, <3>2
    <3> HIDE DEF a, z, w
    <3> QED BY <2>5, <3>3
  <2> QED BY <2>6, <2>7
<1>5. LastLines(job, st, last)
  <2> HIDE DEF row
  <2>1. CASE st.out = <<>>
    <3>1. last = <<Mark("header"), Mark("no content")>>
      BY <1>4, <2>1
    <3> HIDE DEF last
    <3> QED BY <2>1, <3>1 DEF LastLines
  <2>2. CASE st.out # <<>>
    <3>1. last = IF st.line # <<>> \/ st.squeezer = "delete" THEN <<row>> ELSE <<>>
      BY <2>2
    <3> HIDE DEF last
    <3> QED BY <2>2, <3>1 DEF LastLines, row
  <2> QED BY <2>1, <2>2
<1> HIDE DEF last, row
<1>6. st.out \o last \o mark = ListingOf(job)
  BY <1>1, <1>2, <1>3, <1>5, ListingDone
<1> HIDE DEF mark
<1>7. /\ IsPrinter(st') /\ st'.pc = "done" /\ st'.status = "ok"
      /\ st'.out = st.out \o last \o mark
  BY <1>1, <1>2 DEF IsPrinter
<1>8. AsAsked(job, st')
  BY <1>2, <1>6, <1>7 DEF AsAsked, AsksFor
<1>9. Phases(job, left', st')
  BY <1>7, <1>8 DEF Phases
<1> QED BY <1>1, <1>9, PhasesKept

-----------------------------------------------------------------------------
LEMMA AtArray ==
    ASSUME HexylIInv, st.pc = "include"
    PROVE  /\ HexylJob(job) /\ AsksFor(job) /\ IsPrinter(st) /\ job.means.prints
           /\ job.include # "off" /\ st.status = "running" /\ Including(job, left, st)
<1>1. JobIInv /\ IsPrinter(st) /\ job.means.prints /\ InArray(job, left, st)
  BY DEF HexylIInv, Phases
<1>2. HexylJob(job) /\ AsksFor(job)
  BY <1>1, PrintsIs DEF JobIInv
<1> QED BY <1>1, <1>2 DEF InArray

LEMMA IncludeKeeps ==
    ASSUME HexylIInv, NEW k \in 1..Len(left), Include(k)
    PROVE  HexylIInv'
<1> DEFINE out == st.out \o [i \in 1..k |-> IncludeByte(st.total + i - 1, SubSeq(left, 1, k)[i])]
<1>1. /\ st.pc = "include" /\ k <= st.limit
      /\ job' = job /\ left' = SubSeq(left, k + 1, Len(left))
      /\ st' = [st EXCEPT !.limit = @ - k, !.total = @ + k, !.out = out]
  BY DEF Include, Hexes, Consume, Piece
<1>2. /\ HexylJob(job) /\ AsksFor(job) /\ IsPrinter(st) /\ job.means.prints
      /\ job.include # "off" /\ st.status = "running" /\ Including(job, left, st)
  BY <1>1, AtArray
<1> HIDE DEF out
<1>3. /\ IsPrinter(st') /\ st'.pc = "include" /\ st'.status = st.status
      /\ st'.limit = st.limit - k /\ st'.total = st.total + k /\ st'.out = out
  BY <1>1, <1>2 DEF IsPrinter
<1> DEFINE t == st'
<1>4. AddsCells(left, st, t, k)
  BY <1>3 DEF AddsCells, out
<1>t. t = st'
  OBVIOUS
<1> HIDE DEF t
<1>5. Including(job, SubSeq(left, k + 1, Len(left)), t)
  BY <1>1, <1>2, <1>4, IncludeMore
<1>6. InArray(job, left', st')
  BY <1>1, <1>2, <1>3, <1>5, <1>t DEF InArray
<1>7. Phases(job, left', st')
  BY <1>2, <1>3, <1>6 DEF Phases
<1> QED BY <1>1, <1>7, PhasesKept

LEMMA IncludeEndKeeps == ASSUME HexylIInv, IncludeEnds PROVE HexylIInv'
<1> DEFINE out == IF job.include = "stdin" THEN st.out
                  ELSE Append(st.out, Line("total", st.total, <<>>, <<>>))
<1>1. /\ st.pc = "include" /\ Exhausts(left, st) /\ job' = job /\ left' = left
      /\ st' = [st EXCEPT !.pc = "done", !.status = "ok", !.out = out]
  BY DEF IncludeEnds, Hexes, Stay, Exhausted, Exhausts, Printed
<1>2. /\ HexylJob(job) /\ AsksFor(job) /\ IsPrinter(st) /\ job.means.prints
      /\ job.include # "off" /\ Including(job, left, st)
  BY <1>1, AtArray
<1>3. out = ArrayOf(job)
  BY <1>1, <1>2, IncludeDone
<1> HIDE DEF out
<1>4. /\ IsPrinter(st') /\ st'.pc = "done" /\ st'.status = "ok" /\ st'.out = out
  BY <1>1, <1>2 DEF IsPrinter
<1>5. AsAsked(job, st')
  BY <1>2, <1>3, <1>4 DEF AsAsked, AsksFor
<1>6. Phases(job, left', st')
  BY <1>4, <1>5 DEF Phases
<1> QED BY <1>1, <1>6, PhasesKept

LEMMA HexylStep == HexylIInv /\ [NextHexyl]_vars => HexylIInv'
<1> SUFFICES ASSUME HexylIInv, [NextHexyl]_vars PROVE HexylIInv'
  OBVIOUS
<1>1. CASE UNCHANGED vars
  <2>1. job' = job /\ left' = left /\ st' = st
    BY <1>1 DEF vars
  <2> QED BY <2>1, PhasesKept DEF HexylIInv
<1>2. CASE InvalidArguments
  BY <1>2, InvalidKeeps
<1>3. CASE HexBlockSize
  BY <1>3, HexBlockKeeps
<1>4. CASE NoSkip
  BY <1>4, NoSkipKeeps
<1>5. CASE SeekFile
  BY <1>5, SeekKeeps
<1>6. CASE StartSkip
  BY <1>6, StartSkipKeeps
<1>7. CASE Skipped
  BY <1>7, SkippedKeeps
<1>8. CASE Take
  BY <1>8, TakeKeeps
<1>9. ASSUME NEW k \in 1..Len(left), SkipPiece(k) \/ ReadLine(k) \/ Include(k)
      PROVE  HexylIInv'
  BY <1>9, SkipPieceKeeps, ReadKeeps, IncludeKeeps
<1>10. CASE SqueezeLine
  BY <1>10, SqueezeLineKeeps
<1>11. CASE StarLine
  BY <1>11, StarLineKeeps
<1>12. CASE PrintLine
  BY <1>12, PrintLineKeeps
<1>13. CASE EndOfInput
  BY <1>13, EndKeeps
<1>14. CASE IncludeEnds
  BY <1>14, IncludeEndKeeps
<1> QED BY <1>1, <1>2, <1>3, <1>4, <1>5, <1>6, <1>7, <1>8, <1>9, <1>10, <1>11, <1>12,
           <1>13, <1>14 DEF NextHexyl

LEMMA HexylHolds == HexylIInv => PrintsWhatIsAskedFor
<1> SUFFICES ASSUME HexylIInv, job.tool = "hexyl", st.pc = "done"
             PROVE  LET m == job.means
                    IN  /\ m = Meaning
                        /\ st.status = m.status
                        /\ st.out = IF ~m.prints THEN <<>>
                                    ELSE IF job.include = "off"
                                    THEN Listing(m.first, m.count, m.position)
                                    ELSE CArray(m.first, m.count)
  BY DEF PrintsWhatIsAskedFor
<1>1. JobIInv /\ HexylJob(job) /\ AsAsked(job, st) /\ job.means = Meaning
  BY DEF HexylIInv, Phases, JobIInv
<1>2. CASE ~job.means.prints
  BY <1>1, <1>2 DEF AsAsked
<1>3. CASE job.means.prints
  <2>1. AsksFor(job)
    BY <1>1, <1>3, PrintsIs
  <2>2. /\ Listing(job.means.first, job.means.count, job.means.position) = ListingOf(job)
        /\ CArray(job.means.first, job.means.count) = ArrayOf(job)
    BY <1>1, <2>1, ListingIs, ArrayIs
  <2> QED BY <1>1, <1>3, <2>2 DEF AsAsked
<1> QED BY <1>2, <1>3

\* The inductive invariant, for any arguments, any input and any cut.
THEOREM HexylInvariance == SpecHexyl => []HexylIInv
<1>1. InitHexyl => HexylIInv
  BY HexylInit
<1>2. HexylIInv /\ [NextHexyl]_vars => HexylIInv'
  BY HexylStep
<1> QED BY <1>1, <1>2, PTL DEF SpecHexyl

\* Whatever hexyl is asked for and wherever its reads stop, it prints those bytes
\* once, in order, at their positions, and squeezes just the lines that repeat a
\* line of one byte (lib.rs:676-890, main.rs:322-367, input.rs:18-55).
THEOREM HexylPrintsWhatIsAskedFor == SpecHexyl => []PrintsWhatIsAskedFor
BY HexylInvariance, HexylHolds, PTL
=============================================================================
