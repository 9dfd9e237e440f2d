--------------------------- MODULE WGetoptProofs ---------------------------
(* For all arguments and tables of options: the ranges of skipped non-options *)
(* and of options after them stay in order and within argv, as each part of a *)
(* call hands the next one indices it can go on from; the three versions do   *)
(* the same, as the loop of swaps is a rotation; and the calls return the     *)
(* options of argv in order, as each call tells the next thing to be told of  *)
(* the elements used and left so far and of those from the index on.          *)
EXTENDS ScannedArgv, WellFoundedInduction, TLAPS

\* The fields of a scanner; what argv, text and arg hold does not matter to the
\* indices.
Fields(s) ==
    s = [argv |-> s.argv, argc |-> s.argc, index |-> s.index, first |-> s.first,
         last |-> s.last, text |-> s.text, arg |-> s.arg, opt |-> s.opt,
         unrecognized |-> s.unrecognized, marker |-> s.marker,
         colon |-> s.colon, longs |-> s.longs]

Indices(s) == /\ Fields(s)
              /\ s.argc \in Nat \ {0} /\ s.index \in Nat
              /\ s.first \in Nat /\ s.last \in Nat
              /\ s.longs \in {<<>>, LongTable}

\* Between two calls of a caller that stopped at no unknown option.
Ready(s) == /\ Indices(s)
            /\ s.opt # "found"
            /\ s.index = 0 => s.text = <<>> /\ s.opt # "end"
            /\ s.index > 0 =>
                /\ InOrder(s)
                /\ s.text # <<>> => s.index < s.argc

\* Within a call, when next_argv looks for an element.
Looking(s) == Indices(s) /\ InOrder(s) /\ s.opt # "end"

\* Within a call, at the text of an option.
Decoding(s) == Looking(s) /\ s.index < s.argc

\* After a call: the next one may come, or this one strayed.
Called(s) == Indices(s) /\ s.index > 0 /\ s.opt # "found" /\ (Strays(s) \/ Ready(s))

-----------------------------------------------------------------------------
\* A nonempty set of naturals has a least element.
LEMMA Least ==
    ASSUME NEW S, S \subseteq Nat, S # {}
    PROVE  \E i \in S : \A j \in S : i <= j
<1> DEFINE R == {p \in Nat \X Nat : p[1] < p[2]}
<1>1. IsWellFoundedOn(R, Nat)
  BY NatLessThanWellFounded DEF OpToRel
<1>2. PICK i \in S : \A j \in S : <<j, i>> \notin R
  <2> HIDE DEF R
  <2> QED BY <1>1, WFMin
<1>3. \A j \in S : ~(j < i)
  BY <1>2
<1> QED BY <1>3

-----------------------------------------------------------------------------
\* exchange.  Both forms move the options in front of the non-options
\* before them.
Rotated == [x \in Ranges |-> RotateLeft(x.argv, x.bottom, x.middle, x.top)]

\* The segments to swap still, once the shorter one is at its place.
LowerPlaced(x) ==
    LET below == x.middle - x.bottom
    IN  [x EXCEPT !.top = @ - below,
                  !.argv = Swapped(@, x.bottom, x.top - below, below)]
UpperPlaced(x) ==
    LET above == x.top - x.middle
    IN  [x EXCEPT !.bottom = @ + above,
                  !.argv = Swapped(@, x.bottom, x.middle, above)]

SwapLoopStep(f, x) ==
    IF x.middle - x.bottom <= 0 \/ x.top - x.middle <= 0 THEN x.argv
    ELSE IF x.top - x.middle > x.middle - x.bottom THEN f[LowerPlaced(x)]
    ELSE f[UpperPlaced(x)]

Segments(argv, bottom, middle, top) ==
    [argv |-> argv, bottom |-> bottom, middle |-> middle, top |-> top]

LEMMA RangeFields ==
    ASSUME NEW x \in Ranges
    PROVE  /\ x = Segments(x.argv, x.bottom, x.middle, x.top)
           /\ x.argv \in Seq(Elements)
           /\ x.bottom \in Nat /\ x.middle \in Nat /\ x.top \in Nat
           /\ x.bottom <= x.middle /\ x.middle <= x.top /\ x.top <= Len(x.argv)
BY DEF Ranges, Segments

LEMMA SameElements ==
    ASSUME NEW S, NEW s \in Seq(S), NEW t, DOMAIN t = DOMAIN s,
           t = [k \in DOMAIN t |-> t[k]],
           \A k \in DOMAIN t : \E i \in DOMAIN s : t[k] = s[i]
    PROVE  t \in Seq(S) /\ Len(t) = Len(s)
<1>1. DOMAIN t = 1..Len(s) /\ Len(s) \in Nat
  OBVIOUS
<1>2. \A i \in DOMAIN s : s[i] \in S
  OBVIOUS
<1>3. t \in [1..Len(s) -> S]
  BY <1>1, <1>2
<1> QED BY <1>1, <1>3

LEMMA SwappedInRange ==
    ASSUME NEW argv \in Seq(Elements), NEW i \in Nat, NEW j \in Nat, NEW n \in Nat,
           i + n <= j, j + n <= Len(argv)
    PROVE  Swapped(argv, i, j, n) \in Seq(Elements)
           /\ Len(Swapped(argv, i, j, n)) = Len(argv)
<1> DEFINE t == Swapped(argv, i, j, n)
<1>1. DOMAIN t = DOMAIN argv /\ t = [k \in DOMAIN t |-> t[k]]
  BY DEF Swapped
<1>2. \A k \in DOMAIN t : \E l \in DOMAIN argv : t[k] = argv[l]
  <2> SUFFICES ASSUME NEW k \in DOMAIN argv PROVE \E l \in DOMAIN argv : t[k] = argv[l]
    BY <1>1
  <2>1. t[k] = IF k \in i + 1..i + n THEN argv[k + j - i]
               ELSE IF k \in j + 1..j + n THEN argv[k + i - j] ELSE argv[k]
    BY DEF Swapped
  <2>2. k \in 1..Len(argv)
    OBVIOUS
  <2> HIDE DEF t
  <2>3. CASE k \in i + 1..i + n
    <3>1. k + j - i \in DOMAIN argv
      BY <2>3
    <3> QED BY <2>1, <2>3, <3>1
  <2>4. CASE k \notin i + 1..i + n /\ k \in j + 1..j + n
    <3>1. k + i - j \in DOMAIN argv
      BY <2>4
    <3> QED BY <2>1, <2>4, <3>1
  <2>5. CASE k \notin i + 1..i + n /\ k \notin j + 1..j + n
    BY <2>1, <2>5
  <2> QED BY <2>3, <2>4, <2>5
<1> HIDE DEF t
<1>3. t \in Seq(Elements) /\ Len(t) = Len(argv)
  BY <1>1, <1>2, SameElements
<1> QED BY <1>3 DEF t

LEMMA RotateLeftInRange ==
    ASSUME NEW argv \in Seq(Elements), NEW left \in Nat, NEW middle \in Nat,
           NEW right \in Nat, left <= middle, middle <= right, right <= Len(argv)
    PROVE  RotateLeft(argv, left, middle, right) \in Seq(Elements)
           /\ Len(RotateLeft(argv, left, middle, right)) = Len(argv)
<1> DEFINE t == RotateLeft(argv, left, middle, right)
<1>1. DOMAIN t = DOMAIN argv /\ t = [k \in DOMAIN t |-> t[k]]
  BY DEF RotateLeft
<1>2. \A k \in DOMAIN t : \E l \in DOMAIN argv : t[k] = argv[l]
  <2> SUFFICES ASSUME NEW k \in DOMAIN argv PROVE \E l \in DOMAIN argv : t[k] = argv[l]
    BY <1>1
  <2>1. t[k] = IF k \in left + 1..left + right - middle THEN argv[k + middle - left]
               ELSE IF k \in left + right - middle + 1..right THEN argv[k - right + middle]
               ELSE argv[k]
    BY DEF RotateLeft
  <2>2. k \in 1..Len(argv)
    OBVIOUS
  <2> HIDE DEF t
  <2>3. CASE k \in left + 1..left + right - middle
    <3>1. k + middle - left \in DOMAIN argv
      BY <2>3
    <3> QED BY <2>1, <2>3, <3>1
  <2>4. CASE k \notin left + 1..left + right - middle /\ k \in left + right - middle + 1..right
    <3>1. k - right + middle \in DOMAIN argv
      BY <2>4
    <3> QED BY <2>1, <2>4, <3>1
  <2>5. CASE k \notin left + 1..left + right - middle /\ k \notin left + right - middle + 1..right
    BY <2>1, <2>5
  <2> QED BY <2>3, <2>4, <2>5
<1> HIDE DEF t
<1>3. t \in Seq(Elements) /\ Len(t) = Len(argv)
  BY <1>1, <1>2, SameElements
<1> QED BY <1>3 DEF t

\* A pass of the loop leaves a smaller range, to be rotated to the same.
LEMMA LowerPlacedRotates ==
    ASSUME NEW x \in Ranges, x.middle > x.bottom, x.top - x.middle > x.middle - x.bottom
    PROVE  LET y == LowerPlaced(x)
           IN  /\ y \in Ranges
               /\ y.top - y.bottom < x.top - x.bottom
               /\ RotateLeft(y.argv, y.bottom, y.middle, y.top)
                  = RotateLeft(x.argv, x.bottom, x.middle, x.top)
<1> DEFINE a == x.argv  b == x.bottom  m == x.middle  t == x.top
           below == m - b
           s == Swapped(a, b, t - below, below)
           y == LowerPlaced(x)
<1>1. /\ x = Segments(a, b, m, t) /\ a \in Seq(Elements)
      /\ b \in Nat /\ m \in Nat /\ t \in Nat
      /\ b < m /\ m < t /\ t <= Len(a) /\ t - m > below
  BY RangeFields
<1>2. y = Segments(s, b, m, t - below)
  <2>1. y = [x EXCEPT !.top = t - below, !.argv = s]
    BY DEF LowerPlaced
  <2> HIDE DEF y, s
  <2> QED BY <1>1, <2>1 DEF Segments
<1> HIDE DEF y
<1>3. /\ y.argv = s /\ y.bottom = b /\ y.middle = m /\ y.top = t - below
  BY <1>2 DEF Segments
<1>x. below \in Nat /\ t - below \in Nat /\ b + below = m /\ m + below < t
  BY <1>1
<1> HIDE DEF a, b, m, t
<1>4. s \in Seq(Elements) /\ Len(s) = Len(a)
  BY <1>1, <1>x, SwappedInRange
<1>5. y \in Ranges
  BY <1>1, <1>2, <1>4, <1>x DEF Ranges, Segments
<1>6. y.top - y.bottom < t - b
  BY <1>1, <1>3
<1>7. RotateLeft(s, b, m, t - below) = RotateLeft(a, b, m, t)
  <2>1. DOMAIN s = 1..Len(a) /\ DOMAIN a = 1..Len(a)
    BY <1>1, <1>4
  <2>2. ASSUME NEW k \in 1..Len(a)
        PROVE  RotateLeft(s, b, m, t - below)[k] = RotateLeft(a, b, m, t)[k]
    <3>1. \A n \in 1..Len(a) :
             s[n] = IF n \in b + 1..m THEN a[n + t - below - b]
                    ELSE IF n \in t - below + 1..t THEN a[n + b - (t - below)]
                    ELSE a[n]
      BY <1>1, <1>x, <2>1 DEF Swapped
    <3>2. RotateLeft(s, b, m, t - below)[k] =
             IF k \in b + 1..b + t - below - m THEN s[k + below]
             ELSE IF k \in b + t - below - m + 1..t - below THEN s[k - (t - below) + m]
             ELSE s[k]
      BY <1>1, <1>x, <2>1, <2>2 DEF RotateLeft
    <3>3. RotateLeft(a, b, m, t)[k] =
             IF k \in b + 1..b + t - m THEN a[k + below]
             ELSE IF k \in b + t - m + 1..t THEN a[k - t + m]
             ELSE a[k]
      BY <1>1, <1>x, <2>1, <2>2 DEF RotateLeft
    <3> HIDE DEF s
    <3>4. CASE k \in b + 1..b + t - below - m
      <4>1. k + below \in 1..Len(a) /\ k + below \notin b + 1..m
            /\ k + below \notin t - below + 1..t
        BY <1>1, <1>x, <3>4
      <4>2. k \in b + 1..b + t - m
        BY <1>1, <1>x, <3>4
      <4>3. s[k + below] = a[k + below]
        BY <3>1, <4>1
      <4> QED BY <3>2, <3>3, <3>4, <4>2, <4>3
    <3>5. CASE k \in b + t - below - m + 1..t - below
      <4>1. k - (t - below) + m \in b + 1..m /\ k - (t - below) + m \in 1..Len(a)
        BY <1>1, <1>x, <3>5
      <4>2. s[k - (t - below) + m] = a[k - (t - below) + m + t - below - b]
        BY <3>1, <4>1
      <4>3. k - (t - below) + m + t - below - b = k + below
        BY <1>1, <1>x
      <4>4. k \in b + 1..b + t - m /\ k \notin b + 1..b + t - below - m
        BY <1>1, <1>x, <3>5
      <4> QED BY <3>2, <3>3, <3>5, <4>2, <4>3, <4>4
    <3>6. CASE k \in t - below + 1..t
      <4>1. /\ k \notin b + 1..b + t - below - m
            /\ k \notin b + t - below - m + 1..t - below
            /\ k \notin b + 1..m /\ k \notin b + 1..b + t - m
            /\ k \in b + t - m + 1..t
        BY <1>1, <1>x, <3>6
      <4>2. k + b - (t - below) = k - t + m
        BY <1>1, <1>x
      <4> QED BY <3>1, <3>2, <3>3, <3>6, <4>1, <4>2
    <3>7. CASE k \notin b + 1..t
      <4>1. /\ k \notin b + 1..b + t - below - m
            /\ k \notin b + t - below - m + 1..t - below
            /\ k \notin b + 1..m /\ k \notin b + 1..b + t - m
            /\ k \notin b + t - m + 1..t /\ k \notin t - below + 1..t
        BY <1>1, <1>x, <3>7
      <4> QED BY <3>1, <3>2, <3>3, <4>1
    <3> QED
      <4>1. \/ k \in b + 1..b + t - below - m
            \/ k \in b + t - below - m + 1..t - below
            \/ k \in t - below + 1..t \/ k \notin b + 1..t
        BY <1>1, <1>x
      <4> QED BY <4>1, <3>4, <3>5, <3>6, <3>7
  <2>3. /\ RotateLeft(s, b, m, t - below) =
             [k \in 1..Len(a) |-> RotateLeft(s, b, m, t - below)[k]]
        /\ RotateLeft(a, b, m, t) = [k \in 1..Len(a) |-> RotateLeft(a, b, m, t)[k]]
    BY <2>1 DEF RotateLeft
  <2> QED BY <2>2, <2>3
<1> QED BY <1>3, <1>5, <1>6, <1>7 DEF y, a, b, m, t

LEMMA UpperPlacedRotates ==
    ASSUME NEW x \in Ranges, x.middle > x.bottom, x.top > x.middle,
           x.top - x.middle <= x.middle - x.bottom
    PROVE  LET y == UpperPlaced(x)
           IN  /\ y \in Ranges
               /\ y.top - y.bottom < x.top - x.bottom
               /\ RotateLeft(y.argv, y.bottom, y.middle, y.top)
                  = RotateLeft(x.argv, x.bottom, x.middle, x.top)
<1> DEFINE a == x.argv  b == x.bottom  m == x.middle  t == x.top
           above == t - m
           s == Swapped(a, b, m, above)
           y == UpperPlaced(x)
<1>1. /\ x = Segments(a, b, m, t) /\ a \in Seq(Elements)
      /\ b \in Nat /\ m \in Nat /\ t \in Nat
      /\ b < m /\ m < t /\ t <= Len(a) /\ above <= m - b
  BY RangeFields
<1>2. y = Segments(s, b + above, m, t)
  <2>1. y = [x EXCEPT !.bottom = b + above, !.argv = s]
    BY DEF UpperPlaced
  <2> HIDE DEF y, s
  <2> QED BY <1>1, <2>1 DEF Segments
<1> HIDE DEF y
<1>3. /\ y.argv = s /\ y.bottom = b + above /\ y.middle = m /\ y.top = t
  BY <1>2 DEF Segments
<1>x. above \in Nat /\ above > 0 /\ b + above \in Nat /\ b + above <= m /\ m + above = t
  BY <1>1
<1> HIDE DEF a, b, m, t
<1>4. s \in Seq(Elements) /\ Len(s) = Len(a)
  BY <1>1, <1>x, SwappedInRange
<1>5. y \in Ranges
  BY <1>1, <1>2, <1>4, <1>x DEF Ranges, Segments
<1>6. y.top - y.bottom < t - b
  BY <1>1, <1>3, <1>x
<1>7. RotateLeft(s, b + above, m, t) = RotateLeft(a, b, m, t)
  <2>1. DOMAIN s = 1..Len(a) /\ DOMAIN a = 1..Len(a)
    BY <1>1, <1>4
  <2>2. ASSUME NEW k \in 1..Len(a)
        PROVE  RotateLeft(s, b + above, m, t)[k] = RotateLeft(a, b, m, t)[k]
    <3>1. \A n \in 1..Len(a) :
             s[n] = IF n \in b + 1..b + above THEN a[n + m - b]
                    ELSE IF n \in m + 1..t THEN a[n + b - m]
                    ELSE a[n]
      BY <1>1, <1>x, <2>1 DEF Swapped
    <3>2. RotateLeft(s, b + above, m, t)[k] =
             IF k \in b + above + 1..b + above + above THEN s[k + m - (b + above)]
             ELSE IF k \in b + above + above + 1..t THEN s[k - above]
             ELSE s[k]
      <4>1. RotateLeft(s, b + above, m, t)[k] =
             IF k \in b + above + 1..b + above + t - m THEN s[k + m - (b + above)]
             ELSE IF k \in b + above + t - m + 1..t THEN s[k - t + m]
             ELSE s[k]
        BY <2>1, <2>2 DEF RotateLeft
      <4>2. b + above + t - m = b + above + above /\ k - t + m = k - above
        BY <1>1, <1>x
      <4> HIDE DEF s
      <4> QED BY <4>1, <4>2
    <3>3. RotateLeft(a, b, m, t)[k] =
             IF k \in b + 1..b + above THEN a[k + m - b]
             ELSE IF k \in b + above + 1..t THEN a[k - above]
             ELSE a[k]
      <4>1. RotateLeft(a, b, m, t)[k] =
             IF k \in b + 1..b + t - m THEN a[k + m - b]
             ELSE IF k \in b + t - m + 1..t THEN a[k - t + m]
             ELSE a[k]
        BY <2>1, <2>2 DEF RotateLeft
      <4>2. b + t - m = b + above /\ k - t + m = k - above
        BY <1>1, <1>x
      <4> QED BY <4>1, <4>2
    <3> HIDE DEF s
    <3>4. CASE k \in b + 1..b + above
      <4>1. /\ k \notin b + above + 1..b + above + above
            /\ k \notin b + above + above + 1..t
        BY <1>1, <1>x, <3>4
      <4> QED BY <3>1, <3>2, <3>3, <3>4, <4>1
    <3>5. CASE k \in b + above + 1..b + above + above /\ k <= t
      <4>1. /\ k + m - (b + above) \in m + 1..t /\ k + m - (b + above) \in 1..Len(a)
            /\ k + m - (b + above) \notin b + 1..b + above
        BY <1>1, <1>x, <3>5
      <4>2. s[k + m - (b + above)] = a[k + m - (b + above) + b - m]
        BY <3>1, <4>1
      <4>3. k + m - (b + above) + b - m = k - above
        BY <1>1, <1>x
      <4>4. k \in b + above + 1..t /\ k \notin b + 1..b + above
        BY <1>1, <1>x, <3>5
      <4> QED BY <3>2, <3>3, <3>5, <4>2, <4>3, <4>4
    <3>6. CASE k \in b + above + above + 1..t
      <4>1. /\ k - above \in 1..Len(a) /\ k - above \notin b + 1..b + above
            /\ k - above \notin m + 1..t
            /\ k \notin b + above + 1..b + above + above
            /\ k \in b + above + 1..t /\ k \notin b + 1..b + above
        BY <1>1, <1>x, <3>6
      <4> QED BY <3>1, <3>2, <3>3, <3>6, <4>1
    <3>7. CASE k \notin b + 1..t
      <4>1. /\ k \notin b + above + 1..b + above + above
            /\ k \notin b + above + above + 1..t
            /\ k \notin b + 1..b + above /\ k \notin m + 1..t
            /\ k \notin b + above + 1..t
        BY <1>1, <1>x, <3>7
      <4> QED BY <3>1, <3>2, <3>3, <4>1
    <3> QED
      <4>1. \/ k \in b + 1..b + above
            \/ k \in b + above + 1..b + above + above /\ k <= t
            \/ k \in b + above + above + 1..t \/ k \notin b + 1..t
        BY <1>1, <1>x
      <4> QED BY <4>1, <3>4, <3>5, <3>6, <3>7
  <2>3. /\ RotateLeft(s, b + above, m, t) =
             [k \in 1..Len(a) |-> RotateLeft(s, b + above, m, t)[k]]
        /\ RotateLeft(a, b, m, t) = [k \in 1..Len(a) |-> RotateLeft(a, b, m, t)[k]]
    BY <2>1 DEF RotateLeft
  <2> QED BY <2>2, <2>3
<1> QED BY <1>3, <1>5, <1>6, <1>7 DEF y, a, b, m, t

\* Nothing to rotate.
LEMMA RotateNothing ==
    ASSUME NEW x \in Ranges, x.middle = x.bottom \/ x.top = x.middle
    PROVE  RotateLeft(x.argv, x.bottom, x.middle, x.top) = x.argv
<1> DEFINE a == x.argv  b == x.bottom  m == x.middle  t == x.top
<1>1. /\ a \in Seq(Elements) /\ b \in Nat /\ m \in Nat /\ t \in Nat
      /\ b <= m /\ m <= t /\ t <= Len(a) /\ (m = b \/ t = m)
  BY RangeFields
<1> HIDE DEF a, b, m, t
<1>2. \A k \in DOMAIN a : RotateLeft(a, b, m, t)[k] = a[k]
  BY <1>1 DEF RotateLeft
<1>3. DOMAIN RotateLeft(a, b, m, t) = DOMAIN a
      /\ RotateLeft(a, b, m, t) = [k \in DOMAIN a |-> RotateLeft(a, b, m, t)[k]]
  BY DEF RotateLeft
<1>4. a = [k \in DOMAIN a |-> a[k]]
  BY <1>1
<1>5. RotateLeft(a, b, m, t) = a
  BY <1>2, <1>3, <1>4
<1> QED BY <1>5 DEF a, b, m, t

\* The loop of swaps is defined for every range, and is a rotation
\* (wgetopt.cpp:78-106, wgetopt.rs:201).
LEMMA RotatedSteps == \A x \in Ranges : Rotated[x] = SwapLoopStep(Rotated, x)
<1> SUFFICES ASSUME NEW x \in Ranges PROVE Rotated[x] = SwapLoopStep(Rotated, x)
  OBVIOUS
<1>1. /\ x.bottom \in Nat /\ x.middle \in Nat /\ x.top \in Nat
      /\ x.bottom <= x.middle /\ x.middle <= x.top
  BY RangeFields
<1>2. \A y \in Ranges : Rotated[y] = RotateLeft(y.argv, y.bottom, y.middle, y.top)
  BY DEF Rotated
<1>3. CASE x.middle = x.bottom \/ x.top = x.middle
  BY <1>1, <1>2, <1>3, RotateNothing DEF SwapLoopStep
<1>4. CASE x.middle > x.bottom /\ x.top - x.middle > x.middle - x.bottom
  <2>1. Rotated[LowerPlaced(x)] = Rotated[x]
    BY <1>2, <1>4, LowerPlacedRotates
  <2>2. SwapLoopStep(Rotated, x) = Rotated[LowerPlaced(x)]
    BY <1>1, <1>4 DEF SwapLoopStep
  <2> QED BY <2>1, <2>2
<1>5. CASE /\ x.middle > x.bottom /\ x.top > x.middle
           /\ x.top - x.middle <= x.middle - x.bottom
  <2>1. Rotated[UpperPlaced(x)] = Rotated[x]
    BY <1>2, <1>5, UpperPlacedRotates
  <2>2. SwapLoopStep(Rotated, x) = Rotated[UpperPlaced(x)]
    BY <1>1, <1>5 DEF SwapLoopStep
  <2> QED BY <2>1, <2>2
<1> QED BY <1>1, <1>3, <1>4, <1>5

LEMMA SwapLoopSteps == \A x \in Ranges : SwapLoop[x] = SwapLoopStep(SwapLoop, x)
<1> DEFINE Fits(f) == f = [x \in Ranges |-> SwapLoopStep(f, x)]
<1>1. Fits(Rotated)
  <2>1. Rotated = [x \in Ranges |-> Rotated[x]]
    BY DEF Rotated
  <2> HIDE DEF Rotated
  <2> QED BY <2>1, RotatedSteps
<1>2. SwapLoop = CHOOSE f : Fits(f)
  BY DEF SwapLoop, SwapLoopStep, LowerPlaced, UpperPlaced
<1> HIDE DEF Fits
<1>3. Fits(SwapLoop)
  BY <1>1, <1>2
<1> QED BY <1>3 DEF Fits

LEMMA SwapLoopRotates == \A x \in Ranges : SwapLoop[x] = Rotated[x]
<1> DEFINE Wrong == {x \in Ranges : SwapLoop[x] # Rotated[x]}
           Widths == {x.top - x.bottom : x \in Wrong}
<1> SUFFICES ASSUME Wrong # {} PROVE FALSE
  OBVIOUS
<1>1. Widths \subseteq Nat /\ Widths # {}
  <2>1. \A x \in Ranges : x.top - x.bottom \in Nat
    <3> SUFFICES ASSUME NEW x \in Ranges PROVE x.top - x.bottom \in Nat
      OBVIOUS
    <3> QED BY RangeFields
  <2> QED BY <2>1
<1>2. PICK x \in Wrong : \A y \in Wrong : x.top - x.bottom <= y.top - y.bottom
  <2> HIDE DEF Widths
  <2>1. PICK w \in Widths : \A n \in Widths : w <= n
    BY <1>1, Least
  <2> QED BY <2>1 DEF Widths
<1>3. x \in Ranges /\ SwapLoop[x] # Rotated[x]
  OBVIOUS
<1>4. /\ x.bottom \in Nat /\ x.middle \in Nat /\ x.top \in Nat
      /\ x.bottom <= x.middle /\ x.middle <= x.top
  BY <1>3, RangeFields
<1>5. ASSUME NEW y \in Ranges, y.top - y.bottom < x.top - x.bottom
      PROVE  SwapLoop[y] = Rotated[y]
  <2>1. y.top \in Nat /\ y.bottom \in Nat
    BY RangeFields
  <2> QED BY <1>2, <1>4, <1>5, <2>1
<1> HIDE DEF Wrong, Widths
<1>6. SwapLoopStep(SwapLoop, x) = SwapLoopStep(Rotated, x)
  <2>1. CASE x.middle - x.bottom <= 0 \/ x.top - x.middle <= 0
    BY <2>1 DEF SwapLoopStep
  <2>2. CASE x.middle > x.bottom /\ x.top - x.middle > x.middle - x.bottom
    <3>1. SwapLoop[LowerPlaced(x)] = Rotated[LowerPlaced(x)]
      BY <1>3, <1>5, <2>2, LowerPlacedRotates
    <3> QED BY <1>4, <2>2, <3>1 DEF SwapLoopStep
  <2>3. CASE /\ x.middle > x.bottom /\ x.top > x.middle
             /\ x.top - x.middle <= x.middle - x.bottom
    <3>1. SwapLoop[UpperPlaced(x)] = Rotated[UpperPlaced(x)]
      BY <1>3, <1>5, <2>3, UpperPlacedRotates
    <3> QED BY <1>4, <2>3, <3>1 DEF SwapLoopStep
  <2> QED BY <1>4, <2>1, <2>2, <2>3
<1> QED BY <1>3, <1>6, RotatedSteps, SwapLoopSteps

-----------------------------------------------------------------------------
\* The skip of non-options ends at an option or at argc.
LEMMA NextOptionInRange ==
    ASSUME NEW s, Indices(s), s.index <= s.argc
    PROVE  LET n == NextOption(s)
           IN  /\ n \in s.index..s.argc
               /\ n < s.argc => ~NonOption(Element(s, n))
               /\ \A j \in s.index..n - 1 : NonOption(Element(s, j))
<1> DEFINE Here(i) == i < s.argc => ~NonOption(Element(s, i))
           S == {i \in s.index..s.argc : Here(i)}
<1>1. s.index \in Nat /\ s.argc \in Nat /\ s.index <= s.argc
  BY DEF Indices
<1>2. s.argc \in S
  BY <1>1
<1>3. S \subseteq Nat
  BY <1>1
<1> HIDE DEF Here
<1>4. PICK i \in S : \A j \in S : i <= j
  BY <1>2, <1>3, Least
<1>5. /\ i \in s.index..s.argc /\ Here(i)
      /\ \A j \in s.index..i - 1 : ~Here(j)
  BY <1>1, <1>4
<1>6. \A j \in s.index..i - 1 : NonOption(Element(s, j))
  BY <1>5 DEF Here
<1>7. \E n \in s.index..s.argc :
        /\ n < s.argc => ~NonOption(Element(s, n))
        /\ \A j \in s.index..n - 1 : NonOption(Element(s, j))
  BY <1>5, <1>6 DEF Here
<1> QED BY <1>7 DEF NextOption
-----------------------------------------------------------------------------
\* next_argv.  Its steps change nothing but argv and the indices.
Kept(s, t) == /\ t.argc = s.argc /\ t.longs = s.longs
              /\ t.text = s.text /\ t.opt = s.opt /\ t.arg = s.arg
              /\ t.marker = s.marker /\ t.colon = s.colon

LEMMA ExchangeMoves ==
    ASSUME NEW v, NEW s, Indices(s), s.last <= s.index,
           NEW t, t = Exchange(v, s)
    PROVE  /\ Indices(t) /\ Kept(s, t) /\ t.index = s.index
           /\ t.first = s.first + s.index - s.last /\ t.last = s.index
<1>1. PICK argv : t = [s EXCEPT !.argv = argv, !.first = s.first + s.index - s.last,
                                !.last = s.index]
  BY DEF Exchange
<1>2. Fields(t)
  BY <1>1 DEF Indices, Fields
<1>3. /\ Kept(s, t) /\ t.index = s.index
      /\ t.first = s.first + s.index - s.last /\ t.last = s.index
  BY <1>1 DEF Indices, Fields, Kept
<1> QED BY <1>2, <1>3 DEF Indices, Kept

LEMMA RegroupInRange ==
    ASSUME NEW v, NEW s, Looking(s), NEW t, t = Regroup(v, s)
    PROVE  /\ Indices(t) /\ Kept(s, t) /\ t.index = s.index
           /\ 1 <= t.first /\ t.first <= t.index
<1> USE DEF Looking, InOrder, Indices
<1>1. CASE s.last = s.index
  BY <1>1 DEF Regroup, Kept
<1>2. CASE s.last # s.index /\ s.first = s.last
  <2>1. t = [s EXCEPT !.first = s.index]
    BY <1>2 DEF Regroup
  <2>2. Fields(t) /\ Kept(s, t) /\ t.index = s.index /\ t.first = s.index /\ t.last = s.last
    BY <2>1 DEF Fields, Kept
  <2> QED BY <2>2 DEF Kept
<1>3. CASE s.last # s.index /\ s.first # s.last
  <2>1. t = Exchange(v, s)
    BY <1>3 DEF Regroup
  <2> QED BY <2>1, <1>3, ExchangeMoves
<1> QED BY <1>1, <1>2, <1>3

LEMMA PermutedLooks ==
    ASSUME NEW v, NEW s, Looking(s), NEW t, t = Permuted(v, s)
    PROVE  Looking(t) /\ Kept(s, t)
<1>1. CASE s.marker # ""
  BY <1>1 DEF Permuted, Kept
<1>2. CASE s.marker = ""
  <2> DEFINE r == Regroup(v, s)
  <2>1. /\ Indices(r) /\ Kept(s, r) /\ r.index = s.index
        /\ 1 <= r.first /\ r.first <= r.index
    BY RegroupInRange
  <2>2. t = [r EXCEPT !.index = NextOption(r), !.last = NextOption(r)]
    BY <1>2 DEF Permuted, SkipNonOptions
  <2>3. r.argc = s.argc /\ s.index <= s.argc /\ s.opt # "end"
    BY <2>1 DEF Looking, InOrder, Kept
  <2> HIDE DEF r
  <2>4. NextOption(r) \in r.index..r.argc
    BY <2>1, <2>3, NextOptionInRange
  <2>5. /\ Fields(t) /\ Kept(r, t) /\ t.first = r.first
        /\ t.index = NextOption(r) /\ t.last = NextOption(r)
    BY <2>1, <2>2 DEF Indices, Fields, Kept
  <2> QED BY <2>1, <2>3, <2>4, <2>5 DEF Looking, Indices, InOrder, Kept
<1> QED BY <1>1, <1>2

LEMMA EndOptionsLooks ==
    ASSUME NEW v, NEW s, Looking(s), NEW t, t = EndOptions(v, s)
    PROVE  Looking(t) /\ Kept(s, t)
<1> DEFINE ends == s.index < s.argc /\ Element(s, s.index) = <<"-", "-">>
           p == [s EXCEPT !.index = @ + 1]
           Past(u) == [u EXCEPT !.last = s.argc, !.index = s.argc]
<1>1. CASE ~ends
  BY <1>1 DEF EndOptions, Kept
<1>2. CASE ends
  <2>1. /\ Indices(p) /\ Kept(s, p) /\ p.index = s.index + 1
        /\ p.first = s.first /\ p.last = s.last
    <3>1. Fields(p) /\ Kept(s, p) /\ p.index = s.index + 1
          /\ p.first = s.first /\ p.last = s.last
      BY DEF Looking, Indices, Fields, Kept
    <3> QED BY <3>1 DEF Looking, Indices, Kept
  <2>2. /\ 1 <= s.first /\ s.first <= s.last /\ s.last <= s.index
        /\ s.index < s.argc /\ s.opt # "end"
    BY <1>2 DEF Looking, InOrder
  <2> HIDE DEF p
  <2>3. ASSUME NEW u, t = Past(u), Indices(u), Kept(s, u),
               1 <= u.first, u.first <= s.argc
        PROVE  Looking(t) /\ Kept(s, t)
    <3>1. /\ Fields(t) /\ Kept(u, t) /\ t.first = u.first
          /\ t.last = s.argc /\ t.index = s.argc
      BY <2>3 DEF Indices, Fields, Kept
    <3> QED BY <2>2, <2>3, <3>1 DEF Looking, Indices, InOrder, Kept
  <2>4. CASE p.first = p.last
    <3> DEFINE u == [p EXCEPT !.first = p.index]
    <3>1. t = Past(u)
      BY <1>2, <2>4 DEF EndOptions, p
    <3>2. /\ Fields(u) /\ Kept(p, u) /\ u.index = p.index /\ u.last = p.last
          /\ u.first = p.index
      BY <2>1 DEF Indices, Fields, Kept
    <3> HIDE DEF u, Past
    <3>3. Indices(u) /\ Kept(s, u) /\ 1 <= u.first /\ u.first <= s.argc
      BY <2>1, <2>2, <3>2 DEF Looking, Indices, Kept
    <3> QED BY <2>3, <3>1, <3>3
  <2>5. CASE p.first # p.last
    <3>1. p.last # p.index
      BY <2>1, <2>2 DEF Looking, Indices
    <3>2. t = Past(Exchange(v, p))
      BY <1>2, <2>5, <3>1 DEF EndOptions, p
    <3>3. /\ Indices(Exchange(v, p)) /\ Kept(p, Exchange(v, p))
          /\ Exchange(v, p).first = p.first + p.index - p.last
      BY <2>1, <2>2, ExchangeMoves DEF Looking, Indices
    <3> DEFINE u == Exchange(v, p)
    <3> HIDE DEF u, Past
    <3>4. Kept(s, u) /\ 1 <= u.first /\ u.first <= s.argc
      BY <2>1, <2>2, <3>3 DEF u, Looking, Indices, Kept
    <3> QED BY <2>3, <3>2, <3>3, <3>4 DEF u
  <2> QED BY <2>4, <2>5
<1> QED BY <1>1, <1>2

LEMMA NextArgvReady ==
    ASSUME NEW v, NEW s, Looking(s), s.text = <<>>, s.opt # "found",
           NEW t, t = NextArgv(v, s)
    PROVE  \/ t.opt = "found" /\ Decoding(t)
           \/ t.opt # "found" /\ t.index > 0 /\ Ready(t) /\ t.text = <<>>
<1> DEFINE r == EndOptions(v, Permuted(v, s))
<1>1. Looking(r) /\ r.text = <<>> /\ r.opt # "found"
  BY PermutedLooks, EndOptionsLooks DEF Kept
<1>2. t = IF r.index = r.argc THEN Finished(r)
          ELSE IF NonOption(Element(r, r.index)) THEN UnpermutedNonOption(r)
          ELSE FoundOption(r)
  BY DEF NextArgv
<1> HIDE DEF r
<1>3. /\ Fields(r) /\ r.argc \in Nat \ {0} /\ r.index \in Nat
      /\ r.first \in Nat /\ r.last \in Nat /\ r.longs \in {<<>>, LongTable}
      /\ 1 <= r.first /\ r.first <= r.last /\ r.last <= r.index
      /\ r.last <= r.argc /\ r.index <= r.argc /\ r.opt # "end"
  BY <1>1 DEF Looking, Indices, InOrder
<1>4. CASE r.index = r.argc
  <2>1. t = [r EXCEPT !.opt = "end",
                      !.index = IF r.first # r.last THEN r.first ELSE r.index]
    BY <1>2, <1>4 DEF Finished
  <2>2. /\ Fields(t) /\ t.opt = "end" /\ t.text = r.text /\ t.argc = r.argc
        /\ t.longs = r.longs
        /\ t.index = IF r.first # r.last THEN r.first ELSE r.index
        /\ t.first = r.first /\ t.last = r.last
    BY <1>3, <2>1 DEF Fields
  <2> QED BY <1>1, <1>3, <2>2 DEF Ready, Indices, InOrder
<1>5. CASE r.index # r.argc /\ NonOption(Element(r, r.index)) /\ r.marker = "+"
  <2>1. t = [r EXCEPT !.opt = "end"]
    BY <1>2, <1>5 DEF UnpermutedNonOption
  <2>2. /\ Fields(t) /\ t.opt = "end" /\ t.text = r.text /\ t.argc = r.argc
        /\ t.longs = r.longs
        /\ t.index = r.index /\ t.first = r.first /\ t.last = r.last
    BY <1>3, <2>1 DEF Fields
  <2> QED BY <1>1, <1>3, <2>2 DEF Ready, Indices, InOrder
<1>6. CASE r.index # r.argc /\ NonOption(Element(r, r.index)) /\ r.marker # "+"
  <2>1. t = [r EXCEPT !.opt = "nonopt", !.arg = <<Element(r, r.index)>>,
                      !.index = r.index + 1]
    BY <1>2, <1>6 DEF UnpermutedNonOption
  <2>2. /\ Fields(t) /\ t.opt = "nonopt" /\ t.text = r.text /\ t.argc = r.argc
        /\ t.longs = r.longs
        /\ t.index = r.index + 1 /\ t.first = r.first /\ t.last = r.last
    BY <1>3, <2>1 DEF Fields
  <2> QED BY <1>1, <1>3, <1>6, <2>2 DEF Ready, Indices, InOrder
<1>7. CASE r.index # r.argc /\ ~NonOption(Element(r, r.index))
  <2>1. PICK text : t = [r EXCEPT !.opt = "found", !.text = text]
    BY <1>2, <1>7 DEF FoundOption
  <2>2. /\ Fields(t) /\ t.opt = "found" /\ t.argc = r.argc
        /\ t.longs = r.longs
        /\ t.index = r.index /\ t.first = r.first /\ t.last = r.last
    BY <1>3, <2>1 DEF Fields
  <2> QED BY <1>1, <1>3, <1>7, <2>2 DEF Looking, Decoding, Indices, InOrder
<1> QED BY <1>4, <1>5, <1>6, <1>7
-----------------------------------------------------------------------------
\* What is left of a call passes the text, or the element, or both.
Passed(s, t) == /\ Fields(t) /\ t.argc = s.argc /\ t.longs = s.longs
                /\ t.first = s.first /\ t.last = s.last /\ t.argv = s.argv

\* argv stays as it is, and text that is left is that of the same element.
Stays(s, t) == /\ t.argv = s.argv /\ t.argc = s.argc /\ t.longs = s.longs
               /\ t.text # <<>> => Strays(t) \/ t.index = s.index

Decoded(s, t) == Called(t) /\ Stays(s, t)

LEMMA PassedIsCalled ==
    ASSUME NEW s, Decoding(s), NEW t, Passed(s, t), t.opt \notin {"found", "end"},
           t.index \in Nat, s.index <= t.index, t.index <= s.argc,
           t.text # <<>> /\ t.opt # "?" => t.index = s.index
    PROVE  Decoded(s, t)
BY DEF Decoding, Looking, Indices, InOrder, Passed, Called, Ready, Strays,
       Stays, Decoded

\* A short option, known or not, with or without its argument.
LEMMA HandleShortOptCalled ==
    ASSUME NEW s, Decoding(s), NEW t, t = HandleShortOpt(s)
    PROVE  Decoded(s, t)
<1> DEFINE char == s.text[1]
           rest == Skip(s.text, 1)
           next == IF rest = <<>> THEN s.index + 1 ELSE s.index
           p == [s EXCEPT !.text = rest, !.index = next]
           u == [p EXCEPT !.text = <<>>]
<1>1. /\ Fields(s) /\ s.index \in Nat /\ s.argc \in Nat /\ s.index < s.argc
  BY DEF Decoding, Looking, Indices
<1>2. char \in DOMAIN ShortOpts => char \notin {"found", "end"}
  BY WGetoptAssumption
<1>3. Missing(s) \notin {"found", "end"}
  BY DEF Missing
<1>a. p = [s EXCEPT !.text = rest, !.index = next]
  OBVIOUS
<1>b. u = [p EXCEPT !.text = <<>>]
  OBVIOUS
<1> HIDE DEF char, rest, next, p, u
<1>4. Passed(s, p) /\ p.text = rest /\ p.index = next
  BY <1>1, <1>a DEF Passed, Fields
<1>5. Passed(s, u) /\ u.text = <<>> /\ u.index = next
  BY <1>4, <1>b DEF Passed, Fields
<1>6. CASE char \notin DOMAIN ShortOpts
  <2>1. t = [p EXCEPT !.opt = "?", !.unrecognized = char, !.index = s.index + 1]
    BY <1>6 DEF HandleShortOpt, char, rest, next, p, u
  <2>2. Passed(s, t) /\ t.opt = "?" /\ t.index = s.index + 1
    BY <1>4, <2>1 DEF Passed, Fields
  <2> QED BY <1>1, <2>2, PassedIsCalled
<1>7. CASE char \in DOMAIN ShortOpts /\ ShortOpts[char] = "no"
  <2>1. t = [p EXCEPT !.opt = char]
    BY <1>7 DEF HandleShortOpt, char, rest, next, p, u
  <2>2. Passed(s, t) /\ t.opt = char /\ t.index = next /\ t.text = rest
    BY <1>4, <2>1 DEF Passed, Fields
  <2> QED BY <1>1, <1>2, <1>7, <2>2, PassedIsCalled DEF next
<1>8. CASE char \in DOMAIN ShortOpts /\ ShortOpts[char] # "no" /\ rest # <<>>
  <2>1. t = [u EXCEPT !.arg = <<rest>>, !.index = @ + 1, !.opt = char]
    BY <1>8 DEF HandleShortOpt, char, rest, next, p, u
  <2>2. Passed(s, t) /\ t.opt = char /\ t.index = s.index + 1 /\ t.text = <<>>
    BY <1>5, <1>8, <2>1 DEF Passed, Fields, next
  <2> QED BY <1>1, <1>2, <1>8, <2>2, PassedIsCalled
<1>9. CASE char \in DOMAIN ShortOpts /\ ShortOpts[char] = "optional" /\ rest = <<>>
  <2>1. t = [u EXCEPT !.opt = char]
    BY <1>9 DEF HandleShortOpt, char, rest, next, p, u
  <2>2. Passed(s, t) /\ t.opt = char /\ t.index = s.index + 1 /\ t.text = <<>>
    BY <1>5, <1>9, <2>1 DEF Passed, Fields, next
  <2> QED BY <1>1, <1>2, <1>9, <2>2, PassedIsCalled
<1>10. CASE /\ char \in DOMAIN ShortOpts /\ ShortOpts[char] # "no"
            /\ ShortOpts[char] # "optional" /\ rest = <<>>
  <2>1. t = IF u.index = u.argc
            THEN [u EXCEPT !.opt = Missing(s), !.unrecognized = char]
            ELSE TakeNext(u, char)
    BY <1>10 DEF HandleShortOpt, char, rest, next, p, u
  <2>2. u.argc = s.argc /\ u.index = s.index + 1
    BY <1>5, <1>10 DEF Passed, next
  <2>3. CASE u.index = u.argc
    <3>1. t = [u EXCEPT !.opt = Missing(s), !.unrecognized = char]
      BY <2>1, <2>3
    <3>2. Passed(s, t) /\ t.opt = Missing(s) /\ t.index = u.index /\ t.text = <<>>
      BY <1>5, <3>1 DEF Passed, Fields
    <3> QED BY <1>1, <1>3, <2>2, <3>2, PassedIsCalled
  <2>4. CASE u.index # u.argc
    <3>1. t = [u EXCEPT !.opt = char, !.arg = <<Element(u, u.index)>>,
                        !.index = @ + 1]
      BY <1>1, <2>1, <2>2, <2>4 DEF TakeNext
    <3>2. Passed(s, t) /\ t.opt = char /\ t.index = u.index + 1 /\ t.text = <<>>
      BY <1>5, <3>1 DEF Passed, Fields
    <3> QED BY <1>1, <1>2, <1>10, <2>2, <2>4, <3>2, PassedIsCalled
  <2> QED BY <2>3, <2>4
<1> QED BY <1>6, <1>7, <1>8, <1>9, <1>10

\* A long option that is refused.
LEMMA RejectCalled ==
    ASSUME NEW s, Decoding(s), NEW t, t = Reject(s)
    PROVE  Decoded(s, t) /\ t.text = <<>>
<1>1. /\ Fields(s) /\ s.index \in Nat /\ s.argc \in Nat /\ s.index < s.argc
  BY DEF Decoding, Looking, Indices
<1>2. t = [s EXCEPT !.text = <<>>, !.index = s.index + 1, !.opt = "?"]
  BY DEF Reject
<1>3. Passed(s, t) /\ t.opt = "?" /\ t.index = s.index + 1
  BY <1>1, <1>2 DEF Passed, Fields
<1>4. t.text = <<>>
  BY <1>1, <1>2 DEF Fields
<1> QED BY <1>1, <1>3, <1>4, PassedIsCalled

\* A long option that is found.
LEMMA UpdateLongOptPasses ==
    ASSUME NEW s, Decoding(s), NEW found, NEW end, NEW t, t = UpdateLongOpt(s, found, end)
    PROVE  /\ Passed(s, t) /\ t.text = <<>> /\ t.opt \in {"?", Missing(s), found.val}
           /\ t.index \in Nat /\ s.index <= t.index /\ t.index <= s.argc
<1> DEFINE p == [s EXCEPT !.index = @ + 1, !.text = <<>>]
<1>1. /\ Fields(s) /\ s.index \in Nat /\ s.argc \in Nat /\ s.index < s.argc
  BY DEF Decoding, Looking, Indices
<1>a. p = [s EXCEPT !.index = s.index + 1, !.text = <<>>]
  OBVIOUS
<1>3. \/ t = Reject(s)
      \/ \E arg : t = [p EXCEPT !.arg = <<arg>>, !.opt = found.val]
      \/ p.index < p.argc /\ t = TakeNext(p, found.val)
      \/ t = [p EXCEPT !.opt = Missing(s)]
      \/ t = [p EXCEPT !.opt = found.val]
  <2>1. CASE end < Len(s.text) /\ found.takes = "no"
    BY <2>1 DEF UpdateLongOpt
  <2>2. CASE end < Len(s.text) /\ found.takes # "no"
    <3>1. t = [p EXCEPT !.arg = <<Skip(s.text, end + 1)>>, !.opt = found.val]
      BY <2>2 DEF UpdateLongOpt
    <3> QED BY <3>1
  <2>3. CASE ~(end < Len(s.text)) /\ end = Len(s.text) /\ found.takes = "required"
    BY <2>3 DEF UpdateLongOpt
  <2>4. CASE ~(end < Len(s.text)) /\ ~(end = Len(s.text) /\ found.takes = "required")
    BY <2>4 DEF UpdateLongOpt
  <2> QED BY <2>1, <2>2, <2>3, <2>4
<1> HIDE DEF p
<1>4. Passed(s, p) /\ p.index = s.index + 1 /\ p.text = <<>>
  BY <1>1, <1>a DEF Passed, Fields
<1>5. CASE t = Reject(s)
  <2>1. t = [s EXCEPT !.text = <<>>, !.index = s.index + 1, !.opt = "?"]
    BY <1>5 DEF Reject
  <2>2. Passed(s, t) /\ t.opt = "?" /\ t.index = s.index + 1 /\ t.text = <<>>
    BY <1>1, <2>1 DEF Passed, Fields
  <2> QED BY <1>1, <2>2
<1>6. CASE \E arg : t = [p EXCEPT !.arg = <<arg>>, !.opt = found.val]
  <2>1. Passed(s, t) /\ t.opt = found.val /\ t.index = p.index /\ t.text = <<>>
    BY <1>4, <1>6 DEF Passed, Fields
  <2> QED BY <1>1, <1>4, <2>1
<1>7. CASE p.index < p.argc /\ t = TakeNext(p, found.val)
  <2>1. p.argc = s.argc
    BY <1>4 DEF Passed
  <2>2. t = [p EXCEPT !.opt = found.val, !.arg = <<Element(p, p.index)>>,
                      !.index = @ + 1]
    BY <1>1, <1>4, <1>7, <2>1 DEF TakeNext
  <2>3. Passed(s, t) /\ t.opt = found.val /\ t.index = p.index + 1 /\ t.text = <<>>
    BY <1>4, <2>2 DEF Passed, Fields
  <2> QED BY <1>1, <1>4, <1>7, <2>1, <2>3
<1>8. CASE t = [p EXCEPT !.opt = Missing(s)]
  <2>1. Passed(s, t) /\ t.opt = Missing(s) /\ t.index = p.index /\ t.text = <<>>
    BY <1>4, <1>8 DEF Passed, Fields
  <2> QED BY <1>1, <1>4, <2>1
<1>9. CASE t = [p EXCEPT !.opt = found.val]
  <2>1. Passed(s, t) /\ t.opt = found.val /\ t.index = p.index /\ t.text = <<>>
    BY <1>4, <1>9 DEF Passed, Fields
  <2> QED BY <1>1, <1>4, <2>1
<1> QED BY <1>3, <1>5, <1>6, <1>7, <1>8, <1>9

LEMMA UpdateLongOptCalled ==
    ASSUME NEW s, Decoding(s), NEW found, found.val \in Chars, NEW end,
           NEW t, t = UpdateLongOpt(s, found, end)
    PROVE  Decoded(s, t)
<1>1. found.val \notin {"found", "end"} /\ Missing(s) \notin {"found", "end"}
  BY WGetoptAssumption DEF Missing
<1> QED BY <1>1, UpdateLongOptPasses, PassedIsCalled

\* A long option, or a short one of the same text.
LEMMA HandleLongOptCalled ==
    ASSUME NEW v, NEW s, Decoding(s), NEW t, t = HandleLongOpt(v, s)
    PROVE  Decoded(s, t)
<1> DEFINE end   == NameEnd(s.text)
           match == FindMatch(s, SubSeq(s.text, 1, end))
           Row == [name : Elements, takes : ArgTypes, val : Chars]
<1>a. LongTable \in Seq(Row)
  BY WGetoptAssumption
<1> HIDE DEF Row
<1>b. s.longs \in Seq(Row)
  <2>1. s.longs = <<>> \/ s.longs = LongTable
    BY DEF Decoding, Looking, Indices
  <2>2. <<>> \in Seq(Row)
    OBVIOUS
  <2> QED BY <1>a, <2>1, <2>2
<1>1. match \subseteq DOMAIN s.longs
  <2> DEFINE S == Exact(s, SubSeq(s.text, 1, end))
  <2>1. S \subseteq Nat /\ S \subseteq DOMAIN s.longs
    BY <1>b DEF Exact
  <2>2. CASE S # {}
    <3>1. First(S) \in S
      <4> HIDE DEF S
      <4> QED BY <2>1, <2>2, Least DEF First
    <3> QED BY <2>1, <2>2, <3>1 DEF FindMatch
  <2>3. CASE S = {}
    BY <2>3 DEF FindMatch, Matching
  <2> QED BY <2>2, <2>3
<1>2. \A i \in DOMAIN s.longs : s.longs[i].val \in Chars /\ s.longs[i].takes \in ArgTypes
  <2>1. \A i \in DOMAIN s.longs : s.longs[i] \in Row
    BY <1>b
  <2> QED BY <2>1 DEF Row
<1>3. \/ \E i \in match : t = UpdateLongOpt(s, s.longs[i], end)
      \/ t = HandleShortOpt(s)
      \/ t = Reject(s)
  BY DEF HandleLongOpt
<1> HIDE DEF match, end
<1>4. CASE \E i \in match : t = UpdateLongOpt(s, s.longs[i], end)
  BY <1>1, <1>2, <1>4, UpdateLongOptCalled
<1>5. CASE t = HandleShortOpt(s)
  BY <1>5, HandleShortOptCalled
<1>6. CASE t = Reject(s)
  BY <1>6, RejectCalled
<1> QED BY <1>3, <1>4, <1>5, <1>6

\* A call of wgetopt_inner, the first or a later one, finds the text to decode.
Started(s) == [(IF s.index = 0 THEN Initialize(s) ELSE s) EXCEPT !.arg = <<>>]
Sought(v, s) == IF s.text = <<>> THEN NextArgv(v, s) ELSE [s EXCEPT !.opt = "found"]

LEMMA CallParts ==
    ASSUME NEW v, NEW s
    PROVE  LET u == Sought(v, Started(s))
           IN  Call(v, s) = IF u.opt = "found" THEN Decode(v, u) ELSE u
BY DEF Call, Started, Sought

LEMMA StartedLooks ==
    ASSUME NEW s, Ready(s), Callable(s), NEW r, r = Started(s)
    PROVE  /\ Looking(r) /\ r.opt = s.opt /\ r.opt # "found"
           /\ r.argv = s.argv /\ r.argc = s.argc /\ r.longs = s.longs
           /\ r.text # <<>> => r.index < r.argc /\ r.text = s.text /\ r.index = s.index
<1>1. CASE s.index = 0
  <2>1. r = [s EXCEPT !.first = 1, !.last = 1, !.index = 1, !.text = <<>>, !.arg = <<>>]
    BY <1>1 DEF Initialize, Ready, Indices, Fields, Started
  <2>2. /\ Fields(r) /\ r.first = 1 /\ r.last = 1 /\ r.index = 1 /\ r.text = <<>>
        /\ r.argc = s.argc /\ r.opt = s.opt /\ r.longs = s.longs /\ r.argv = s.argv
    BY <2>1 DEF Ready, Indices, Fields
  <2> QED BY <1>1, <2>2 DEF Ready, Looking, Indices, InOrder
<1>2. CASE s.index # 0
  <2>1. r = [s EXCEPT !.arg = <<>>]
    BY <1>2 DEF Started
  <2>2. /\ Fields(r) /\ r.first = s.first /\ r.last = s.last /\ r.index = s.index
        /\ r.text = s.text /\ r.argc = s.argc /\ r.opt = s.opt /\ r.longs = s.longs
        /\ r.argv = s.argv
    BY <2>1 DEF Ready, Indices, Fields
  <2> QED BY <1>2, <2>2 DEF Ready, Callable, Looking, Indices, InOrder
<1> QED BY <1>1, <1>2

\* Text that is left is decoded where it is.
LEMMA TextSought ==
    ASSUME NEW v, NEW r, Looking(r), r.text # <<>>, r.index < r.argc,
           NEW u, u = Sought(v, r)
    PROVE  /\ u.opt = "found" /\ Decoding(u) /\ u = [r EXCEPT !.opt = "found"]
           /\ u.argv = r.argv /\ u.argc = r.argc /\ u.index = r.index
           /\ u.longs = r.longs
<1>1. u = [r EXCEPT !.opt = "found"]
  BY DEF Sought
<1>2. /\ Fields(u) /\ u.first = r.first /\ u.last = r.last /\ u.index = r.index
      /\ u.opt = "found" /\ u.argc = r.argc /\ u.longs = r.longs /\ u.argv = r.argv
  BY <1>1 DEF Looking, Indices, Fields
<1> QED BY <1>1, <1>2 DEF Decoding, Looking, Indices, InOrder

LEMMA SoughtReady ==
    ASSUME NEW v, NEW r, Looking(r), r.text # <<>> => r.index < r.argc, r.opt # "found",
           NEW u, u = Sought(v, r)
    PROVE  \/ u.opt = "found" /\ Decoding(u)
           \/ u.opt # "found" /\ u.index > 0 /\ Ready(u) /\ u.text = <<>>
<1>1. CASE r.text = <<>>
  <2>1. u = NextArgv(v, r)
    BY <1>1 DEF Sought
  <2> QED BY <1>1, <2>1, NextArgvReady
<1>2. CASE r.text # <<>>
  BY <1>2, TextSought
<1> QED BY <1>1, <1>2

LEMMA CallCalled ==
    ASSUME NEW v, NEW s, Ready(s), Callable(s), NEW t, t = Call(v, s)
    PROVE  Called(t)
<1> DEFINE u == Sought(v, Started(s))
<1>1. t = IF u.opt = "found" THEN Decode(v, u) ELSE u
  BY CallParts
<1>2. \/ u.opt = "found" /\ Decoding(u)
      \/ u.opt # "found" /\ u.index > 0 /\ Ready(u)
  BY StartedLooks, SoughtReady
<1> HIDE DEF u
<1>3. CASE u.opt = "found" /\ Decoding(u)
  <2>1. t = HandleLongOpt(v, u) \/ t = HandleShortOpt(u)
    BY <1>1, <1>3 DEF Decode
  <2> QED BY <1>3, <2>1, HandleLongOptCalled, HandleShortOptCalled DEF Decoded
<1>4. CASE u.opt # "found" /\ u.index > 0 /\ Ready(u)
  BY <1>1, <1>4 DEF Called, Ready
<1> QED BY <1>2, <1>3, <1>4

-----------------------------------------------------------------------------
\* What every call finds, in each version that has not strayed.
AllReady == \A v \in Versions : strayed[v] \/ Ready(g[v])

LEMMA InitReady == Init => AllReady
<1> SUFFICES ASSUME Init PROVE AllReady
  OBVIOUS
<1>1. given \in Seq(Elements) /\ given # <<>>
  BY WGetoptAssumption DEF Init
<1>2. Len(given) \in Nat \ {0}
  BY <1>1
<1>3. PICK marker \in Markers, colon \in BOOLEAN, longs \in {<<>>, LongTable} :
        g = [v \in Versions |-> New(given, marker, colon, longs)]
  BY DEF Init
<1>4. Ready(New(given, marker, colon, longs))
  BY <1>2 DEF New, Ready, Indices, Fields
<1> QED BY <1>3, <1>4 DEF AllReady

LEMMA NextReady == AllReady /\ [Next]_vars => AllReady'
<1> SUFFICES ASSUME AllReady, [Next]_vars PROVE AllReady'
  OBVIOUS
<1>1. CASE NextOpt
  <2> SUFFICES ASSUME NEW v \in Versions, ~strayed'[v] PROVE Ready(g'[v])
    BY DEF AllReady
  <2>1. /\ Callable(g[v]) /\ g'[v] = Call(v, g[v])
        /\ strayed'[v] = (strayed[v] \/ Strays(g'[v]))
    BY <1>1 DEF NextOpt
  <2>2. Ready(g[v])
    BY <2>1 DEF AllReady
  <2>3. Called(g'[v])
    BY <2>1, <2>2, CallCalled
  <2> QED BY <2>1, <2>3 DEF Called
<1>2. CASE UNCHANGED vars
  BY <1>2 DEF AllReady, vars
<1> QED BY <1>1, <1>2 DEF Next

\* What exchange and next_opt assert holds at every call, for every argv and
\* every table of options, until a caller goes on after an unknown option
\* within its element.
THEOREM IndicesStayInOrder == Spec => []IndicesInOrder
<1>1. AllReady => IndicesInOrder
  BY DEF AllReady, IndicesInOrder, Ready
<1> QED BY <1>1, InitReady, NextReady, PTL DEF Spec

-----------------------------------------------------------------------------
\* The versions do the same, part by part of a call, as long as argv holds argc
\* arguments.
Argv(s) == s.argv \in Seq(Elements) /\ s.argc = Len(s.argv)

LEMMA ExchangeSame ==
    ASSUME NEW v, NEW w, NEW s, Indices(s), Argv(s),
           s.first <= s.last, s.last <= s.index, s.index <= s.argc
    PROVE  Exchange(v, s) = Exchange(w, s) /\ Argv(Exchange(v, s))
<1> DEFINE x == Segments(s.argv, s.first, s.last, s.index)
           argv == RotateLeft(s.argv, s.first, s.last, s.index)
           t == [s EXCEPT !.argv = argv, !.first = s.first + s.index - s.last,
                          !.last = s.index]
<1>1. /\ s.first \in Nat /\ s.last \in Nat /\ s.index \in Nat
      /\ s.argv \in Seq(Elements) /\ s.argc = Len(s.argv)
  BY DEF Indices, Argv
<1>2. x \in Ranges /\ x = [argv |-> s.argv, bottom |-> s.first,
                           middle |-> s.last, top |-> s.index]
  BY <1>1 DEF Ranges, Segments
<1>3. SwapLoop[x] = argv
  <2>1. Rotated[x] = RotateLeft(x.argv, x.bottom, x.middle, x.top)
    BY <1>2 DEF Rotated
  <2>2. Rotated[x] = argv
    BY <2>1 DEF Segments
  <2> QED BY <1>2, <2>2, SwapLoopRotates
<1>4. argv \in Seq(Elements) /\ Len(argv) = Len(s.argv)
  BY <1>1, RotateLeftInRange
<1> HIDE DEF x, argv
<1>5. Exchange(v, s) = t /\ Exchange(w, s) = t
  BY <1>2, <1>3 DEF Exchange, argv
<1>6. t.argv = argv /\ t.argc = s.argc
  BY DEF Indices, Fields
<1> QED BY <1>1, <1>4, <1>5, <1>6 DEF Argv

LEMMA RegroupSame ==
    ASSUME NEW v, NEW w, NEW s, Looking(s), Argv(s)
    PROVE  Regroup(v, s) = Regroup(w, s) /\ Argv(Regroup(v, s))
<1>1. CASE s.last = s.index
  BY <1>1 DEF Regroup
<1>2. CASE s.last # s.index /\ s.first = s.last
  <2>1. /\ Regroup(v, s) = [s EXCEPT !.first = s.index]
        /\ Regroup(w, s) = [s EXCEPT !.first = s.index]
    BY <1>2 DEF Regroup
  <2>2. /\ [s EXCEPT !.first = s.index].argv = s.argv
        /\ [s EXCEPT !.first = s.index].argc = s.argc
    BY DEF Looking, Indices, Fields
  <2> QED BY <2>1, <2>2 DEF Argv
<1>3. CASE s.last # s.index /\ s.first # s.last
  <2>1. Regroup(v, s) = Exchange(v, s) /\ Regroup(w, s) = Exchange(w, s)
    BY <1>3 DEF Regroup
  <2> QED BY <2>1, ExchangeSame DEF Looking, InOrder
<1> QED BY <1>1, <1>2, <1>3

LEMMA PermutedSame ==
    ASSUME NEW v, NEW w, NEW s, Looking(s), Argv(s)
    PROVE  Permuted(v, s) = Permuted(w, s) /\ Argv(Permuted(v, s))
<1>1. CASE s.marker # ""
  BY <1>1 DEF Permuted
<1>2. CASE s.marker = ""
  <2> DEFINE r == Regroup(v, s)
  <2>1. r = Regroup(w, s) /\ Argv(r) /\ Indices(r)
    BY RegroupSame, RegroupInRange
  <2>2. /\ Permuted(v, s) = [r EXCEPT !.index = NextOption(r), !.last = NextOption(r)]
        /\ Permuted(w, s) = [r EXCEPT !.index = NextOption(r), !.last = NextOption(r)]
    BY <1>2, <2>1 DEF Permuted, SkipNonOptions
  <2> HIDE DEF r
  <2>3. Permuted(v, s).argv = r.argv /\ Permuted(v, s).argc = r.argc
    BY <2>1, <2>2 DEF Indices, Fields
  <2> QED BY <2>1, <2>2, <2>3 DEF Argv
<1> QED BY <1>1, <1>2

LEMMA EndOptionsSame ==
    ASSUME NEW v, NEW w, NEW s, Looking(s), Argv(s)
    PROVE  EndOptions(v, s) = EndOptions(w, s) /\ Argv(EndOptions(v, s))
<1> DEFINE ends == s.index < s.argc /\ Element(s, s.index) = <<"-", "-">>
           p == [s EXCEPT !.index = @ + 1]
           Before(x) == CASE p.first = p.last -> [p EXCEPT !.first = p.index]
                          [] p.first # p.last /\ p.last # p.index -> Exchange(x, p)
                          [] OTHER -> p
           Past(u) == [u EXCEPT !.last = s.argc, !.index = s.argc]
<1>1. CASE ~ends
  BY <1>1 DEF EndOptions
<1>2. CASE ends
  <2>1. /\ Indices(p) /\ Argv(p) /\ p.argv = s.argv /\ p.argc = s.argc
        /\ p.index = s.index + 1 /\ p.first = s.first /\ p.last = s.last
    <3>1. /\ Fields(p) /\ p.argv = s.argv /\ p.argc = s.argc /\ p.index = s.index + 1
          /\ p.first = s.first /\ p.last = s.last /\ p.longs = s.longs
      BY DEF Looking, Indices, Fields
    <3> HIDE DEF p
    <3> QED BY <3>1 DEF Looking, Indices, Argv
  <2>2. EndOptions(v, s) = Past(Before(v)) /\ EndOptions(w, s) = Past(Before(w))
    BY <1>2 DEF EndOptions
  <2>3. p.first <= p.last /\ p.last <= p.index /\ p.index <= p.argc
    <3> HIDE DEF p
    <3> QED BY <1>2, <2>1 DEF Looking, InOrder, Indices
  <2>4. \/ p.first = p.last /\ Before(v) = [p EXCEPT !.first = p.index]
                            /\ Before(w) = [p EXCEPT !.first = p.index]
        \/ Before(v) = Exchange(v, p) /\ Before(w) = Exchange(w, p)
        \/ Before(v) = p /\ Before(w) = p
    <3> HIDE DEF p
    <3> QED OBVIOUS
  <2>5. /\ Before(v) = Before(w) /\ Argv(Before(v))
        /\ Before(v).argc = s.argc /\ Fields(Before(v))
    <3> HIDE DEF p, Before
    <3>1. /\ [p EXCEPT !.first = p.index].argv = p.argv
          /\ [p EXCEPT !.first = p.index].argc = p.argc
          /\ Fields([p EXCEPT !.first = p.index])
      BY <2>1 DEF Indices, Fields
    <3>2. /\ Exchange(v, p) = Exchange(w, p) /\ Argv(Exchange(v, p))
          /\ Exchange(v, p).argc = p.argc /\ Fields(Exchange(v, p))
      BY <2>1, <2>3, ExchangeSame, ExchangeMoves DEF Indices, Kept
    <3>3. Fields(p)
      BY <2>1 DEF Indices
    <3> QED BY <2>1, <2>4, <3>1, <3>2, <3>3 DEF Argv
  <2> HIDE DEF p, Before
  <2>6. Past(Before(v)).argv = Before(v).argv /\ Past(Before(v)).argc = Before(v).argc
    BY <2>5 DEF Fields
  <2> HIDE DEF Past
  <2> QED BY <2>2, <2>5, <2>6 DEF Argv
<1> QED BY <1>1, <1>2

\* next_argv has found an element with an option: its text follows the hyphen,
\* or both hyphens.
Fresh(s) == LET e == Element(s, s.index)
            IN  /\ ~NonOption(e)
                /\ At(e, 1) # "-" => s.text = Skip(e, 1)

LEMMA NextArgvSame ==
    ASSUME NEW v, NEW w, NEW s, Looking(s), Argv(s), NEW t, t = NextArgv(v, s)
    PROVE  /\ t = NextArgv(w, s) /\ Argv(t)
           /\ t.opt = "found" /\ s.opt # "found" => Fresh(t)
<1> DEFINE p == Permuted(v, s)
           r == EndOptions(v, p)
<1>1. Looking(p) /\ Argv(p) /\ p = Permuted(w, s) /\ Kept(s, p)
  BY PermutedLooks, PermutedSame
<1> HIDE DEF p
<1>2. Looking(r) /\ Argv(r) /\ r = EndOptions(w, p) /\ Kept(p, r)
  BY <1>1, EndOptionsLooks, EndOptionsSame
<1>3. /\ NextArgv(v, s) = IF r.index = r.argc THEN Finished(r)
            ELSE IF NonOption(Element(r, r.index)) THEN UnpermutedNonOption(r)
            ELSE FoundOption(r)
      /\ NextArgv(w, s) = NextArgv(v, s)
  <2>1. NextArgv(v, s) = IF r.index = r.argc THEN Finished(r)
            ELSE IF NonOption(Element(r, r.index)) THEN UnpermutedNonOption(r)
            ELSE FoundOption(r)
    BY DEF NextArgv, p
  <2>2. NextArgv(w, s) = IF r.index = r.argc THEN Finished(r)
            ELSE IF NonOption(Element(r, r.index)) THEN UnpermutedNonOption(r)
            ELSE FoundOption(r)
    BY <1>1, <1>2 DEF NextArgv
  <2> QED BY <2>1, <2>2
<1> HIDE DEF r
<1>4. Fields(r)
  BY <1>2 DEF Looking, Indices
<1>5. CASE r.index = r.argc
  <2>1. t = [r EXCEPT !.opt = "end",
                      !.index = IF r.first # r.last THEN r.first ELSE r.index]
    BY <1>3, <1>5 DEF Finished
  <2>2. t.argv = r.argv /\ t.argc = r.argc /\ t.opt = "end"
    BY <1>4, <2>1 DEF Fields
  <2> QED BY <1>2, <1>3, <2>2 DEF Argv
<1>6. CASE r.index # r.argc /\ NonOption(Element(r, r.index))
  <2>1. \/ t = [r EXCEPT !.opt = "end"]
        \/ t = [r EXCEPT !.opt = "nonopt", !.arg = <<Element(r, r.index)>>,
                         !.index = r.index + 1]
    BY <1>3, <1>6 DEF UnpermutedNonOption
  <2>2. t.argv = r.argv /\ t.argc = r.argc /\ t.opt # "found"
    BY <1>4, <2>1 DEF Fields
  <2> QED BY <1>2, <1>3, <2>2 DEF Argv
<1>7. CASE r.index # r.argc /\ ~NonOption(Element(r, r.index))
  <2> DEFINE e == Element(r, r.index)
             text == Skip(e, IF r.longs # <<>> /\ At(e, 1) = "-" THEN 2 ELSE 1)
  <2>1. t = [r EXCEPT !.opt = "found", !.text = text]
    BY <1>3, <1>7 DEF FoundOption
  <2> HIDE DEF text
  <2>2. t.argv = r.argv /\ t.argc = r.argc /\ t.index = r.index /\ t.text = text
    BY <1>4, <2>1 DEF Fields
  <2>3. Element(t, t.index) = e
    BY <2>2 DEF Element
  <2> HIDE DEF e
  <2>4. At(e, 1) # "-" => text = Skip(e, 1)
    BY DEF text
  <2> QED BY <1>2, <1>3, <1>7, <2>2, <2>3, <2>4 DEF Argv, Fresh, e
<1> QED BY <1>5, <1>6, <1>7

\* Text that is left when there are long options is that of an element that
\* begins with a short option: it is not tried as a long one, either.
Inside(s) == s.longs # <<>> /\ s.text # <<>> =>
                At(Element(s, s.index), 1) \in Listed

\* The beginning of an element with an option.
LEMMA FreshBegins ==
    ASSUME NEW s, Decoding(s), Argv(s), Fresh(s)
    PROVE  LET e == Element(s, s.index)
           IN  At(e, 0) = "-" /\ At(e, 1) \in Chars
               /\ (At(e, 1) # "-" => s.text[1] = At(e, 1))
<1> DEFINE e == Element(s, s.index)
<1>1. e \in Seq(Chars)
  <2>1. s.index + 1 \in 1..Len(s.argv) /\ s.argv \in Seq(Elements)
    BY DEF Decoding, Looking, Indices, Argv
  <2>2. s.argv[s.index + 1] \in Elements
    BY <2>1
  <2> QED BY <2>2 DEF Element, Elements
<1>2. At(e, 0) = "-" /\ Len(e) # 1 /\ (At(e, 1) # "-" => s.text = Skip(e, 1))
  BY DEF Fresh, NonOption
<1> HIDE DEF e
<1>3. Len(e) >= 2
  <2>1. Len(e) > 0
    BY <1>1, <1>2 DEF At
  <2> QED BY <1>1, <1>2, <2>1
<1>4. At(e, 1) = e[2] /\ e[2] \in Chars
  BY <1>1, <1>3 DEF At
<1>5. Skip(e, 1)[1] = e[2]
  BY <1>1, <1>3 DEF Skip
<1> QED BY <1>2, <1>4, <1>5 DEF e

LEMMA DecodeSame ==
    ASSUME NEW v \in Versions, NEW w \in Versions, NEW s, Decoding(s), Argv(s),
           Fresh(s) \/ (s.longs # <<>> => At(Element(s, s.index), 1) \in Listed),
           NEW t, t = Decode(v, s)
    PROVE  t = Decode(w, s) /\ Argv(t) /\ (Strays(t) \/ Inside(t))
<1> DEFINE e == Element(s, s.index)
           next == At(e, 1)
<1> HIDE DEF e
<1>1. "-" \notin Listed /\ "nul" \notin Chars
  BY WGetoptAssumption DEF Listed
<1>2. CASE s.longs = <<>>
  <2>1. t = HandleShortOpt(s) /\ Decode(w, s) = HandleShortOpt(s)
    BY <1>2 DEF Decode, TryLong
  <2>2. Decoded(s, t)
    BY <2>1, HandleShortOptCalled
  <2> QED BY <1>2, <2>1, <2>2 DEF Decoded, Stays, Argv, Inside
<1>3. CASE s.longs # <<>> /\ next \in Listed
  <2>1. next # "-" /\ Short(v, next) /\ Short(w, next)
    BY <1>1, <1>3 DEF Short
  <2>2. t = HandleShortOpt(s) /\ Decode(w, s) = HandleShortOpt(s)
    BY <2>1 DEF Decode, TryLong, e
  <2>3. Decoded(s, t)
    BY <2>2, HandleShortOptCalled
  <2>4. t.text # <<>> /\ ~Strays(t) => Element(t, t.index) = e
    BY <2>3 DEF Decoded, Stays, Element, e
  <2> QED BY <1>3, <2>2, <2>3, <2>4 DEF Decoded, Stays, Argv, Inside
<1>4. CASE s.longs # <<>> /\ next \notin Listed
  <2>1. /\ At(e, 0) = "-" /\ next \in Chars
        /\ next # "-" => s.text[1] = next
    BY <1>4, FreshBegins DEF e
  <2>2. next # "nul" /\ ~Short(v, next) /\ ~Short(w, next)
    BY <1>1, <1>4, <2>1 DEF Short
  <2>3. s.index < s.argc
    BY DEF Decoding
  <2>4. t = HandleLongOpt(v, s) /\ Decode(w, s) = HandleLongOpt(w, s)
    BY <1>4, <2>2, <2>3 DEF Decode, TryLong, e
  <2> DEFINE end   == NameEnd(s.text)
             match == FindMatch(s, SubSeq(s.text, 1, end))
             one == \E i \in match : match = {i}
             option == s.longs[CHOOSE i \in match : TRUE]
  <2>5. ASSUME NEW x \in {v, w}
        PROVE  HandleLongOpt(x, s) = IF one THEN UpdateLongOpt(s, option, end)
                                     ELSE Reject(s)
    <3>1. ~(next # "-" /\ Short(x, s.text[1]))
      BY <2>1, <2>2
    <3>2. CASE one
      BY <3>2 DEF HandleLongOpt
    <3>3. CASE ~one
      BY <3>1, <3>3 DEF HandleLongOpt, e
    <3> QED BY <3>2, <3>3
  <2>6. t = Decode(w, s)
    BY <2>4, <2>5
  <2>7. Decoded(s, t)
    BY <2>4, HandleLongOptCalled
  <2>8. t.text = <<>>
    <3>1. t = Reject(s) \/ t = UpdateLongOpt(s, option, end)
      BY <2>4, <2>5
    <3> QED BY <3>1, RejectCalled, UpdateLongOptPasses
  <2> QED BY <2>6, <2>7, <2>8 DEF Decoded, Stays, Argv, Inside
<1> QED BY <1>2, <1>3, <1>4

\* Between two calls.
Known(s) == Ready(s) /\ Argv(s) /\ Inside(s)

LEMMA CallSame ==
    ASSUME NEW v \in Versions, NEW w \in Versions, NEW s, Known(s), Callable(s),
           NEW t, t = Call(v, s)
    PROVE  t = Call(w, s) /\ (Strays(t) \/ Known(t))
<1> DEFINE r == Started(s)
           u == Sought(v, r)
<1>1. /\ Looking(r) /\ r.opt # "found" /\ Argv(r)
      /\ r.text # <<>> => r.index < r.argc
      /\ r.longs # <<>> /\ r.text # <<>> => At(Element(r, r.index), 1) \in Listed
  <2>1. Ready(s) /\ Argv(s) /\ Inside(s)
    BY DEF Known
  <2> HIDE DEF r
  <2>2. /\ Looking(r) /\ r.opt # "found" /\ r.argv = s.argv /\ r.argc = s.argc
        /\ r.longs = s.longs
        /\ r.text # <<>> => r.index < r.argc /\ r.text = s.text /\ r.index = s.index
    BY <2>1, StartedLooks DEF r
  <2> QED BY <2>1, <2>2 DEF Argv, Inside, Element
<1> HIDE DEF r
<1>2. u = Sought(w, r) /\ Argv(u)
  <2>1. CASE r.text = <<>>
    <3>1. u = NextArgv(v, r) /\ Sought(w, r) = NextArgv(w, r)
      BY <2>1 DEF Sought
    <3> QED BY <1>1, <3>1, NextArgvSame
  <2>2. CASE r.text # <<>>
    BY <1>1, <2>2, TextSought DEF Argv
  <2> QED BY <2>1, <2>2
<1>3. /\ t = IF u.opt = "found" THEN Decode(v, u) ELSE u
      /\ Call(w, s) = IF u.opt = "found" THEN Decode(w, u) ELSE u
  BY <1>2, CallParts DEF r
<1>4. u.opt = "found" => /\ Decoding(u)
                         /\ \/ Fresh(u)
                            \/ u.longs # <<>> =>
                                 At(Element(u, u.index), 1) \in Listed
  <2> SUFFICES ASSUME u.opt = "found"
               PROVE  /\ Decoding(u)
                      /\ \/ Fresh(u)
                         \/ u.longs # <<>> =>
                              At(Element(u, u.index), 1) \in Listed
    OBVIOUS
  <2>1. Decoding(u)
    BY <1>1, SoughtReady
  <2>2. CASE r.text = <<>>
    <3>1. u = NextArgv(v, r)
      BY <2>2 DEF Sought
    <3> QED BY <1>1, <2>1, <3>1, NextArgvSame
  <2>3. CASE r.text # <<>>
    <3>1. u.argv = r.argv /\ u.index = r.index /\ u.longs = r.longs
      BY <1>1, <2>3, TextSought
    <3> HIDE DEF u
    <3> QED BY <1>1, <2>1, <2>3, <3>1 DEF Element
  <2> QED BY <2>2, <2>3
<1>5. u.opt # "found" => Ready(u) /\ Inside(u)
  <2> SUFFICES ASSUME u.opt # "found" PROVE Ready(u) /\ Inside(u)
    OBVIOUS
  <2>1. Ready(u) /\ u.text = <<>>
    BY <1>1, SoughtReady
  <2> QED BY <2>1 DEF Inside
<1> HIDE DEF u
<1>6. CASE u.opt = "found"
  <2>1. t = Decode(v, u) /\ Call(w, s) = Decode(w, u)
    BY <1>3, <1>6
  <2>2. t = Decode(w, u) /\ Argv(t) /\ (Strays(t) \/ Inside(t))
    BY <1>2, <1>4, <1>6, <2>1, DecodeSame
  <2>3. Called(t)
    BY CallCalled DEF Known
  <2> QED BY <2>1, <2>2, <2>3 DEF Known, Called
<1>7. CASE u.opt # "found"
  BY <1>2, <1>3, <1>5, <1>7 DEF Known
<1> QED BY <1>6, <1>7

\* All have strayed, or none has and they are the same.
AllSame == \/ \A v \in Versions : strayed[v]
           \/ \A v, w \in Versions : ~strayed[v] /\ g[v] = g[w] /\ Known(g[v])

LEMMA InitSame == Init => AllSame
<1> SUFFICES ASSUME Init PROVE AllSame
  OBVIOUS
<1>1. given \in Seq(Elements)
  BY WGetoptAssumption DEF Init
<1>2. PICK marker \in Markers, colon \in BOOLEAN, longs \in {<<>>, LongTable} :
        g = [v \in Versions |-> New(given, marker, colon, longs)]
  BY DEF Init
<1>3. Argv(New(given, marker, colon, longs)) /\ Inside(New(given, marker, colon, longs))
  BY <1>1 DEF New, Argv, Inside
<1>4. \A v \in Versions : ~strayed[v] /\ g[v] = New(given, marker, colon, longs)
  BY <1>2 DEF Init
<1>5. \A v \in Versions : Ready(g[v])
  BY <1>4, InitReady DEF AllReady
<1> QED BY <1>3, <1>4, <1>5 DEF AllSame, Known

LEMMA NextSame == AllSame /\ [Next]_vars => AllSame'
<1> SUFFICES ASSUME AllSame, [Next]_vars PROVE AllSame'
  OBVIOUS
<1>1. CASE NextOpt
  <2>1. \A v \in Versions : /\ Callable(g[v]) /\ g'[v] = Call(v, g[v])
                            /\ strayed'[v] = (strayed[v] \/ Strays(g'[v]))
    BY <1>1 DEF NextOpt
  <2>2. CASE \A v \in Versions : strayed[v]
    BY <2>1, <2>2 DEF AllSame
  <2>3. CASE \A v, w \in Versions : ~strayed[v] /\ g[v] = g[w] /\ Known(g[v])
    <3>1. \A v, w \in Versions : g'[v] = g'[w] /\ (Strays(g'[v]) \/ Known(g'[v]))
      <4> SUFFICES ASSUME NEW v \in Versions, NEW w \in Versions
                   PROVE  g'[v] = g'[w] /\ (Strays(g'[v]) \/ Known(g'[v]))
        OBVIOUS
      <4>1. g'[v] = Call(v, g[v]) /\ g'[w] = Call(w, g[v])
        BY <2>1, <2>3
      <4>2. Known(g[v]) /\ Callable(g[v])
        BY <2>1, <2>3
      <4> QED BY <4>1, <4>2, CallSame
    <3>2. PICK x : x \in Versions
      BY DEF Versions
    <3>3. CASE Strays(g'[x])
      <4>1. \A v \in Versions : Strays(g'[v])
        BY <3>1, <3>2, <3>3
      <4> QED BY <2>1, <4>1 DEF AllSame
    <3>4. CASE ~Strays(g'[x])
      <4>1. \A v \in Versions : ~Strays(g'[v])
        BY <3>1, <3>2, <3>4
      <4> QED BY <2>1, <2>3, <3>1, <4>1 DEF AllSame
    <3> QED BY <3>3, <3>4
  <2> QED BY <2>2, <2>3 DEF AllSame
<1>2. CASE UNCHANGED vars
  BY <1>2 DEF AllSame, vars
<1> QED BY <1>1, <1>2 DEF Next

\* The original, its rewrite and its translation leave argv in the same order and
\* return the same at every call, for every argv, table of options and ordering,
\* until a caller goes on after an unknown option within its element
\* (wgetopt.cpp:68-106, wgetopt.rs:196-207).
THEOREM VersionsAlwaysAgree == Spec => []VersionsAgree
<1>1. AllSame => VersionsAgree
  BY DEF AllSame, VersionsAgree
<1> QED BY <1>1, InitSame, NextSame, PTL DEF Spec

-----------------------------------------------------------------------------
\* What the calls return.  Stretches of argv: the elements from an index up to
\* another, next to one another and shifted.

\* A stretch of argv.
LEMMA BetweenTyped ==
    ASSUME NEW S, NEW a \in Seq(S), NEW i \in Nat, NEW j \in Nat, i <= j, j <= Len(a)
    PROVE  /\ Between(a, i, j) \in Seq(S) /\ Len(Between(a, i, j)) = j - i
           /\ \A k \in 1..j - i : Between(a, i, j)[k] = a[i + k]
BY DEF Between

LEMMA BetweenElements ==
    ASSUME NEW a \in Seq(Elements), NEW i \in Nat, NEW j \in Nat, i <= j, j <= Len(a)
    PROVE  Between(a, i, j) \in Seq(Elements)
BY BetweenTyped

LEMMA StretchTyped ==
    ASSUME NEW S, NEW a \in Seq(S), NEW i \in Nat, NEW n \in Nat, i + n <= Len(a)
    PROVE  /\ Between(a, i, i + n) \in Seq(S) /\ Len(Between(a, i, i + n)) = n
           /\ \A k \in 1..n : Between(a, i, i + n)[k] = a[i + k]
<1>1. i + n \in Nat /\ i <= i + n /\ (i + n) - i = n
  OBVIOUS
<1>2. /\ Between(a, i, i + n) \in Seq(S) /\ Len(Between(a, i, i + n)) = (i + n) - i
      /\ \A k \in 1..(i + n) - i : Between(a, i, i + n)[k] = a[i + k]
  BY <1>1, BetweenTyped, Zenon
<1> QED BY <1>1, <1>2, Zenon

\* Sequences of the same elements are the same.
LEMMA SameElementwise ==
    ASSUME NEW S, NEW x \in Seq(S), NEW y \in Seq(S), Len(x) = Len(y),
           \A k \in 1..Len(x) : x[k] = y[k]
    PROVE  x = y
OBVIOUS

Alike(a, i, b, j, n) == \A k \in 1..n : a[i + k] = b[j + k]

LEMMA BetweenSame ==
    ASSUME NEW a \in Seq(Elements), NEW b \in Seq(Elements), NEW i \in Nat, NEW j \in Nat,
           NEW n \in Nat, i + n <= Len(a), j + n <= Len(b), Alike(a, i, b, j, n)
    PROVE  Between(a, i, i + n) = Between(b, j, j + n)
<1> DEFINE x == Between(a, i, i + n)
           y == Between(b, j, j + n)
<1>1. x \in Seq(Elements) /\ Len(x) = n /\ \A k \in 1..n : x[k] = a[i + k]
  BY StretchTyped, Zenon
<1>2. y \in Seq(Elements) /\ Len(y) = n /\ \A k \in 1..n : y[k] = b[j + k]
  BY StretchTyped, Zenon
<1> HIDE DEF x, y
<1>3. \A k \in 1..Len(x) : x[k] = y[k]
  BY <1>1, <1>2 DEF Alike
<1>4. x = y
  BY <1>1, <1>2, <1>3, SameElementwise
<1> QED BY <1>4 DEF x, y

LEMMA BetweenNone ==
    ASSUME NEW a, NEW i \in Nat
    PROVE  Between(a, i, i) = <<>>
BY DEF Between

LEMMA BetweenOne ==
    ASSUME NEW S, NEW a \in Seq(S), NEW i \in Nat, i < Len(a)
    PROVE  Between(a, i, i + 1) = <<a[i + 1]>>
<1> DEFINE x == Between(a, i, i + 1)
           y == <<a[i + 1]>>
<1>1. i + 1 \in Nat /\ i <= i + 1 /\ i + 1 <= Len(a) /\ (i + 1) - i = 1
  OBVIOUS
<1>2. /\ x \in Seq(S) /\ Len(x) = (i + 1) - i
      /\ \A k \in 1..(i + 1) - i : x[k] = a[i + k]
  BY <1>1, BetweenTyped, Zenon
<1>3. y \in Seq(S) /\ Len(y) = 1 /\ y[1] = a[i + 1]
  OBVIOUS
<1> HIDE DEF x, y
<1>4. Len(x) = Len(y) /\ \A k \in 1..Len(x) : x[k] = y[k]
  BY <1>1, <1>2, <1>3
<1>5. x = y
  BY <1>2, <1>3, <1>4, SameElementwise
<1> QED BY <1>5 DEF x, y

LEMMA BetweenAll ==
    ASSUME NEW S, NEW a \in Seq(S)
    PROVE  Between(a, 0, Len(a)) = a
BY DEF Between

LEMMA JoinedTyped ==
    ASSUME NEW S, NEW x \in Seq(S), NEW y \in Seq(S)
    PROVE  /\ x \o y \in Seq(S) /\ Len(x \o y) = Len(x) + Len(y)
           /\ \A k \in 1..Len(x) : (x \o y)[k] = x[k]
           /\ \A k \in 1..Len(y) : (x \o y)[Len(x) + k] = y[k]
OBVIOUS

LEMMA JoinThree ==
    ASSUME NEW S, NEW x \in Seq(S), NEW y \in Seq(S), NEW z \in Seq(S)
    PROVE  (x \o y) \o z = x \o (y \o z)
OBVIOUS

LEMMA JoinEmpty ==
    ASSUME NEW S, NEW x \in Seq(S)
    PROVE  x \o <<>> = x /\ <<>> \o x = x
OBVIOUS

\* The parts of a sequence, named by what they hold.
LEMMA JoinedIs ==
    ASSUME NEW S, NEW x \in Seq(S), NEW y \in Seq(S), NEW z \in Seq(S),
           Len(z) = Len(x) + Len(y),
           \A k \in 1..Len(x) : z[k] = x[k],
           \A k \in 1..Len(y) : z[Len(x) + k] = y[k]
    PROVE  x \o y = z
<1> DEFINE w == x \o y
<1>1. /\ w \in Seq(S) /\ Len(w) = Len(x) + Len(y)
      /\ \A k \in 1..Len(x) : w[k] = x[k]
      /\ \A k \in 1..Len(y) : w[Len(x) + k] = y[k]
  BY JoinedTyped
<1> HIDE DEF w
<1>2. \A k \in 1..Len(w) : w[k] = z[k]
  <2> SUFFICES ASSUME NEW k \in 1..Len(w) PROVE w[k] = z[k]
    OBVIOUS
  <2>1. CASE k <= Len(x)
    BY <1>1, <2>1
  <2>2. CASE k > Len(x)
    <3>1. k - Len(x) \in 1..Len(y) /\ Len(x) + (k - Len(x)) = k
      BY <1>1, <2>2
    <3> QED BY <1>1, <3>1
  <2> QED BY <1>1, <2>1, <2>2
<1>3. w = z
  BY <1>1, <1>2, SameElementwise
<1> QED BY <1>3 DEF w

LEMMA BetweenJoined ==
    ASSUME NEW a \in Seq(Elements), NEW i \in Nat, NEW j \in Nat, NEW k \in Nat,
           i <= k, k <= j, j <= Len(a)
    PROVE  Between(a, i, k) \o Between(a, k, j) = Between(a, i, j)
<1> DEFINE x == Between(a, i, k)
           y == Between(a, k, j)
           z == Between(a, i, j)
<1>a. i <= j /\ k <= Len(a)
  OBVIOUS
<1>1. x \in Seq(Elements) /\ Len(x) = k - i /\ \A c \in 1..k - i : x[c] = a[i + c]
  BY <1>a, BetweenTyped, Zenon
<1>2. y \in Seq(Elements) /\ Len(y) = j - k /\ \A c \in 1..j - k : y[c] = a[k + c]
  BY <1>a, BetweenTyped, Zenon
<1>3. z \in Seq(Elements) /\ Len(z) = j - i /\ \A c \in 1..j - i : z[c] = a[i + c]
  BY <1>a, BetweenTyped, Zenon
<1> HIDE DEF x, y, z
<1>4. \A c \in 1..Len(x) : z[c] = x[c]
  BY <1>1, <1>3
<1>5. \A c \in 1..Len(y) : z[Len(x) + c] = y[c]
  <2> SUFFICES ASSUME NEW c \in 1..Len(y) PROVE z[Len(x) + c] = y[c]
    OBVIOUS
  <2>1. (k - i) + c \in 1..j - i /\ i + ((k - i) + c) = k + c
    BY <1>2
  <2> QED BY <1>1, <1>2, <1>3, <2>1
<1>6. Len(z) = Len(x) + Len(y)
  BY <1>1, <1>2, <1>3
<1>7. x \o y = z
  BY <1>1, <1>2, <1>3, <1>4, <1>5, <1>6, JoinedIs
<1> QED BY <1>7 DEF x, y, z

-----------------------------------------------------------------------------
\* What is said of some elements has its types, and what is said of those that
\* follow comes after it.

\* What a call returns, and what scanning says of some elements.
Codes == Chars \cup {"nonopt", ":", "?"}
Returned == Codes \X Seq(Elements)
Scans == [got : Seq(Returned), used : Seq(Elements), left : Seq(Elements)]

LEMMA PartsTyped ==
    ASSUME NEW a \in Seq(Returned), NEW b \in Seq(Elements), NEW c \in Seq(Elements)
    PROVE  /\ Parts(a, b, c) \in Scans /\ Parts(a, b, c).got = a
           /\ Parts(a, b, c).used = b /\ Parts(a, b, c).left = c
BY DEF Parts, Scans

LEMMA ScanParts ==
    ASSUME NEW x \in Scans
    PROVE  /\ x.got \in Seq(Returned) /\ x.used \in Seq(Elements) /\ x.left \in Seq(Elements)
           /\ x = Parts(x.got, x.used, x.left)
BY DEF Parts, Scans

LEMMA ThenTyped ==
    ASSUME NEW x \in Scans, NEW y \in Scans
    PROVE  /\ Then(x, y) \in Scans /\ Then(x, y).got = x.got \o y.got
           /\ Then(x, y).used = x.used \o y.used /\ Then(x, y).left = x.left \o y.left
<1>1. /\ x.got \in Seq(Returned) /\ x.used \in Seq(Elements) /\ x.left \in Seq(Elements)
      /\ y.got \in Seq(Returned) /\ y.used \in Seq(Elements) /\ y.left \in Seq(Elements)
  BY ScanParts
<1>2. /\ x.got \o y.got \in Seq(Returned) /\ x.used \o y.used \in Seq(Elements)
      /\ x.left \o y.left \in Seq(Elements)
  BY <1>1, JoinedTyped
<1> DEFINE p == x.got \o y.got
           q == x.used \o y.used
           r == x.left \o y.left
<1>3. Then(x, y) = Parts(p, q, r)
  BY DEF Then
<1>4. p \in Seq(Returned) /\ q \in Seq(Elements) /\ r \in Seq(Elements)
  BY <1>2
<1> HIDE DEF p, q, r
<1>5. /\ Then(x, y) \in Scans /\ Then(x, y).got = p
      /\ Then(x, y).used = q /\ Then(x, y).left = r
  BY <1>3, <1>4, PartsTyped
<1> QED BY <1>5, Zenon DEF p, q, r

\* What comes after two parts comes after the second.
LEMMA ThenThree ==
    ASSUME NEW x \in Scans, NEW y \in Scans, NEW z \in Scans
    PROVE  Then(Then(x, y), z) = Then(x, Then(y, z))
<1> DEFINE p == Then(x, y)
           q == Then(y, z)
<1>1. /\ p \in Scans /\ p.got = x.got \o y.got
      /\ p.used = x.used \o y.used /\ p.left = x.left \o y.left
  BY ThenTyped
<1>2. /\ q \in Scans /\ q.got = y.got \o z.got
      /\ q.used = y.used \o z.used /\ q.left = y.left \o z.left
  BY ThenTyped
<1> HIDE DEF p, q
<1> DEFINE v == Then(p, z)
           w == Then(x, q)
<1>3. /\ v \in Scans /\ v.got = p.got \o z.got
      /\ v.used = p.used \o z.used /\ v.left = p.left \o z.left
  BY <1>1, ThenTyped
<1>4. /\ w \in Scans /\ w.got = x.got \o q.got
      /\ w.used = x.used \o q.used /\ w.left = x.left \o q.left
  BY <1>2, ThenTyped
<1> HIDE DEF v, w
<1>5. /\ x.got \in Seq(Returned) /\ y.got \in Seq(Returned) /\ z.got \in Seq(Returned)
      /\ x.used \in Seq(Elements) /\ y.used \in Seq(Elements) /\ z.used \in Seq(Elements)
      /\ x.left \in Seq(Elements) /\ y.left \in Seq(Elements) /\ z.left \in Seq(Elements)
  BY ScanParts
<1>6. (x.got \o y.got) \o z.got = x.got \o (y.got \o z.got)
  <2> DEFINE a == x.got
             b == y.got
             c == z.got
  <2>1. a \in Seq(Returned) /\ b \in Seq(Returned) /\ c \in Seq(Returned)
    BY <1>5
  <2> HIDE DEF a, b, c
  <2>2. (a \o b) \o c = a \o (b \o c)
    BY <2>1, JoinThree
  <2> QED BY <2>2 DEF a, b, c
<1>7. (x.used \o y.used) \o z.used = x.used \o (y.used \o z.used)
  <2> DEFINE a == x.used
             b == y.used
             c == z.used
  <2>1. a \in Seq(Elements) /\ b \in Seq(Elements) /\ c \in Seq(Elements)
    BY <1>5
  <2> HIDE DEF a, b, c
  <2>2. (a \o b) \o c = a \o (b \o c)
    BY <2>1, JoinThree
  <2> QED BY <2>2 DEF a, b, c
<1>8. (x.left \o y.left) \o z.left = x.left \o (y.left \o z.left)
  <2> DEFINE a == x.left
             b == y.left
             c == z.left
  <2>1. a \in Seq(Elements) /\ b \in Seq(Elements) /\ c \in Seq(Elements)
    BY <1>5
  <2> HIDE DEF a, b, c
  <2>2. (a \o b) \o c = a \o (b \o c)
    BY <2>1, JoinThree
  <2> QED BY <2>2 DEF a, b, c
<1>9. v.got = w.got /\ v.used = w.used /\ v.left = w.left
  BY <1>1, <1>2, <1>3, <1>4, <1>6, <1>7, <1>8, Zenon
<1>10. v = Parts(v.got, v.used, v.left) /\ w = Parts(w.got, w.used, w.left)
  BY <1>3, <1>4, ScanParts
<1>11. v = w
  BY <1>9, <1>10, Zenon
<1> QED BY <1>11 DEF v, w, p, q

Nothing == Parts(<<>>, <<>>, <<>>)

LEMMA ThenNothing ==
    ASSUME NEW x \in Scans
    PROVE  Nothing \in Scans /\ Then(x, Nothing) = x /\ Then(Nothing, x) = x
<1>1. <<>> \in Seq(Returned) /\ <<>> \in Seq(Elements)
  OBVIOUS
<1>2. /\ Nothing \in Scans /\ Nothing.got = <<>>
      /\ Nothing.used = <<>> /\ Nothing.left = <<>>
  <2>1. Nothing.got = <<>> /\ Nothing.used = <<>> /\ Nothing.left = <<>>
    BY DEF Nothing, Parts
  <2>2. Nothing \in Scans
    BY <1>1, PartsTyped DEF Nothing
  <2> QED BY <2>1, <2>2
<1>3. /\ x.got \in Seq(Returned) /\ x.used \in Seq(Elements) /\ x.left \in Seq(Elements)
      /\ x = Parts(x.got, x.used, x.left)
  BY ScanParts
<1>4. /\ x.got \o <<>> = x.got /\ <<>> \o x.got = x.got
      /\ x.used \o <<>> = x.used /\ <<>> \o x.used = x.used
      /\ x.left \o <<>> = x.left /\ <<>> \o x.left = x.left
  BY <1>3, JoinEmpty, Zenon
<1> QED BY <1>2, <1>3, <1>4, Zenon DEF Then

-----------------------------------------------------------------------------
LEMMA SkipTyped ==
    ASSUME NEW e \in Elements, NEW n \in Nat
    PROVE  /\ Skip(e, n) \in Elements
           /\ n <= Len(e) => /\ Len(Skip(e, n)) = Len(e) - n
                             /\ \A k \in 1..Len(e) - n : Skip(e, n)[k] = e[n + k]
BY DEF Skip, Elements

LEMMA FirstOf ==
    ASSUME NEW S, S \subseteq Nat, S # {}
    PROVE  First(S) \in S /\ \A j \in S : First(S) <= j
<1>1. \E i \in S : \A j \in S : i <= j
  BY Least
<1> QED BY <1>1 DEF First

LEMMA FirstOfOne ==
    ASSUME NEW i \in Nat
    PROVE  First({i}) = i
BY FirstOf

\* An option gives at least one code, and uses the next element if there is one.
Gives(o, next) == /\ o.got \in Seq(Returned) /\ o.takes \in {1, 2}
                  /\ o.takes = 2 => next # None

LEMMA WithArgumentTyped ==
    ASSUME NEW how, NEW opt \in Codes, NEW left \in Elements, NEW next \in Seq(Elements)
    PROVE  LET o == WithArgument(how, opt, left, next)
           IN  o.got \in Returned /\ o.takes \in {1, 2} /\ (o.takes = 2 => next # None)
<1>1. Missing(how) \in Codes
  BY DEF Missing, Codes
<1>2. <<left>> \in Seq(Elements) /\ None \in Seq(Elements)
  BY DEF None
<1>3. <<opt, <<left>>>> \in Returned /\ <<opt, next>> \in Returned
      /\ <<Missing(how), None>> \in Returned
  BY <1>1, <1>2 DEF Returned
<1>4. CASE left # <<>>
  BY <1>3, <1>4 DEF WithArgument
<1>5. CASE left = <<>> /\ next # None
  BY <1>3, <1>5 DEF WithArgument
<1>6. CASE left = <<>> /\ next = None
  BY <1>3, <1>6 DEF WithArgument
<1> QED BY <1>4, <1>5, <1>6

LEMMA FlagTyped ==
    ASSUME NEW char \in Chars
    PROVE  Flag(char) \in Returned
<1>1. char \in Codes /\ "?" \in Codes /\ None \in Seq(Elements)
  BY DEF Codes, None
<1> QED BY <1>1 DEF Flag, Returned

LEMMA LastOptionTyped ==
    ASSUME NEW how, NEW char \in Chars, NEW left \in Elements, NEW next \in Seq(Elements)
    PROVE  LET o == LastOption(how, char, left, next)
           IN  o.got \in Returned /\ o.takes \in {1, 2} /\ (o.takes = 2 => next # None)
<1>1. char \in Codes /\ None \in Seq(Elements)
  BY DEF Codes, None
<1>2. CASE ShortOpts[char] = "optional" /\ left = <<>>
  BY <1>1, <1>2 DEF LastOption, Returned
<1>3. CASE ~(ShortOpts[char] = "optional" /\ left = <<>>)
  BY <1>1, <1>3, WithArgumentTyped DEF LastOption
<1> QED BY <1>2, <1>3

LEMMA FlagsTyped ==
    ASSUME NEW body \in Elements, NEW n \in Nat, n <= Len(body)
    PROVE  [c \in 1..n |-> Flag(body[c])] \in Seq(Returned)
<1>1. \A c \in 1..n : Flag(body[c]) \in Returned
  BY FlagTyped DEF Elements
<1> QED BY <1>1

\* A cluster returns its options and takes one element or two.
LEMMA ClusterTyped ==
    ASSUME NEW how, NEW body \in Elements, NEW next \in Seq(Elements)
    PROVE  Gives(Cluster(how, body, next), next)
<1> DEFINE wants == {k \in DOMAIN body : /\ body[k] \in DOMAIN ShortOpts
                                         /\ ShortOpts[body[k]] # "no"}
           k == First(wants)
           last == LastOption(how, body[k], Skip(body, k), next)
           Flags(n) == [c \in 1..n |-> Flag(body[c])]
           o == Cluster(how, body, next)
<1>1. o = IF wants = {} THEN [got |-> Flags(Len(body)), takes |-> 1]
          ELSE [got |-> Append(Flags(k - 1), last.got), takes |-> last.takes]
  BY DEF Cluster
<1>2. wants \subseteq 1..Len(body) /\ Len(body) \in Nat
  BY DEF Elements
<1>3. \A n \in 0..Len(body) : Flags(n) \in Seq(Returned)
  BY <1>2, FlagsTyped
<1> HIDE DEF wants, Flags, o
<1>4. CASE wants = {}
  <2>1. o = [got |-> Flags(Len(body)), takes |-> 1]
    BY <1>1, <1>4
  <2> QED BY <1>2, <1>3, <2>1 DEF Gives, o
<1>5. CASE wants # {}
  <2>a. wants \subseteq Nat
    BY <1>2
  <2>1. k \in wants /\ k \in 1..Len(body)
    BY <1>2, <1>5, <2>a, FirstOf
  <2> HIDE DEF k
  <2>2. body[k] \in Chars /\ Skip(body, k) \in Elements
    BY <1>2, <2>1, SkipTyped DEF Elements
  <2>3. last.got \in Returned /\ last.takes \in {1, 2} /\ (last.takes = 2 => next # None)
    BY <2>2, LastOptionTyped
  <2> HIDE DEF last
  <2>4. Flags(k - 1) \in Seq(Returned)
    BY <1>2, <1>3, <2>1
  <2>5. Append(Flags(k - 1), last.got) \in Seq(Returned)
    BY <2>3, <2>4
  <2>6. o.got = Append(Flags(k - 1), last.got) /\ o.takes = last.takes
    BY <1>1, <1>5
  <2> QED BY <2>3, <2>5, <2>6 DEF Gives, o
<1> QED BY <1>4, <1>5

-----------------------------------------------------------------------------
\* An option takes one element or two, and returns what can be returned.

LongRow == [name : Elements, takes : ArgTypes, val : Chars]

LEMMA LongRows ==
    /\ DOMAIN LongTable \subseteq Nat
    /\ \A i \in DOMAIN LongTable :
          /\ LongTable[i].name \in Elements
          /\ LongTable[i].takes \in ArgTypes /\ LongTable[i].val \in Chars
<1>1. LongTable \in Seq(LongRow)
  BY WGetoptAssumption DEF LongRow
<1>2. DOMAIN LongTable \subseteq Nat /\ \A i \in DOMAIN LongTable : LongTable[i] \in LongRow
  BY <1>1
<1> QED BY <1>2 DEF LongRow

LEMMA FirstExact ==
    ASSUME NEW word
    PROVE  LET full == {i \in DOMAIN LongTable : LongTable[i].name = word}
           IN  full # {} => First(full) \in DOMAIN LongTable
<1> DEFINE full == {i \in DOMAIN LongTable : LongTable[i].name = word}
<1>1. full \subseteq DOMAIN LongTable /\ full \subseteq Nat
  BY LongRows
<1> HIDE DEF full
<1>2. full # {} => First(full) \in DOMAIN LongTable
  BY <1>1, FirstOf
<1> QED BY <1>2 DEF full

\* So does a long option.
LEMMA LongOptionTyped ==
    ASSUME NEW how, NEW body \in Elements, NEW next \in Seq(Elements)
    PROVE  LET o == LongOption(how, body, next)
           IN  o.got \in Returned /\ o.takes \in {1, 2} /\ (o.takes = 2 => next # None)
<1> DEFINE cut == {k \in DOMAIN body : body[k] = "="}
           word == IF cut = {} THEN body ELSE SubSeq(body, 1, First(cut) - 1)
           full == {i \in DOMAIN LongTable : LongTable[i].name = word}
           some == {i \in DOMAIN LongTable : IsPrefix(word, LongTable[i].name)}
           one == IF full # {} THEN {First(full)} ELSE some
           o == LongTable[First(one)]
           Only(what) == [got |-> what, takes |-> 1]
           this == LongOption(how, body, next)
<1>1. this = IF \A i \in one : one # {i} THEN Only(<<"?", None>>)
             ELSE IF cut # {}
             THEN Only(IF o.takes = "no" THEN <<"?", None>>
                       ELSE <<o.val, <<Skip(body, First(cut))>>>>)
             ELSE IF o.takes = "required" THEN WithArgument(how, o.val, <<>>, next)
             ELSE Only(<<o.val, None>>)
  BY DEF LongOption
<1>2. one \subseteq DOMAIN LongTable
  BY FirstExact
<1>3. <<"?", None>> \in Returned
  <2>1. "?" \in Codes /\ None \in Seq(Elements)
    BY DEF Codes, None
  <2> QED BY <2>1 DEF Returned
<1>4. cut # {} => Skip(body, First(cut)) \in Elements
  <2>1. cut \subseteq Nat
    BY DEF Elements
  <2> HIDE DEF cut
  <2> QED BY <2>1, FirstOf, SkipTyped
<1> HIDE DEF this, one, cut, o
<1>5. CASE \A i \in one : one # {i}
  BY <1>1, <1>3, <1>5 DEF this
<1>6. CASE ~\A i \in one : one # {i}
  <2>1. PICK i \in one : one = {i}
    BY <1>6
  <2>2. First(one) = i /\ i \in DOMAIN LongTable
    BY <1>2, <2>1, LongRows, FirstOfOne
  <2>3. o.val \in Codes
    BY <2>2, LongRows DEF o, Codes
  <2>4. <<o.val, None>> \in Returned /\ None \in Seq(Elements)
    <3>1. None \in Seq(Elements)
      BY DEF None
    <3> QED BY <2>3, <3>1 DEF Returned
  <2>5. CASE cut # {}
    <3> DEFINE e == Skip(body, First(cut))
    <3>1. e \in Elements
      BY <1>4, <2>5
    <3> HIDE DEF e
    <3>2. <<e>> \in Seq(Elements)
      BY <3>1
    <3>3. <<o.val, <<e>>>> \in Returned
      BY <2>3, <3>2 DEF Returned
    <3>4. this = Only(IF o.takes = "no" THEN <<"?", None>> ELSE <<o.val, <<e>>>>)
      BY <1>1, <1>6, <2>5 DEF e
    <3>5. this.got \in Returned /\ this.takes = 1
      BY <1>3, <3>3, <3>4
    <3> QED BY <3>5 DEF this
  <2>6. CASE cut = {} /\ o.takes = "required"
    <3>1. this = WithArgument(how, o.val, <<>>, next)
      BY <1>1, <1>6, <2>6
    <3>2. <<>> \in Elements
      BY DEF Elements
    <3>3. this.got \in Returned /\ this.takes \in {1, 2} /\ (this.takes = 2 => next # None)
      BY <2>3, <3>1, <3>2, WithArgumentTyped
    <3> QED BY <3>3 DEF this
  <2>7. CASE cut = {} /\ o.takes # "required"
    <3>1. this = Only(<<o.val, None>>)
      BY <1>1, <1>6, <2>7
    <3>2. this.got \in Returned /\ this.takes = 1
      BY <2>4, <3>1
    <3> QED BY <3>2 DEF this
  <2> QED BY <2>5, <2>6, <2>7
<1> QED BY <1>5, <1>6

LEMMA OptionTyped ==
    ASSUME NEW how, NEW e \in Elements, NEW next \in Seq(Elements)
    PROVE  Gives(Option(how, e, next), next)
<1>1. CASE IsLong(how, e)
  <2> DEFINE body == Skip(e, IF e[2] = "-" THEN 2 ELSE 1)
             o == LongOption(how, body, next)
  <2>1. body \in Elements
    BY SkipTyped
  <2> HIDE DEF body
  <2>2. o.got \in Returned /\ o.takes \in {1, 2} /\ (o.takes = 2 => next # None)
    BY <2>1, LongOptionTyped
  <2>3. Option(how, e, next) = [got |-> <<o.got>>, takes |-> o.takes]
    BY <1>1 DEF Option, body
  <2> HIDE DEF o
  <2>4. <<o.got>> \in Seq(Returned)
    BY <2>2
  <2> QED BY <2>2, <2>3, <2>4 DEF Gives
<1>2. CASE ~IsLong(how, e)
  <2>1. Skip(e, 1) \in Elements
    BY SkipTyped
  <2>2. Option(how, e, next) = Cluster(how, Skip(e, 1), next)
    BY <1>2 DEF Option
  <2> QED BY <2>1, <2>2, ClusterTyped
<1> QED BY <1>1, <1>2

-----------------------------------------------------------------------------
\* What follows an element, and where an option ends.
LEMMA FollowingTyped ==
    ASSUME NEW argv \in Seq(Elements), NEW i \in Nat
    PROVE  /\ Following(argv, i) \in Seq(Elements)
           /\ Following(argv, i) # None => i + 1 < Len(argv)
<1>1. CASE i + 1 < Len(argv)
  <2>1. argv[i + 2] \in Elements
    BY <1>1
  <2> QED BY <1>1, <2>1 DEF Following
<1>2. CASE ~(i + 1 < Len(argv))
  <2>1. None \in Seq(Elements)
    BY DEF None
  <2> QED BY <1>2, <2>1 DEF Following
<1> QED BY <1>1, <1>2

\* An option ends within argv.
LEMMA OptionEnds ==
    ASSUME NEW argv \in Seq(Elements), NEW i \in Nat, i < Len(argv),
           NEW o, Gives(o, Following(argv, i))
    PROVE  o.got \in Seq(Returned) /\ i + o.takes \in i + 1..Len(argv)
<1>1. o.takes \in {1, 2} /\ (o.takes = 2 => i + 1 < Len(argv)) /\ o.got \in Seq(Returned)
  BY FollowingTyped DEF Gives
<1>2. Len(argv) \in Nat
  OBVIOUS
<1> QED BY <1>1, <1>2

-----------------------------------------------------------------------------
\* The scan of argv is the one recursive function its definition asks for.

\* What is said from an index on depends on what is said of later ones only.
LEMMA ScanFromLater ==
    ASSUME NEW how, NEW argv \in Seq(Elements), NEW f, NEW h, NEW i \in 1..Len(argv),
           \A j \in i + 1..Len(argv) : f[j] = h[j]
    PROVE  ScanFrom(how, argv, f, i) = ScanFrom(how, argv, h, i)
<1> DEFINE e == argv[i + 1]
           o == Option(how, e, Following(argv, i))
<1>1. i \in Nat /\ Len(argv) \in Nat
  OBVIOUS
<1>2. CASE i = Len(argv)
  BY <1>2 DEF ScanFrom
<1>3. CASE i # Len(argv)
  <2>1. i + 1 \in i + 1..Len(argv)
    BY <1>3
  <2>2. e \in Elements
    BY <2>1
  <2>3. Gives(o, Following(argv, i))
    BY <1>1, <2>2, FollowingTyped, OptionTyped
  <2>4. i < Len(argv)
    BY <1>3
  <2> HIDE DEF o
  <2>5. i + o.takes \in i + 1..Len(argv)
    BY <1>1, <2>3, <2>4, OptionEnds
  <2>6. f[i + 1] = h[i + 1] /\ f[i + o.takes] = h[i + o.takes]
    BY <2>1, <2>5
  <2>7. Options(argv, f, i, o) = Options(argv, h, i, o)
    BY <2>6, Zenon DEF Options
  <2> QED BY <1>3, <2>6, <2>7, Zenon DEF ScanFrom, o
<1> QED BY <1>2, <1>3

\* The equation of the scan has a solution, and Scan is one.
Solves(how, argv, f, i) ==
    \A j \in i..Len(argv) : f[j] = ScanFrom(how, argv, f, j)

\* Index by index from the last one, there is a function as the scan asks for.
LEMMA Solvable ==
    ASSUME NEW how, NEW argv \in Seq(Elements), argv # <<>>
    PROVE  \E f : Solves(how, argv, f, 1)
<1> DEFINE N == Len(argv)
           Bad == {n \in 0..N : ~\E f : Solves(how, argv, f, N + 1 - n)}
<1>0. N \in Nat
  OBVIOUS
<1>1. 0 \notin Bad
  <2>1. N + 1 - 0 = N + 1 /\ (N + 1)..N = {}
    BY <1>0
  <2> HIDE DEF N
  <2>2. ASSUME NEW f PROVE Solves(how, argv, f, N + 1 - 0)
    BY <2>1 DEF Solves, N
  <2>3. Solves(how, argv, argv, N + 1 - 0)
    BY <2>2
  <2> QED BY <2>3
<1>2. Bad = {}
  <2> SUFFICES ASSUME Bad # {} PROVE FALSE
    OBVIOUS
  <2>1. PICK n \in Bad : \A m \in Bad : n <= m
    <3>1. Bad \subseteq Nat
      BY <1>0
    <3> HIDE DEF Bad
    <3> QED BY <3>1, Least
  <2>2. n \in 1..N /\ n - 1 \in 0..N /\ n - 1 \notin Bad
    <3>1. n \in 0..N /\ n # 0
      BY <1>1, <2>1
    <3>2. n - 1 \in 0..N /\ ~(n <= n - 1)
      BY <1>0, <3>1
    <3> QED BY <1>0, <2>1, <3>1, <3>2
  <2> DEFINE i == N + 1 - n
  <2>3. i \in 1..N /\ N + 1 - (n - 1) = i + 1
    BY <1>0, <2>2
  <2>4. PICK f : Solves(how, argv, f, i + 1)
    BY <2>2, <2>3
  <2> HIDE DEF i, N
  <2> DEFINE h == [j \in 1..N |-> IF j = i THEN ScanFrom(how, argv, f, i) ELSE f[j]]
  <2>5. h[i] = ScanFrom(how, argv, f, i) /\ \A j \in i + 1..N : h[j] = f[j]
    <3>1. \A j \in i + 1..N : j \in 1..N /\ j # i
      BY <1>0, <2>3
    <3> QED BY <2>3, <3>1
  <2> HIDE DEF h
  <2>6. \A j \in i..N : ScanFrom(how, argv, h, j) = ScanFrom(how, argv, f, j)
    <3> SUFFICES ASSUME NEW j \in i..N
                 PROVE  ScanFrom(how, argv, h, j) = ScanFrom(how, argv, f, j)
      OBVIOUS
    <3>1. j \in 1..N /\ \A k \in j + 1..N : k \in i + 1..N
      BY <1>0, <2>3
    <3>2. \A k \in j + 1..N : h[k] = f[k]
      BY <2>5, <3>1
    <3> QED BY <3>1, <3>2, ScanFromLater DEF N
  <2>7. Solves(how, argv, h, i)
    <3> SUFFICES ASSUME NEW j \in i..N PROVE h[j] = ScanFrom(how, argv, h, j)
      BY DEF Solves, N
    <3>1. CASE j = i
      BY <2>5, <2>6, <3>1
    <3>2. CASE j # i
      <4>1. j \in i + 1..N
        BY <1>0, <2>3, <3>2
      <4>2. f[j] = ScanFrom(how, argv, f, j)
        BY <2>4, <4>1 DEF Solves, N
      <4> QED BY <2>5, <2>6, <4>1, <4>2
    <3> QED BY <3>1, <3>2
  <2>8. n \notin Bad
    BY <2>7 DEF i
  <2> QED BY <2>1, <2>8
<1>3. N \in 0..N /\ N + 1 - N = 1
  BY <1>0
<1>4. N \notin Bad
  BY <1>2
<1> QED BY <1>3, <1>4

\* Hence the scan is one.
LEMMA ScanIs ==
    ASSUME NEW how, NEW argv \in Seq(Elements), argv # <<>>
    PROVE  \A i \in 1..Len(argv) :
              Scan(how, argv)[i] = ScanFrom(how, argv, Scan(how, argv), i)
<1> DEFINE N == Len(argv)
           Fits(f) == f = [i \in 1..N |-> ScanFrom(how, argv, f, i)]
<1>1. PICK f : Solves(how, argv, f, 1)
  BY Solvable
<1> DEFINE h == [i \in 1..N |-> f[i]]
<1>2. Fits(h)
  <2>1. \A i \in 1..N : h[i] = f[i]
    OBVIOUS
  <2>2. \A i \in 1..N : ScanFrom(how, argv, h, i) = ScanFrom(how, argv, f, i)
    <3> SUFFICES ASSUME NEW i \in 1..N
                 PROVE  ScanFrom(how, argv, h, i) = ScanFrom(how, argv, f, i)
      OBVIOUS
    <3>1. \A j \in i + 1..N : h[j] = f[j]
      OBVIOUS
    <3> HIDE DEF h
    <3> QED BY <3>1, ScanFromLater
  <2>3. \A i \in 1..N : f[i] = ScanFrom(how, argv, f, i)
    BY <1>1 DEF Solves
  <2>4. h = [i \in 1..N |-> h[i]]
    OBVIOUS
  <2> HIDE DEF h
  <2>5. \A i \in 1..N : h[i] = ScanFrom(how, argv, h, i)
    BY <2>1, <2>2, <2>3
  <2> QED BY <2>4, <2>5
<1>3. Scan(how, argv) = CHOOSE k : Fits(k)
  BY DEF Scan
<1> HIDE DEF Fits
<1>4. Fits(Scan(how, argv))
  BY <1>2, <1>3
<1> DEFINE S == Scan(how, argv)
<1>5. S = [i \in 1..N |-> ScanFrom(how, argv, S, i)]
  BY <1>4 DEF Fits
<1> HIDE DEF S
<1>6. \A i \in 1..N : S[i] = ScanFrom(how, argv, S, i)
  BY <1>5
<1> QED BY <1>6 DEF S

-----------------------------------------------------------------------------
\* What the scan says at each kind of element.

\* At the end of argv nothing is left to say.
LEMMA ScanEnd ==
    ASSUME NEW how, NEW argv \in Seq(Elements), argv # <<>>
    PROVE  Scan(how, argv)[Len(argv)] = Nothing
<1>1. Len(argv) \in 1..Len(argv)
  OBVIOUS
<1>2. Scan(how, argv)[Len(argv)] = ScanFrom(how, argv, Scan(how, argv), Len(argv))
  BY <1>1, ScanIs
<1> QED BY <1>2 DEF ScanFrom, Nothing

LEMMA TailBetween ==
    ASSUME NEW S, NEW a \in Seq(S), NEW i \in Nat, NEW n \in Nat, i < n, n <= Len(a)
    PROVE  Tail(Between(a, i, n)) = Between(a, i + 1, n)
<1>1. PICK j \in Nat : j = i + 1
  OBVIOUS
<1> DEFINE x == Between(a, i, n)
           y == Between(a, j, n)
<1>2. i <= n /\ j <= n
  BY <1>1
<1>3. x \in Seq(S) /\ Len(x) = n - i /\ \A k \in 1..n - i : x[k] = a[i + k]
  BY <1>2, BetweenTyped
<1>4. y \in Seq(S) /\ Len(y) = n - j /\ \A k \in 1..n - j : y[k] = a[j + k]
  BY <1>2, BetweenTyped
<1> HIDE DEF x, y
<1>5. x # <<>>
  BY <1>3
<1>6. /\ Tail(x) \in Seq(S) /\ Len(Tail(x)) = Len(x) - 1
      /\ \A k \in 1..Len(x) - 1 : Tail(x)[k] = x[k + 1]
  BY <1>3, <1>5
<1>7. \A k \in 1..Len(Tail(x)) : Tail(x)[k] = y[k]
  <2> SUFFICES ASSUME NEW k \in 1..Len(Tail(x)) PROVE Tail(x)[k] = y[k]
    OBVIOUS
  <2>1. /\ k \in 1..Len(x) - 1 /\ k + 1 \in 1..n - i /\ k \in 1..n - j
        /\ i + (k + 1) = j + k
    BY <1>1, <1>3, <1>6
  <2> QED BY <1>3, <1>4, <1>6, <2>1
<1>8. Len(Tail(x)) = Len(y)
  BY <1>1, <1>3, <1>4, <1>6
<1>9. Tail(x) = y
  BY <1>4, <1>6, <1>7, <1>8, SameElementwise
<1> QED BY <1>1, <1>9 DEF x, y

\* After `--` everything is left.
LEMMA ScanDashDash ==
    ASSUME NEW how, NEW argv \in Seq(Elements), NEW i \in 1..Len(argv) - 1,
           argv[i + 1] = DashDash
    PROVE  Scan(how, argv)[i] = Parts(<<>>, <<DashDash>>, Between(argv, i + 1, Len(argv)))
<1>1. /\ i \in Nat /\ i < Len(argv) /\ i \in 1..Len(argv) /\ i # Len(argv)
      /\ argv # <<>>
  OBVIOUS
<1>2. Scan(how, argv)[i] = ScanFrom(how, argv, Scan(how, argv), i)
  BY <1>1, ScanIs
<1>3. Tail(Between(argv, i, Len(argv))) = Between(argv, i + 1, Len(argv))
  <2> DEFINE n == Len(argv)
  <2>1. n \in Nat /\ i < n /\ n <= Len(argv)
    BY <1>1
  <2> HIDE DEF n
  <2>2. Tail(Between(argv, i, n)) = Between(argv, i + 1, n)
    BY <1>1, <2>1, TailBetween
  <2> QED BY <2>2 DEF n
<1> QED BY <1>1, <1>2, <1>3, Zenon DEF ScanFrom

\* An option, and what follows it.
LEMMA ScanOption ==
    ASSUME NEW how, NEW argv \in Seq(Elements), NEW i \in 1..Len(argv) - 1,
           argv[i + 1] # DashDash, ~NonOption(argv[i + 1])
    PROVE  LET o == Option(how, argv[i + 1], Following(argv, i))
           IN  Scan(how, argv)[i] = Options(argv, Scan(how, argv), i, o)
<1>1. i \in 1..Len(argv) /\ i # Len(argv) /\ argv # <<>>
  OBVIOUS
<1>2. Scan(how, argv)[i] = ScanFrom(how, argv, Scan(how, argv), i)
  BY <1>1, ScanIs
<1> QED BY <1>1, <1>2, Zenon DEF ScanFrom

\* A non-option is left, returned or the end, by the marker.
LEMMA ScanNonOption ==
    ASSUME NEW how, NEW argv \in Seq(Elements), NEW i \in 1..Len(argv) - 1,
           NonOption(argv[i + 1])
    PROVE  LET e == argv[i + 1]
               after == Scan(how, argv)[i + 1]
               this == Scan(how, argv)[i]
           IN  /\ how.marker = "+" => this = Parts(<<>>, <<>>, Between(argv, i, Len(argv)))
               /\ how.marker = "-" =>
                     this = Then(Parts(<<<<"nonopt", <<e>>>>>>, <<e>>, <<>>), after)
               /\ how.marker \notin {"+", "-"} =>
                     this = Then(Parts(<<>>, <<>>, <<e>>), after)
<1>1. i \in 1..Len(argv) /\ i # Len(argv) /\ argv # <<>>
  OBVIOUS
<1>2. Scan(how, argv)[i] = ScanFrom(how, argv, Scan(how, argv), i)
  BY <1>1, ScanIs
<1>3. argv[i + 1] # DashDash
  <2> SUFFICES ASSUME argv[i + 1] = DashDash PROVE FALSE
    OBVIOUS
  <2>1. Len(DashDash) = 2 /\ DashDash[1] = "-"
    BY DEF DashDash
  <2>2. At(DashDash, 0) = "-"
    BY <2>1 DEF At
  <2> QED BY <2>1, <2>2 DEF NonOption
<1> DEFINE e == argv[i + 1]
           S == Scan(how, argv)
<1> HIDE DEF S
<1>4. CASE how.marker = "+"
  BY <1>1, <1>2, <1>3, <1>4 DEF ScanFrom, S
<1>5. CASE how.marker = "-"
  BY <1>1, <1>2, <1>3, <1>5 DEF ScanFrom, S
<1>6. CASE how.marker \notin {"+", "-"}
  BY <1>1, <1>2, <1>3, <1>6 DEF ScanFrom, S
<1> QED BY <1>4, <1>5, <1>6

\* Marker by marker.
LEMMA ScanStops ==
    ASSUME NEW how, NEW argv \in Seq(Elements), NEW i \in 1..Len(argv) - 1,
           NonOption(argv[i + 1]), how.marker = "+"
    PROVE  Scan(how, argv)[i] = Parts(<<>>, <<>>, Between(argv, i, Len(argv)))
BY ScanNonOption, Zenon

LEMMA ScanReturns ==
    ASSUME NEW how, NEW argv \in Seq(Elements), NEW i \in 1..Len(argv) - 1,
           NonOption(argv[i + 1]), how.marker = "-"
    PROVE  Scan(how, argv)[i] =
              Then(Parts(<<<<"nonopt", <<argv[i + 1]>>>>>>, <<argv[i + 1]>>, <<>>),
                   Scan(how, argv)[i + 1])
BY ScanNonOption, Zenon

LEMMA ScanLeaves ==
    ASSUME NEW how, NEW argv \in Seq(Elements), NEW i \in 1..Len(argv) - 1,
           NonOption(argv[i + 1]), how.marker \notin {"+", "-"}
    PROVE  Scan(how, argv)[i] =
              Then(Parts(<<>>, <<>>, <<argv[i + 1]>>), Scan(how, argv)[i + 1])
BY ScanNonOption, Zenon

LEMMA OptionsTyped ==
    ASSUME NEW argv \in Seq(Elements), NEW i \in Nat, i < Len(argv), NEW scan,
           NEW o, Gives(o, Following(argv, i)), scan[i + o.takes] \in Scans
    PROVE  Options(argv, scan, i, o) \in Scans
<1>1. i + o.takes \in i + 1..Len(argv) /\ o.got \in Seq(Returned)
  BY OptionEnds
<1> DEFINE j == i + o.takes
<1>2. j \in Nat /\ i <= j /\ j <= Len(argv)
  BY <1>1
<1>3. scan[j] \in Scans
  OBVIOUS
<1>4. Options(argv, scan, i, o) = Then(Parts(o.got, Between(argv, i, j), <<>>), scan[j])
  BY DEF Options
<1> HIDE DEF j
<1>5. Between(argv, i, j) \in Seq(Elements) /\ <<>> \in Seq(Elements)
  BY <1>2, BetweenTyped
<1>6. Parts(o.got, Between(argv, i, j), <<>>) \in Scans
  BY <1>1, <1>5, PartsTyped
<1> QED BY <1>3, <1>4, <1>6, ThenTyped

LEMMA ScanTyped ==
    ASSUME NEW how, NEW argv \in Seq(Elements), argv # <<>>
    PROVE  \A i \in 1..Len(argv) : Scan(how, argv)[i] \in Scans
<1> DEFINE N == Len(argv)
           S == Scan(how, argv)
           Bad == {n \in 0..N - 1 : S[N - n] \notin Scans}
<1>0. N \in Nat \ {0}
  OBVIOUS
<1>1. <<>> \in Seq(Elements) /\ <<>> \in Seq(Returned)
  OBVIOUS
<1>2. Bad = {}
  <2> SUFFICES ASSUME Bad # {} PROVE FALSE
    OBVIOUS
  <2>1. PICK n \in Bad : \A m \in Bad : n <= m
    <3>1. Bad \subseteq Nat
      BY <1>0
    <3> HIDE DEF Bad
    <3> QED BY <3>1, Least
  <2> DEFINE i == N - n
             e == argv[i + 1]
  <2>2. i \in 1..N /\ S[i] \notin Scans
    BY <1>0, <2>1
  <2>3. ASSUME NEW j \in i + 1..N PROVE S[j] \in Scans
    <3>1. N - j \in 0..N - 1 /\ ~(n <= N - j) /\ N - (N - j) = j
      BY <1>0, <2>1, <2>3
    <3> HIDE DEF i, N
    <3> QED BY <2>1, <3>1
  <2>4. i # N
    <3>1. S[N] = Nothing
      BY ScanEnd
    <3>2. Nothing \in Scans
      BY <1>1, PartsTyped DEF Nothing
    <3> HIDE DEF S, N, i
    <3> QED BY <2>2, <3>1, <3>2
  <2> HIDE DEF i, Bad
  <2>5. /\ i \in 1..N - 1 /\ i + 1 \in i + 1..N /\ i \in Nat /\ i < N /\ i + 1 \in 1..N
        /\ i + 1 <= N /\ i <= N /\ i + 1 \in Nat
    BY <1>0, <2>2, <2>4
  <2>6. e \in Elements
    BY <2>5
  <2> HIDE DEF e
  <2>7. CASE e = DashDash
    <3>1. S[i] = Parts(<<>>, <<DashDash>>, Between(argv, i + 1, N))
      BY <2>5, <2>7, ScanDashDash DEF e
    <3>2. <<DashDash>> \in Seq(Elements)
      BY <2>6, <2>7
    <3>3. Between(argv, i + 1, N) \in Seq(Elements)
      BY <2>5, BetweenTyped
    <3>4. Parts(<<>>, <<DashDash>>, Between(argv, i + 1, N)) \in Scans
      BY <1>1, <3>2, <3>3, PartsTyped, Zenon
    <3> HIDE DEF S
    <3> QED BY <2>2, <3>1, <3>4
  <2>8. CASE e # DashDash /\ ~NonOption(e)
    <3> DEFINE o == Option(how, e, Following(argv, i))
    <3>1. S[i] = Options(argv, S, i, o)
      BY <2>5, <2>8, ScanOption DEF e
    <3>2. Gives(o, Following(argv, i))
      BY <2>5, <2>6, FollowingTyped, OptionTyped
    <3> HIDE DEF o, S
    <3>3. i + o.takes \in i + 1..N
      BY <2>5, <3>2, OptionEnds
    <3>4. S[i + o.takes] \in Scans
      BY <2>3, <3>3
    <3> QED BY <2>2, <2>5, <3>1, <3>2, <3>4, OptionsTyped
  <2>9. CASE NonOption(e)
    <3>1. S[i + 1] \in Scans
      BY <2>3, <2>5
    <3>2. /\ how.marker = "+" => S[i] = Parts(<<>>, <<>>, Between(argv, i, N))
          /\ how.marker = "-" =>
                S[i] = Then(Parts(<<<<"nonopt", <<e>>>>>>, <<e>>, <<>>), S[i + 1])
          /\ how.marker \notin {"+", "-"} => S[i] = Then(Parts(<<>>, <<>>, <<e>>), S[i + 1])
      BY <2>5, <2>9, ScanNonOption DEF e
    <3>3. <<e>> \in Seq(Elements)
      BY <2>6
    <3>4. <<<<"nonopt", <<e>>>>>> \in Seq(Returned)
      <4>1. "nonopt" \in Codes
        BY DEF Codes
      <4>2. <<"nonopt", <<e>>>> \in Returned
        BY <3>3, <4>1 DEF Returned
      <4> QED BY <4>2
    <3>5. Between(argv, i, N) \in Seq(Elements)
      BY <2>5, BetweenTyped
    <3> HIDE DEF S
    <3>6. /\ Parts(<<>>, <<>>, Between(argv, i, N)) \in Scans
          /\ Parts(<<<<"nonopt", <<e>>>>>>, <<e>>, <<>>) \in Scans
          /\ Parts(<<>>, <<>>, <<e>>) \in Scans
      BY <1>1, <3>3, <3>4, <3>5, PartsTyped
    <3>7. \A x \in Scans : Then(x, S[i + 1]) \in Scans
      BY <3>1, ThenTyped
    <3> QED BY <2>2, <3>2, <3>6, <3>7
  <2> QED BY <2>7, <2>8, <2>9
<1>3. ASSUME NEW i \in 1..N PROVE S[i] \in Scans
  <2>1. N - i \in 0..N - 1 /\ N - (N - i) = i
    BY <1>0
  <2>2. N - i \notin Bad
    BY <1>2
  <2> QED BY <2>1, <2>2
<1> QED BY <1>3

-----------------------------------------------------------------------------
\* Non-options in a row, and the text of a cluster.

LEMMA ThenParts ==
    ASSUME NEW a \in Seq(Returned), NEW b \in Seq(Elements), NEW c \in Seq(Elements),
           NEW d \in Seq(Returned), NEW e \in Seq(Elements), NEW f \in Seq(Elements)
    PROVE  Then(Parts(a, b, c), Parts(d, e, f)) = Parts(a \o d, b \o e, c \o f)
<1> DEFINE p == Parts(a, b, c)
           q == Parts(d, e, f)
<1>1. p.got = a /\ p.used = b /\ p.left = c
  BY PartsTyped
<1>2. q.got = d /\ q.used = e /\ q.left = f
  BY PartsTyped
<1> HIDE DEF p, q
<1>3. Then(p, q) = Parts(a \o d, b \o e, c \o f)
  BY <1>1, <1>2, Zenon DEF Then
<1> QED BY <1>3 DEF p, q

\* The non-options between two indices are left, and what follows follows.
LEMMA ScanSkip ==
    ASSUME NEW how, how.marker \notin {"+", "-"},
           NEW argv \in Seq(Elements), NEW i \in 1..Len(argv), NEW j \in i..Len(argv),
           \A k \in i..j - 1 : NonOption(argv[k + 1])
    PROVE  Scan(how, argv)[i] =
              Then(Parts(<<>>, <<>>, Between(argv, i, j)), Scan(how, argv)[j])
<1> DEFINE S == Scan(how, argv)
           Leaves(a) == Parts(<<>>, <<>>, a)
           Right(k) == S[i] = Then(Leaves(Between(argv, i, k)), S[k])
           Wrong == {k \in i..j : ~Right(k)}
<1>1. argv # <<>> /\ i \in Nat /\ j \in Nat /\ Len(argv) \in Nat
  OBVIOUS
<1>2. \A k \in 1..Len(argv) : S[k] \in Scans
  BY <1>1, ScanTyped
<1>3. <<>> \in Seq(Returned) /\ <<>> \in Seq(Elements)
  OBVIOUS
<1>4. \A a \in Seq(Elements) : Leaves(a) \in Scans
  BY <1>3, PartsTyped
<1>5. \A a, b \in Seq(Elements) : Then(Leaves(a), Leaves(b)) = Leaves(a \o b)
  <2> SUFFICES ASSUME NEW a \in Seq(Elements), NEW b \in Seq(Elements)
               PROVE  Then(Leaves(a), Leaves(b)) = Leaves(a \o b)
    OBVIOUS
  <2>1. PICK n : n = <<>>
    OBVIOUS
  <2>2. n \in Seq(Returned) /\ n \in Seq(Elements)
    BY <1>3, <2>1
  <2>3. n \o n = n
    BY <2>1, <2>2, JoinEmpty
  <2>4. Then(Parts(n, n, a), Parts(n, n, b)) = Parts(n \o n, n \o n, a \o b)
    BY <2>2, ThenParts
  <2>5. Then(Parts(n, n, a), Parts(n, n, b)) = Parts(n, n, a \o b)
    BY <2>3, <2>4, Zenon
  <2> QED BY <2>1, <2>5, Zenon
<1>6. Right(i)
  <2>1. Between(argv, i, i) = <<>>
    BY <1>1, BetweenNone
  <2>2. S[i] \in Scans
    BY <1>2
  <2> HIDE DEF S
  <2>3. Then(Nothing, S[i]) = S[i]
    BY <2>2, ThenNothing
  <2> QED BY <2>1, <2>3 DEF Nothing
<1>7. ASSUME NEW k \in i..j - 1, Right(k) PROVE Right(k + 1)
  <2>1. /\ k \in 1..Len(argv) - 1 /\ k + 1 \in 1..Len(argv) /\ k \in Nat /\ k + 1 \in Nat
        /\ i <= k /\ k <= k + 1 /\ k + 1 <= Len(argv) /\ k < Len(argv) /\ i <= k + 1
        /\ k <= Len(argv) /\ NonOption(argv[k + 1])
    BY <1>1
  <2> DEFINE e == argv[k + 1]
             a == Between(argv, i, k)
  <2>2. S[k] = Then(Leaves(<<e>>), S[k + 1])
    <3>1. k \in 1..Len(argv) - 1 /\ NonOption(argv[k + 1])
      BY <2>1
    <3> QED BY <3>1, ScanLeaves
  <2>3. a \in Seq(Elements) /\ <<e>> \in Seq(Elements)
    <3>1. i \in Nat /\ k \in Nat /\ i <= k /\ k <= Len(argv)
      BY <1>1, <2>1
    <3>2. a \in Seq(Elements)
      BY <3>1, BetweenElements
    <3>3. e \in Elements
      BY <2>1
    <3> QED BY <3>2, <3>3
  <2>4. a \o <<e>> = Between(argv, i, k + 1)
    <3>1. Between(argv, k, k + 1) = <<e>>
      BY <2>1, BetweenOne
    <3>2. Between(argv, i, k) \o Between(argv, k, k + 1) = Between(argv, i, k + 1)
      BY <1>1, <2>1, BetweenJoined
    <3> QED BY <3>1, <3>2, Zenon
  <2>5. S[k + 1] \in Scans
    BY <1>2, <2>1
  <2> HIDE DEF S, a, e, Leaves
  <2>6. Then(Leaves(a), Leaves(<<e>>)) = Leaves(Between(argv, i, k + 1))
    BY <1>5, <2>3, <2>4
  <2>7. Leaves(a) \in Scans /\ Leaves(<<e>>) \in Scans
    BY <1>4, <2>3
  <2>8. S[i] = Then(Leaves(a), Then(Leaves(<<e>>), S[k + 1]))
    BY <1>7, <2>2 DEF a
  <2>9. Then(Then(Leaves(a), Leaves(<<e>>)), S[k + 1])
            = Then(Leaves(a), Then(Leaves(<<e>>), S[k + 1]))
    BY <2>5, <2>7, ThenThree
  <2> QED BY <2>6, <2>8, <2>9, Zenon
<1>8. Wrong = {}
  <2> SUFFICES ASSUME Wrong # {} PROVE FALSE
    OBVIOUS
  <2>1. PICK k \in Wrong : \A m \in Wrong : k <= m
    <3>1. Wrong \subseteq Nat
      BY <1>1
    <3> HIDE DEF Wrong
    <3> QED BY <3>1, Least
  <2> HIDE DEF Right
  <2>2. k \in i..j /\ k # i
    BY <1>6, <2>1
  <2>3. k - 1 \in i..j - 1 /\ k - 1 \in i..j /\ ~(k <= k - 1) /\ (k - 1) + 1 = k
    BY <1>1, <2>2
  <2>4. Right(k - 1)
    BY <2>1, <2>3
  <2>5. Right(k)
    BY <1>7, <2>3, <2>4
  <2> QED BY <2>1, <2>5
<1>9. j \in i..j
  BY <1>1
<1> HIDE DEF Right
<1>10. Right(j)
  BY <1>8, <1>9
<1> QED BY <1>10 DEF Right

-----------------------------------------------------------------------------
\* A cluster, character by character.
LEMMA SkipSkip ==
    ASSUME NEW e \in Elements, NEW n \in Nat, NEW m \in Nat, n + m <= Len(e)
    PROVE  Skip(Skip(e, n), m) = Skip(e, n + m)
<1> DEFINE x == Skip(e, n)
           y == Skip(x, m)
           z == Skip(e, n + m)
<1>1. n <= Len(e) /\ n + m \in Nat /\ Len(e) \in Nat
  BY DEF Elements
<1>2. x \in Elements /\ Len(x) = Len(e) - n /\ \A k \in 1..Len(e) - n : x[k] = e[n + k]
  BY <1>1, SkipTyped
<1> HIDE DEF x
<1>3. m <= Len(x)
  BY <1>1, <1>2
<1>4. y \in Elements /\ Len(y) = Len(x) - m /\ \A k \in 1..Len(x) - m : y[k] = x[m + k]
  BY <1>2, <1>3, SkipTyped
<1>5. /\ z \in Elements /\ Len(z) = Len(e) - (n + m)
      /\ \A k \in 1..Len(e) - (n + m) : z[k] = e[(n + m) + k]
  BY <1>1, SkipTyped
<1> HIDE DEF y, z
<1>6. Len(y) = Len(z)
  BY <1>1, <1>2, <1>4, <1>5
<1>7. \A k \in 1..Len(y) : y[k] = z[k]
  <2> SUFFICES ASSUME NEW k \in 1..Len(y) PROVE y[k] = z[k]
    OBVIOUS
  <2>1. /\ k \in 1..Len(x) - m /\ m + k \in 1..Len(e) - n /\ k \in 1..Len(e) - (n + m)
        /\ n + (m + k) = (n + m) + k
    BY <1>1, <1>2, <1>4
  <2> QED BY <1>2, <1>4, <1>5, <2>1
<1>8. y \in Seq(Chars) /\ z \in Seq(Chars)
  BY <1>4, <1>5 DEF Elements
<1>9. y = z
  BY <1>6, <1>7, <1>8, SameElementwise
<1> QED BY <1>9 DEF x, y, z

\* The characters of a text that want an argument.
Wants(body) == {k \in DOMAIN body : /\ body[k] \in DOMAIN ShortOpts
                                    /\ ShortOpts[body[k]] # "no"}
Flags(body, n) == [c \in 1..n |-> Flag(body[c])]

LEMMA ClusterIs ==
    ASSUME NEW how, NEW body, NEW next
    PROVE  LET k == First(Wants(body))
               last == LastOption(how, body[k], Skip(body, k), next)
           IN  /\ Wants(body) = {} => Cluster(how, body, next) =
                     [got |-> Flags(body, Len(body)), takes |-> 1]
               /\ Wants(body) # {} => Cluster(how, body, next) =
                     [got |-> Append(Flags(body, k - 1), last.got), takes |-> last.takes]
BY DEF Cluster, Wants, Flags

LEMMA ClusterOfNone ==
    ASSUME NEW how, NEW next
    PROVE  Cluster(how, <<>>, next) = [got |-> <<>>, takes |-> 1]
<1>1. Wants(<<>>) = {}
  BY DEF Wants
<1>2. Flags(<<>>, Len(<<>>)) = <<>>
  BY DEF Flags
<1> QED BY <1>1, <1>2, ClusterIs

LEMMA WantsTyped ==
    ASSUME NEW body \in Elements
    PROVE  Wants(body) \subseteq 1..Len(body) /\ Len(body) \in Nat /\ Wants(body) \subseteq Nat
BY DEF Wants, Elements

\* The first character takes an argument: it is the last option.
LEMMA ClusterFirstWants ==
    ASSUME NEW how, NEW body \in Elements, NEW next, 1 \in Wants(body)
    PROVE  LET last == LastOption(how, body[1], Skip(body, 1), next)
           IN  Cluster(how, body, next) = [got |-> <<last.got>>, takes |-> last.takes]
<1>1. First(Wants(body)) = 1
  <2>1. Wants(body) \subseteq 1..Len(body) /\ Wants(body) \subseteq Nat
    BY WantsTyped
  <2>2. /\ First(Wants(body)) \in Wants(body) /\ First(Wants(body)) <= 1
    BY <2>1, FirstOf
  <2> QED BY <2>1, <2>2
<1> DEFINE last == LastOption(how, body[1], Skip(body, 1), next)
<1>2. Cluster(how, body, next) =
          [got |-> Append(Flags(body, 1 - 1), last.got), takes |-> last.takes]
  BY <1>1, ClusterIs
<1>3. Flags(body, 1 - 1) = <<>>
  BY DEF Flags
<1> HIDE DEF last
<1>4. Append(<<>>, last.got) = <<last.got>>
  OBVIOUS
<1>5. Cluster(how, body, next) = [got |-> <<last.got>>, takes |-> last.takes]
  BY <1>2, <1>3, <1>4, Zenon
<1> QED BY <1>5 DEF last

\* The first character is a flag or unknown: it comes before the others.
LEMMA FlagsFirst ==
    ASSUME NEW body \in Elements, NEW n \in 1..Len(body)
    PROVE  <<Flag(body[1])>> \o Flags(Skip(body, 1), n - 1) = Flags(body, n)
<1> DEFINE rest == Skip(body, 1)
           x == <<Flag(body[1])>>
           y == Flags(rest, n - 1)
           z == Flags(body, n)
<1>1. /\ Len(body) \in Nat /\ 1 <= Len(body) /\ n \in Nat /\ n - 1 \in Nat
      /\ n <= Len(body) /\ 1 \in 1..Len(body)
  BY DEF Elements
<1>2. /\ rest \in Elements /\ Len(rest) = Len(body) - 1
      /\ \A k \in 1..Len(body) - 1 : rest[k] = body[1 + k]
  BY <1>1, SkipTyped
<1> HIDE DEF rest
<1>3. n - 1 <= Len(rest)
  BY <1>1, <1>2
<1>4. y \in Seq(Returned) /\ z \in Seq(Returned)
  BY <1>1, <1>2, <1>3, FlagsTyped DEF Flags
<1>5. Len(y) = n - 1 /\ \A k \in 1..n - 1 : y[k] = Flag(rest[k])
  BY <1>1 DEF Flags
<1>6. Len(z) = n /\ \A k \in 1..n : z[k] = Flag(body[k])
  BY <1>1 DEF Flags
<1>7. x \in Seq(Returned) /\ Len(x) = 1 /\ x[1] = Flag(body[1])
  <2>1. body[1] \in Chars
    BY <1>1 DEF Elements
  <2>2. Flag(body[1]) \in Returned
    BY <2>1, FlagTyped
  <2> QED BY <2>2
<1> HIDE DEF x, y, z
<1>8. \A k \in 1..Len(x) : z[k] = x[k]
  BY <1>1, <1>6, <1>7
<1>9. \A k \in 1..Len(y) : z[Len(x) + k] = y[k]
  <2> SUFFICES ASSUME NEW k \in 1..Len(y) PROVE z[Len(x) + k] = y[k]
    OBVIOUS
  <2>1. k \in 1..n - 1 /\ 1 + k \in 1..n /\ k \in 1..Len(body) - 1
    BY <1>1, <1>5
  <2> QED BY <1>2, <1>5, <1>6, <1>7, <2>1
<1>10. Len(z) = Len(x) + Len(y)
  BY <1>1, <1>5, <1>6, <1>7
<1>11. x \o y = z
  BY <1>4, <1>7, <1>8, <1>9, <1>10, JoinedIs
<1> QED BY <1>11 DEF x, y, z, rest

-----------------------------------------------------------------------------
\* The first option of a cluster, and those after it.

LEMMA AppendAfter ==
    ASSUME NEW T, NEW x \in Seq(T), NEW y \in Seq(T), NEW e \in T
    PROVE  Append(x \o y, e) = x \o Append(y, e)
OBVIOUS

LEMMA ClusterFirstFlag ==
    ASSUME NEW how, NEW body \in Elements, body # <<>>, 1 \notin Wants(body),
           NEW next \in Seq(Elements)
    PROVE  LET d == Cluster(how, Skip(body, 1), next)
           IN  Cluster(how, body, next) =
                   [got |-> <<Flag(body[1])>> \o d.got, takes |-> d.takes]
<1> DEFINE rest == Skip(body, 1)
           N == Len(body)
           d == Cluster(how, rest, next)
           x == <<Flag(body[1])>>
<1>1. N \in Nat /\ 1 <= N /\ 1 \in 1..N /\ N \in 1..N
  BY DEF Elements
<1>2. /\ rest \in Elements /\ Len(rest) = N - 1
      /\ \A k \in 1..N - 1 : rest[k] = body[1 + k]
  BY <1>1, SkipTyped
<1>3. \A k \in 1..N - 1 : k \in Wants(rest) <=> k + 1 \in Wants(body)
  <2> SUFFICES ASSUME NEW k \in 1..N - 1
               PROVE  k \in Wants(rest) <=> k + 1 \in Wants(body)
    OBVIOUS
  <2>1. k \in DOMAIN rest /\ k + 1 \in DOMAIN body /\ rest[k] = body[k + 1]
    BY <1>1, <1>2 DEF Elements
  <2> HIDE DEF rest
  <2> QED BY <2>1 DEF Wants
<1>4. /\ Wants(rest) \subseteq 1..N - 1 /\ Wants(rest) \subseteq Nat
      /\ Wants(body) \subseteq 1..N /\ Wants(body) \subseteq Nat
  BY <1>2, WantsTyped
<1>5. x \in Seq(Returned)
  <2>1. body[1] \in Chars
    BY <1>1 DEF Elements
  <2> QED BY <2>1, FlagTyped
<1> HIDE DEF rest, N
<1>6. CASE Wants(body) = {}
  <2>1. Wants(rest) = {}
    BY <1>3, <1>4, <1>6
  <2>2. d = [got |-> Flags(rest, Len(rest)), takes |-> 1]
    BY <2>1, ClusterIs
  <2>3. Cluster(how, body, next) = [got |-> Flags(body, N), takes |-> 1]
    BY <1>6, ClusterIs DEF N
  <2>4. x \o Flags(rest, N - 1) = Flags(body, N)
    BY <1>1, FlagsFirst DEF N, rest
  <2>5. d.got = Flags(rest, N - 1) /\ d.takes = 1
    BY <1>2, <2>2
  <2> HIDE DEF d, x
  <2>6. Cluster(how, body, next) = [got |-> x \o d.got, takes |-> d.takes]
    BY <2>3, <2>4, <2>5, Zenon
  <2> QED BY <2>6 DEF d, x, rest
<1>7. CASE Wants(body) # {}
  <2> DEFINE k == First(Wants(body))
             m == First(Wants(rest))
  <2>1. k \in Wants(body) /\ \A j \in Wants(body) : k <= j
    BY <1>4, <1>7, FirstOf
  <2>2. k \in 2..N /\ k - 1 \in Wants(rest)
    <3>1. k \in 1..N /\ k # 1
      BY <1>4, <2>1
    <3> HIDE DEF k
    <3>2. k \in 2..N /\ k - 1 \in 1..N - 1 /\ (k - 1) + 1 = k
      BY <1>1, <3>1
    <3> QED BY <1>3, <2>1, <3>2
  <2>3. m \in Wants(rest) /\ \A j \in Wants(rest) : m <= j
    BY <1>4, <2>2, FirstOf
  <2> HIDE DEF k, m
  <2>4. m = k - 1
    <3>1. m \in 1..N - 1 /\ m <= k - 1 /\ k \in Nat /\ m \in Nat
      BY <1>4, <2>1, <2>2, <2>3
    <3>2. m + 1 \in Wants(body)
      BY <1>3, <2>3, <3>1
    <3>3. k <= m + 1
      BY <2>1, <3>2
    <3> QED BY <3>1, <3>3
  <2> DEFINE last == LastOption(how, body[k], Skip(body, k), next)
  <2>5. rest[m] = body[k] /\ Skip(rest, m) = Skip(body, k)
    <3>1. m \in 1..N - 1 /\ 1 + m = k /\ m \in Nat
      BY <1>1, <2>2, <2>4
    <3>2. rest[m] = body[k]
      BY <1>2, <3>1
    <3>3. 1 + m <= Len(body)
      BY <1>1, <3>1 DEF N
    <3>4. Skip(Skip(body, 1), m) = Skip(body, 1 + m)
      BY <3>1, <3>3, SkipSkip
    <3> QED BY <3>1, <3>2, <3>4 DEF rest
  <2>6. d = [got |-> Append(Flags(rest, m - 1), last.got), takes |-> last.takes]
    <3>1. Wants(rest) # {}
      BY <2>3
    <3> QED BY <2>5, <3>1, ClusterIs DEF m
  <2>7. Cluster(how, body, next) =
            [got |-> Append(Flags(body, k - 1), last.got), takes |-> last.takes]
    BY <1>7, ClusterIs DEF k
  <2>8. x \o Flags(rest, m - 1) = Flags(body, k - 1)
    <3>1. k - 1 \in 1..N /\ (k - 1) - 1 = m - 1
      BY <1>1, <2>2, <2>4
    <3>2. x \o Flags(rest, (k - 1) - 1) = Flags(body, k - 1)
      BY <3>1, FlagsFirst DEF N, rest
    <3> QED BY <3>1, <3>2
  <2>9. last.got \in Returned
    <3>1. body[k] \in Chars /\ k \in Nat
      BY <2>2 DEF Elements, N
    <3>2. Skip(body, k) \in Elements
      BY <3>1, SkipTyped
    <3> QED BY <3>1, <3>2, LastOptionTyped
  <2>10. Flags(rest, m - 1) \in Seq(Returned)
    <3>1. m - 1 \in Nat /\ m - 1 <= Len(rest)
      BY <1>1, <1>2, <2>2, <2>4
    <3> QED BY <1>2, <3>1, FlagsTyped DEF Flags
  <2> DEFINE y == Flags(rest, m - 1)
             z == Flags(body, k - 1)
  <2>11. d.got = Append(y, last.got) /\ d.takes = last.takes
    BY <2>6
  <2>a. y \in Seq(Returned)
    BY <2>10
  <2>b. PICK c \in Returned : c = last.got
    BY <2>9
  <2> HIDE DEF last, d, x, y, z
  <2>c. Append(x \o y, c) = x \o Append(y, c)
    BY <1>5, <2>a, AppendAfter
  <2>12. Append(x \o y, last.got) = x \o Append(y, last.got)
    BY <2>b, <2>c, Zenon
  <2>13. x \o y = z
    BY <2>8 DEF y, z
  <2>14. Append(z, last.got) = x \o d.got
    BY <2>11, <2>12, <2>13, Zenon
  <2>15. Cluster(how, body, next) = [got |-> x \o d.got, takes |-> d.takes]
    BY <2>7, <2>11, <2>14, Zenon DEF z
  <2> QED BY <2>15 DEF d, x, rest
<1> QED BY <1>6, <1>7

\* The only character of a text: a flag, or unknown.
LEMMA ClusterOnlyFlag ==
    ASSUME NEW how, NEW body \in Elements, body # <<>>, 1 \notin Wants(body),
           Skip(body, 1) = <<>>, NEW next \in Seq(Elements)
    PROVE  Cluster(how, body, next) = [got |-> <<Flag(body[1])>>, takes |-> 1]
<1> DEFINE d == Cluster(how, Skip(body, 1), next)
           x == <<Flag(body[1])>>
<1>1. d.got = <<>> /\ d.takes = 1
  BY ClusterOfNone
<1>2. Cluster(how, body, next) = [got |-> x \o d.got, takes |-> d.takes]
  BY ClusterFirstFlag
<1>3. x \in Seq(Returned)
  <2>1. body[1] \in Chars
    BY DEF Elements
  <2> QED BY <2>1, FlagTyped
<1> HIDE DEF d, x
<1>4. x \o <<>> = x
  BY <1>3, JoinEmpty
<1>5. Cluster(how, body, next) = [got |-> x, takes |-> 1]
  BY <1>1, <1>2, <1>4, Zenon
<1> QED BY <1>5 DEF x

-----------------------------------------------------------------------------
\* handle_short_opt does what the scan says of a text.

\* A step of the scanner that does what o says, and one that leaves what d says.
Came(t) == <<t.opt, t.arg>>
Takes(s, t, o) ==
    /\ o.got = <<Came(t)>>
    /\ t.text = <<>> /\ t.index = s.index + o.takes
LeavesText(s, t, o, d) ==
    /\ o.got = <<Came(t)>> \o d.got /\ o.takes = d.takes
    /\ t.text # <<>> /\ t.index = s.index
Same(s, t) == Passed(s, t) /\ How(t) = How(s)

\* What the scan says of a text at an index, and how a step carries it out.
CarriesOut(argv, s, t) ==
    LET next == Following(argv, s.index)
        o == Cluster(How(s), s.text, next)
        d == Cluster(How(s), t.text, next)
    IN  /\ Same(s, t)
        /\ \/ Takes(s, t, o)
           \/ t.text = Skip(s.text, 1) /\ LeavesText(s, t, o, d)

\* A short option takes its element and argument, or leaves the rest of the text.
LEMMA HandleShortOptScans ==
    ASSUME NEW argv \in Seq(Elements), NEW s, Decoding(s), s.argc = Len(argv),
           s.arg = <<>>, s.text \in Elements, s.text # <<>>,
           \A k \in s.index + 1..Len(argv) : s.argv[k] = argv[k],
           NEW t, t = HandleShortOpt(s), ~Strays(t)
    PROVE  CarriesOut(argv, s, t)
<1> DEFINE char == s.text[1]
           rest == Skip(s.text, 1)
           i == s.index
           p == [s EXCEPT !.text = rest, !.index = IF rest = <<>> THEN i + 1 ELSE i]
           u == [p EXCEPT !.text = <<>>]
           next == Following(argv, i)
           how == How(s)
           o == Cluster(how, s.text, next)
           last == LastOption(how, char, rest, next)
<1> DEFINE after == Cluster(how, t.text, next)
<1>e. Same(s, t) /\ (Takes(s, t, o) \/ (t.text = rest /\ LeavesText(s, t, o, after)))
         => CarriesOut(argv, s, t)
  BY DEF CarriesOut
<1>1. /\ Fields(s) /\ i \in Nat /\ s.argc \in Nat /\ i < s.argc
  BY DEF Decoding, Looking, Indices
<1>2. next \in Seq(Elements)
  BY <1>1, FollowingTyped
<1>3. 1 \in Wants(s.text) <=> char \in DOMAIN ShortOpts /\ ShortOpts[char] # "no"
  BY DEF Wants, Elements
<1>a. p = [s EXCEPT !.text = rest, !.index = IF rest = <<>> THEN i + 1 ELSE i]
  OBVIOUS
<1>b. u = [p EXCEPT !.text = <<>>]
  OBVIOUS
<1>c. Missing(s) = Missing(how)
  BY DEF Missing, How
<1> HIDE DEF p, u, i
<1>4. /\ Same(s, p) /\ p.text = rest /\ p.arg = <<>>
      /\ p.index = IF rest = <<>> THEN i + 1 ELSE i
  BY <1>1, <1>a DEF Same, Passed, Fields, How
<1>5. /\ Same(s, u) /\ u.text = <<>> /\ u.arg = <<>>
      /\ u.index = IF rest = <<>> THEN i + 1 ELSE i
  BY <1>4, <1>b DEF Same, Passed, Fields, How
<1>d. i = s.index
  BY DEF i
<1> HIDE DEF char, rest, next, how
<1>6. CASE char \notin DOMAIN ShortOpts
  <2>1. t = [p EXCEPT !.opt = "?", !.unrecognized = char, !.index = i + 1]
    BY <1>6 DEF HandleShortOpt, char, rest, p, i
  <2>2. /\ Same(s, t) /\ t.opt = "?" /\ t.index = i + 1 /\ t.arg = <<>>
        /\ t.text = rest
    BY <1>4, <2>1 DEF Same, Passed, Fields, How
  <2>3. rest = <<>>
    BY <2>2 DEF Strays
  <2>4. o = [got |-> <<Flag(char)>>, takes |-> 1]
    BY <1>2, <1>3, <1>6, <2>3, ClusterOnlyFlag DEF rest, char
  <2>5. Flag(char) = <<"?", <<>>>>
    BY <1>6 DEF Flag, None
  <2> HIDE DEF o
  <2>6. Takes(s, t, o)
    BY <1>d, <2>2, <2>3, <2>4, <2>5 DEF Takes, Came
  <2> QED BY <1>e, <2>2, <2>6 DEF o
<1>7. CASE char \in DOMAIN ShortOpts /\ ShortOpts[char] = "no"
  <2>1. t = [p EXCEPT !.opt = char]
    BY <1>7 DEF HandleShortOpt, char, rest, p, i
  <2>2. /\ Same(s, t) /\ t.opt = char /\ t.arg = <<>> /\ t.text = rest
        /\ t.index = IF rest = <<>> THEN i + 1 ELSE i
    BY <1>4, <2>1 DEF Same, Passed, Fields, How
  <2>3. Flag(char) = <<char, <<>>>>
    BY <1>7 DEF Flag, None
  <2>4. CASE rest = <<>>
    <3>1. o = [got |-> <<Flag(char)>>, takes |-> 1]
      BY <1>2, <1>3, <1>7, <2>4, ClusterOnlyFlag DEF rest, char
    <3> HIDE DEF o
    <3>2. Takes(s, t, o)
      BY <1>d, <2>2, <2>3, <2>4, <3>1 DEF Takes, Came
    <3> QED BY <1>e, <2>2, <3>2 DEF o
  <2>5. CASE rest # <<>>
    <3> DEFINE d == Cluster(how, rest, next)
    <3>1. o = [got |-> <<Flag(char)>> \o d.got, takes |-> d.takes]
      BY <1>2, <1>3, <1>7, ClusterFirstFlag DEF rest, char
    <3> HIDE DEF o, d
    <3>2. LeavesText(s, t, o, d)
      BY <1>d, <2>2, <2>3, <2>5, <3>1, Zenon DEF LeavesText, Came
    <3>3. d = Cluster(how, t.text, next)
      BY <2>2 DEF d
    <3> QED BY <1>e, <2>2, <3>2, <3>3 DEF o
  <2> QED BY <2>4, <2>5
<1>8. ASSUME char \in DOMAIN ShortOpts, ShortOpts[char] # "no"
      PROVE  o = [got |-> <<last.got>>, takes |-> last.takes]
  <2>1. 1 \in Wants(s.text)
    BY <1>3, <1>8
  <2> QED BY <2>1, ClusterFirstWants DEF char, rest
<1>9. ASSUME char \in DOMAIN ShortOpts, ShortOpts[char] # "no", Same(s, t),
             last.got = Came(t), t.text = <<>>, t.index = i + last.takes
      PROVE  Same(s, t) /\ Takes(s, t, o)
  <2>1. o = [got |-> <<last.got>>, takes |-> last.takes]
    BY <1>8, <1>9
  <2>2. o.got = <<last.got>> /\ o.takes = last.takes
    BY <2>1
  <2> HIDE DEF o, last
  <2> QED BY <1>d, <1>9, <2>2 DEF Takes
<1>11. CASE char \in DOMAIN ShortOpts /\ ShortOpts[char] # "no" /\ rest # <<>>
  <2>1. t = [u EXCEPT !.arg = <<rest>>, !.index = @ + 1, !.opt = char]
    BY <1>11 DEF HandleShortOpt, char, rest, p, u, i
  <2>2. /\ Same(s, t) /\ t.opt = char /\ t.index = i + 1 /\ t.text = <<>>
        /\ t.arg = <<rest>>
    BY <1>5, <1>11, <2>1 DEF Same, Passed, Fields, How
  <2>3. last.got = <<char, <<rest>>>> /\ last.takes = 1
    BY <1>11 DEF LastOption, WithArgument
  <2> HIDE DEF last, o
  <2>4. Same(s, t) /\ Takes(s, t, o)
    BY <1>9, <1>11, <2>2, <2>3 DEF Came
  <2> QED BY <1>e, <2>4 DEF o
<1>12. CASE char \in DOMAIN ShortOpts /\ ShortOpts[char] = "optional" /\ rest = <<>>
  <2>1. t = [u EXCEPT !.opt = char]
    BY <1>12 DEF HandleShortOpt, char, rest, p, u, i
  <2>2. /\ Same(s, t) /\ t.opt = char /\ t.index = i + 1 /\ t.text = <<>>
        /\ t.arg = <<>>
    BY <1>5, <1>12, <2>1 DEF Same, Passed, Fields, How
  <2>3. last.got = <<char, <<>>>> /\ last.takes = 1
    BY <1>12 DEF LastOption, None
  <2> HIDE DEF last, o
  <2>4. Same(s, t) /\ Takes(s, t, o)
    BY <1>9, <1>12, <2>2, <2>3 DEF Came
  <2> QED BY <1>e, <2>4 DEF o
<1>13. CASE /\ char \in DOMAIN ShortOpts /\ ShortOpts[char] # "no"
            /\ ShortOpts[char] # "optional" /\ rest = <<>>
  <2>1. t = IF u.index = u.argc
            THEN [u EXCEPT !.opt = Missing(s), !.unrecognized = char]
            ELSE TakeNext(u, char)
    BY <1>13 DEF HandleShortOpt, char, rest, p, u, i
  <2>2. u.argc = s.argc /\ u.index = i + 1
    BY <1>5, <1>13 DEF Same, Passed
  <2>3. last = WithArgument(how, char, rest, next)
    BY <1>13 DEF LastOption
  <2>4. CASE u.index = u.argc
    <3>1. t = [u EXCEPT !.opt = Missing(s), !.unrecognized = char]
      BY <2>1, <2>4
    <3>2. /\ Same(s, t) /\ t.opt = Missing(s) /\ t.index = i + 1 /\ t.text = <<>>
          /\ t.arg = <<>>
      BY <1>5, <2>2, <3>1 DEF Same, Passed, Fields, How
    <3>3. next = None
      BY <1>1, <1>d, <2>2, <2>4 DEF next, Following
    <3>4. last.got = <<Missing(how), <<>>>> /\ last.takes = 1
      BY <1>13, <2>3, <3>3 DEF WithArgument, None
    <3> HIDE DEF last, o
    <3>5. Same(s, t) /\ Takes(s, t, o)
      BY <1>9, <1>13, <1>c, <3>2, <3>4 DEF Came
    <3> QED BY <1>e, <3>5 DEF o
  <2>5. CASE u.index # u.argc
    <3>1. t = [u EXCEPT !.opt = char, !.arg = <<Element(u, u.index)>>,
                        !.index = @ + 1]
      BY <1>1, <1>d, <2>1, <2>2, <2>5 DEF TakeNext
    <3>2. /\ Same(s, t) /\ t.opt = char /\ t.index = u.index + 1 /\ t.text = <<>>
          /\ t.arg = <<Element(u, u.index)>>
      BY <1>5, <3>1 DEF Same, Passed, Fields, How
    <3>3. i + 1 < Len(argv)
      BY <1>1, <1>d, <2>2, <2>5
    <3>4. Element(u, u.index) = argv[i + 2]
      <4>1. u.argv = s.argv
        BY <1>5 DEF Same, Passed
      <4>2. i + 2 \in s.index + 1..Len(argv) /\ u.index + 1 = i + 2
        BY <1>1, <1>d, <2>2, <3>3
      <4> QED BY <4>1, <4>2 DEF Element
    <3>5. next = <<argv[i + 2]>> /\ next # None
      BY <3>3, <1>d DEF next, Following, None
    <3>6. last.got = <<char, next>> /\ last.takes = 2
      BY <1>13, <2>3, <3>5 DEF WithArgument
    <3>7. t.arg = next /\ t.index = i + 2
      BY <1>1, <1>d, <2>2, <3>2, <3>4, <3>5
    <3> HIDE DEF last, o
    <3>8. Same(s, t) /\ Takes(s, t, o)
      BY <1>9, <1>13, <3>2, <3>6, <3>7 DEF Came
    <3> QED BY <1>e, <3>8 DEF o
  <2> QED BY <2>4, <2>5
<1> QED BY <1>6, <1>7, <1>11, <1>12, <1>13

-----------------------------------------------------------------------------
\* update_long_opt does what the scan says of a long option.

\* The name of a long option, and what is after it.
Cut(body) == {k \in DOMAIN body : body[k] = "="}
Word(body) == IF Cut(body) = {} THEN body ELSE SubSeq(body, 1, First(Cut(body)) - 1)

\* The name of a long option ends at the first =, or with the text.
LEMMA NameEndCuts ==
    ASSUME NEW body \in Elements
    PROVE  LET end == NameEnd(body)
           IN  /\ end \in 0..Len(body) /\ Word(body) = SubSeq(body, 1, end)
               /\ Cut(body) = {} => end = Len(body)
               /\ Cut(body) # {} => end < Len(body) /\ First(Cut(body)) = end + 1
<1> DEFINE cut == Cut(body)
           end == NameEnd(body)
           Ends(n) == /\ n < Len(body) => body[n + 1] = "="
                      /\ \A k \in 1..n : body[k] # "="
<1>1. Len(body) \in Nat /\ DOMAIN body = 1..Len(body) /\ body \in Seq(Chars)
  BY DEF Elements
<1>2. cut \subseteq 1..Len(body) /\ cut \subseteq Nat
  BY <1>1 DEF Cut
<1>3. end = CHOOSE n \in 0..Len(body) : Ends(n)
  BY DEF NameEnd
<1> HIDE DEF cut, end
<1>4. CASE cut = {}
  <2>1. \A k \in 1..Len(body) : body[k] # "="
    BY <1>1, <1>4 DEF cut, Cut
  <2>2. Len(body) \in 0..Len(body) /\ Ends(Len(body))
    BY <1>1, <2>1
  <2>3. end \in 0..Len(body) /\ Ends(end)
    BY <1>3, <2>2
  <2>4. end = Len(body)
    <3>1. end < Len(body) => end + 1 \in 1..Len(body)
      BY <1>1, <2>3
    <3>2. end < Len(body) => body[end + 1] = "="
      BY <2>3
    <3>3. ~(end < Len(body))
      BY <2>1, <3>1, <3>2
    <3>4. end \in 0..Len(body) /\ Len(body) \in Nat
      BY <1>1, <2>3
    <3> QED BY <3>3, <3>4
  <2>5. Word(body) = body
    BY <1>4 DEF Word, cut
  <2>6. SubSeq(body, 1, Len(body)) = body
    BY <1>1
  <2>7. Word(body) = SubSeq(body, 1, end)
    BY <2>4, <2>5, <2>6, Zenon
  <2>8. /\ end \in 0..Len(body) /\ Word(body) = SubSeq(body, 1, end)
        /\ cut = {} => end = Len(body)
        /\ cut # {} => end < Len(body) /\ First(cut) = end + 1
    BY <1>4, <2>3, <2>4, <2>7, Zenon
  <2> QED BY <2>8 DEF cut, end
<1>5. CASE cut # {}
  <2> DEFINE k == First(cut)
  <2>1. k \in cut /\ \A j \in cut : k <= j
    BY <1>2, <1>5, FirstOf
  <2> HIDE DEF k
  <2>2. k \in 1..Len(body) /\ body[k] = "=" /\ \A j \in 1..k - 1 : body[j] # "="
    <3>1. k \in 1..Len(body) /\ body[k] = "="
      BY <1>1, <2>1 DEF cut, Cut
    <3>2. ASSUME NEW j \in 1..k - 1 PROVE body[j] # "="
      <4>1. j \in 1..Len(body) /\ ~(k <= j)
        BY <1>1, <3>1
      <4> QED BY <1>1, <2>1, <4>1 DEF cut, Cut
    <3> QED BY <3>1, <3>2
  <2>3. k - 1 \in 0..Len(body) /\ Ends(k - 1)
    BY <1>1, <2>2
  <2>4. end \in 0..Len(body) /\ Ends(end)
    BY <1>3, <2>3
  <2>5. end = k - 1
    <3>1. ~(end < k - 1)
      <4> SUFFICES ASSUME end < k - 1 PROVE FALSE
        OBVIOUS
      <4>1. end + 1 \in 1..k - 1 /\ end < Len(body)
        BY <1>1, <2>2, <2>4
      <4> QED BY <2>2, <2>4, <4>1
    <3>2. ~(end > k - 1)
      <4> SUFFICES ASSUME end > k - 1 PROVE FALSE
        OBVIOUS
      <4>1. k \in 1..end
        BY <1>1, <2>2, <2>4
      <4> QED BY <2>2, <2>4, <4>1
    <3> QED BY <1>1, <2>2, <2>4, <3>1, <3>2
  <2>6. end < Len(body) /\ k = end + 1
    BY <1>1, <2>2, <2>5
  <2>7. Word(body) = SubSeq(body, 1, k - 1)
    BY <1>5 DEF Word, cut, k
  <2>8. Word(body) = SubSeq(body, 1, end)
    BY <2>5, <2>7, Zenon
  <2> QED BY <1>5, <2>4, <2>6, <2>8, Zenon DEF cut, end, k
<1> QED BY <1>4, <1>5

\* Which long options a word may stand for.
One(word) ==
    LET full == {i \in DOMAIN LongTable : LongTable[i].name = word}
        some == {i \in DOMAIN LongTable : IsPrefix(word, LongTable[i].name)}
    IN  IF full # {} THEN {First(full)} ELSE some

LEMMA LongOptionIs ==
    ASSUME NEW how, NEW body, NEW next
    PROVE  LET one == One(Word(body))
               o == LongTable[First(one)]
               Only(what) == [got |-> what, takes |-> 1]
           IN  LongOption(how, body, next) =
                 IF \A i \in one : one # {i} THEN Only(<<"?", None>>)
                 ELSE IF Cut(body) # {}
                 THEN Only(IF o.takes = "no" THEN <<"?", None>>
                           ELSE <<o.val, <<Skip(body, First(Cut(body)))>>>>)
                 ELSE IF o.takes = "required" THEN WithArgument(how, o.val, <<>>, next)
                 ELSE Only(<<o.val, None>>)
BY DEF LongOption, One, Word, Cut

\* find_matching_long_opt finds the options the scan does.
LEMMA FindMatchIsOne ==
    ASSUME NEW s, s.longs = LongTable, NEW word \in Elements
    PROVE  FindMatch(s, word) = One(word)
<1>1. word \in Seq(Chars) /\ \A i \in DOMAIN LongTable : LongTable[i].name \in Seq(Chars)
  BY LongRows DEF Elements
<1>2. \A i \in DOMAIN LongTable :
         Abbreviates(word, LongTable[i].name) <=> IsPrefix(word, LongTable[i].name)
  <2>1. SubSeq(word, 1, Len(word)) = word
    BY <1>1
  <2> QED BY <2>1, Zenon DEF Abbreviates, IsPrefix
<1>3. Matching(s, word) = {i \in DOMAIN LongTable : IsPrefix(word, LongTable[i].name)}
  BY <1>2 DEF Matching
<1>4. Exact(s, word) = {i \in DOMAIN LongTable : LongTable[i].name = word}
  BY DEF Exact
<1> QED BY <1>3, <1>4, Zenon DEF FindMatch, One

LEMMA RejectTakes ==
    ASSUME NEW s, Decoding(s), s.arg = <<>>, NEW t, t = Reject(s)
    PROVE  Same(s, t) /\ Came(t) = <<"?", None>> /\ t.text = <<>> /\ t.index = s.index + 1
<1>1. Fields(s)
  BY DEF Decoding, Looking, Indices
<1>2. t = [s EXCEPT !.text = <<>>, !.index = s.index + 1, !.opt = "?"]
  BY DEF Reject
<1> QED BY <1>1, <1>2 DEF Same, Passed, Fields, How, Came, None

\* A long option that is found, by its name, does what LongOption says.
LEMMA UpdateLongOptTakes ==
    ASSUME NEW argv \in Seq(Elements), NEW s, Decoding(s), s.argc = Len(argv),
           s.arg = <<>>, s.text \in Elements,
           \A k \in s.index + 1..Len(argv) : s.argv[k] = argv[k],
           NEW i \in DOMAIN LongTable, One(Word(s.text)) = {i},
           NEW t, t = UpdateLongOpt(s, LongTable[i], NameEnd(s.text))
    PROVE  LET o == LongOption(How(s), s.text, Following(argv, s.index))
           IN  /\ Same(s, t) /\ o.got = Came(t)
               /\ t.text = <<>> /\ t.index = s.index + o.takes
<1> DEFINE found == LongTable[i]
           body == s.text
           end == NameEnd(body)
           next == Following(argv, s.index)
           how == How(s)
           this == LongOption(how, body, next)
           Only(what) == [got |-> what, takes |-> 1]
           p == [s EXCEPT !.index = @ + 1, !.text = <<>>]
<1>1. /\ Fields(s) /\ s.index \in Nat /\ s.argc \in Nat /\ s.index < s.argc
  BY DEF Decoding, Looking, Indices
<1>2. First({i}) = i
  BY LongRows, FirstOfOne
<1>3. this = IF Cut(body) # {}
             THEN Only(IF found.takes = "no" THEN <<"?", None>>
                       ELSE <<found.val, <<Skip(body, First(Cut(body)))>>>>)
             ELSE IF found.takes = "required" THEN WithArgument(how, found.val, <<>>, next)
             ELSE Only(<<found.val, None>>)
  <2> HIDE DEF this
  <2>1. ~\A j \in One(Word(body)) : One(Word(body)) # {j}
    OBVIOUS
  <2> QED BY <1>2, <2>1, LongOptionIs, Zenon DEF this
<1>4. /\ end \in 0..Len(body) /\ (Cut(body) = {} => end = Len(body))
      /\ Cut(body) # {} => end < Len(body) /\ First(Cut(body)) = end + 1
  BY NameEndCuts
<1>a. p = [s EXCEPT !.index = s.index + 1, !.text = <<>>]
  OBVIOUS
<1>b. Len(body) \in Nat
  BY DEF Elements
<1>c. Missing(s) = Missing(how)
  BY DEF Missing, How
<1> HIDE DEF p, how
<1>5. Same(s, p) /\ p.index = s.index + 1 /\ p.text = <<>> /\ p.arg = <<>>
  BY <1>1, <1>a DEF Same, Passed, Fields, How
<1> SUFFICES /\ Same(s, t) /\ this.got = Came(t)
             /\ t.text = <<>> /\ t.index = s.index + this.takes
  BY DEF how
<1>6. CASE Cut(body) # {} /\ found.takes = "no"
  <2>1. t = Reject(s)
    BY <1>4, <1>6 DEF UpdateLongOpt
  <2>2. this.got = <<"?", None>> /\ this.takes = 1
    BY <1>3, <1>6
  <2> HIDE DEF this
  <2> QED BY <2>1, <2>2, RejectTakes
<1>7. CASE Cut(body) # {} /\ found.takes # "no"
  <2>1. t = [p EXCEPT !.arg = <<Skip(body, end + 1)>>, !.opt = found.val]
    BY <1>4, <1>7 DEF UpdateLongOpt, p
  <2>2. /\ Same(s, t) /\ t.arg = <<Skip(body, end + 1)>> /\ t.opt = found.val
        /\ t.index = s.index + 1 /\ t.text = <<>>
    BY <1>5, <2>1 DEF Same, Passed, Fields, How
  <2>3. this.got = <<found.val, <<Skip(body, First(Cut(body)))>>>> /\ this.takes = 1
    BY <1>3, <1>7
  <2> HIDE DEF this
  <2> QED BY <1>4, <1>7, <2>2, <2>3 DEF Came
<1>8. CASE Cut(body) = {} /\ found.takes = "required"
  <2>1. t = IF p.index < p.argc THEN TakeNext(p, found.val)
            ELSE [p EXCEPT !.opt = Missing(s)]
    BY <1>4, <1>8, <1>b DEF UpdateLongOpt, p
  <2>2. p.argc = s.argc
    BY <1>5 DEF Same, Passed
  <2>3. this = WithArgument(how, found.val, <<>>, next)
    BY <1>3, <1>8
  <2>4. CASE ~(p.index < p.argc)
    <3>1. t = [p EXCEPT !.opt = Missing(s)]
      BY <2>1, <2>4
    <3>2. /\ Same(s, t) /\ t.arg = <<>> /\ t.opt = Missing(s)
          /\ t.index = s.index + 1 /\ t.text = <<>>
      BY <1>5, <3>1 DEF Same, Passed, Fields, How
    <3>3. next = None
      BY <1>1, <1>5, <2>2, <2>4 DEF Following
    <3>4. this.got = <<Missing(how), None>> /\ this.takes = 1
      BY <2>3, <3>3 DEF WithArgument
    <3> HIDE DEF this
    <3> QED BY <1>c, <3>2, <3>4 DEF Came, None
  <2>5. CASE p.index < p.argc
    <3>1. t = [p EXCEPT !.opt = found.val, !.arg = <<Element(p, p.index)>>,
                        !.index = @ + 1]
      BY <1>1, <1>5, <2>1, <2>2, <2>5 DEF TakeNext
    <3>a. /\ Same(s, t) /\ t.arg = <<Element(p, p.index)>> /\ t.opt = found.val
          /\ t.index = p.index + 1 /\ t.text = <<>>
      BY <1>5, <3>1 DEF Same, Passed, Fields, How
    <3>b. p.index + 1 = s.index + 2
      BY <1>1, <1>5
    <3>2. /\ Same(s, t) /\ t.arg = <<Element(p, p.index)>> /\ t.opt = found.val
          /\ t.index = s.index + 2 /\ t.text = <<>>
      BY <3>a, <3>b
    <3>3. Element(p, p.index) = argv[s.index + 2] /\ s.index + 1 < Len(argv)
      <4>1. p.argv = s.argv
        BY <1>5 DEF Same, Passed
      <4>2. /\ s.index + 2 \in s.index + 1..Len(argv) /\ p.index + 1 = s.index + 2
            /\ s.index + 1 < Len(argv)
        BY <1>1, <1>5, <2>2, <2>5
      <4> QED BY <4>1, <4>2 DEF Element
    <3>4. next = <<argv[s.index + 2]>> /\ next # None
      BY <3>3 DEF Following, None
    <3>5. this.got = <<found.val, next>> /\ this.takes = 2
      BY <2>3, <3>4 DEF WithArgument
    <3> HIDE DEF this
    <3> QED BY <3>2, <3>3, <3>4, <3>5 DEF Came
  <2> QED BY <2>4, <2>5
<1>9. CASE Cut(body) = {} /\ found.takes # "required"
  <2>1. t = [p EXCEPT !.opt = found.val]
    BY <1>4, <1>9, <1>b DEF UpdateLongOpt, p
  <2>2. /\ Same(s, t) /\ t.arg = <<>> /\ t.opt = found.val
        /\ t.index = s.index + 1 /\ t.text = <<>>
    BY <1>5, <2>1 DEF Same, Passed, Fields, How
  <2>3. this.got = <<found.val, None>> /\ this.takes = 1
    BY <1>3, <1>9
  <2> HIDE DEF this
  <2> QED BY <2>2, <2>3 DEF Came, None
<1> QED BY <1>6, <1>7, <1>8, <1>9

-----------------------------------------------------------------------------
\* handle_long_opt does what the scan says of an element.

\* The element at an index, decoded from its beginning.
Begins(s) ==
    LET e == Element(s, s.index)
    IN  /\ ~NonOption(e) /\ e # DashDash
        /\ s.text = Skip(e, IF s.longs # <<>> /\ At(e, 1) = "-" THEN 2 ELSE 1)

\* A scanner at the text of an option of argv, which is as given from there on.
AtText(argv, s) ==
    /\ Decoding(s) /\ s.argc = Len(argv) /\ s.arg = <<>>
    /\ s.text \in Elements /\ s.text # <<>>
    /\ \A k \in s.index + 1..Len(argv) : s.argv[k] = argv[k]

\* An option has a character after its dash.
LEMMA BeginsElement ==
    ASSUME NEW argv \in Seq(Elements), NEW s, AtText(argv, s), Begins(s)
    PROVE  LET e == argv[s.index + 1]
           IN  /\ Element(s, s.index) = e /\ e \in Elements /\ Len(e) \in Nat /\ Len(e) >= 2
               /\ At(e, 0) = "-" /\ e[1] = "-" /\ At(e, 1) = e[2]
               /\ ~NonOption(e) /\ e # DashDash
<1> DEFINE e == argv[s.index + 1]
<1>1. s.index \in Nat /\ s.index < Len(argv) /\ Len(argv) \in Nat
  BY DEF AtText, Decoding, Looking, Indices
<1>2. s.index + 1 \in s.index + 1..Len(argv) /\ s.index + 1 \in 1..Len(argv)
  BY <1>1
<1>3. Element(s, s.index) = e
  BY <1>2 DEF AtText, Element
<1>4. e \in Elements /\ Len(e) \in Nat
  BY <1>2 DEF Elements
<1>5. ~NonOption(e) /\ e # DashDash
  BY <1>3 DEF Begins
<1> HIDE DEF e
<1>6. At(e, 0) = "-" /\ Len(e) # 1
  BY <1>5 DEF NonOption
<1>7. Len(e) # 0
  BY <1>6 DEF At
<1>a. Len(e) \in Nat
  BY <1>4
<1>8. Len(e) >= 2
  <2>1. PICK n \in Nat : n = Len(e)
    BY <1>a
  <2>2. n # 0 /\ n # 1
    BY <1>6, <1>7, <2>1
  <2>3. n >= 2
    BY <2>2
  <2> QED BY <2>1, <2>3
<1>9. At(e, 0) = e[1] /\ At(e, 1) = e[2]
  BY <1>4, <1>8 DEF At
<1> QED BY <1>3, <1>4, <1>5, <1>6, <1>8, <1>9, Zenon DEF e

\* An element tried as a long option is what the scan says it is.
LEMMA HandleLongOptScans ==
    ASSUME NEW argv \in Seq(Elements), NEW s, AtText(argv, s), Begins(s), TryLong("rust", s),
           NEW t, t = HandleLongOpt("rust", s)
    PROVE  LET e == argv[s.index + 1]
           IN  Same(s, t) /\ Takes(s, t, Option(How(s), e, Following(argv, s.index)))
<1> DEFINE e == argv[s.index + 1]
           next == Following(argv, s.index)
           end == NameEnd(s.text)
           word == SubSeq(s.text, 1, end)
           match == FindMatch(s, word)
           o == LongOption(How(s), s.text, next)
<1>1. /\ Element(s, s.index) = e /\ Len(e) \in Nat /\ Len(e) >= 2
      /\ At(e, 0) = "-" /\ At(e, 1) = e[2]
  BY BeginsElement
<1>2. Decoding(s) /\ s.arg = <<>> /\ s.text \in Elements /\ s.text # <<>> /\ s.argc = Len(argv)
  BY DEF AtText
<1>3. s.longs = LongTable /\ s.longs # <<>>
  BY <1>2 DEF TryLong, Decoding, Looking, Indices
<1> HIDE DEF e
<1>4. e[2] = "-" \/ e[2] \notin Listed
  BY <1>1 DEF TryLong, Short
<1>5. s.text = Skip(e, IF e[2] = "-" THEN 2 ELSE 1)
  BY <1>1, <1>3 DEF Begins
<1>6. IsLong(How(s), e)
  BY <1>3, <1>4 DEF IsLong, How
<1>7. Option(How(s), e, next) = [got |-> <<o.got>>, takes |-> o.takes]
  BY <1>5, <1>6, Zenon DEF Option
<1>8. word = Word(s.text) /\ word \in Elements
  <2>1. end \in 0..Len(s.text) /\ Word(s.text) = word
    BY <1>2, NameEndCuts
  <2> HIDE DEF end
  <2>2. word \in Elements
    BY <1>2, <2>1 DEF Elements
  <2> QED BY <2>1, <2>2
<1>9. match = One(Word(s.text))
  <2>1. match = One(word)
    BY <1>3, <1>8, FindMatchIsOne
  <2> QED BY <1>8, <2>1, Zenon
<1>10. ~(At(e, 1) # "-" /\ Short("rust", s.text[1]))
  <2>1. CASE e[2] = "-"
    BY <1>1, <2>1
  <2>2. CASE e[2] # "-"
    <3>1. s.text = Skip(e, 1)
      BY <1>5, <2>2
    <3>2. s.text[1] = e[2]
      <4>1. e \in Elements
        BY BeginsElement DEF e
      <4>2. 1 \in 1..Len(e) - 1 /\ 1 \in Nat /\ 1 <= Len(e)
        BY <1>1
      <4>3. \A k \in 1..Len(e) - 1 : Skip(e, 1)[k] = e[1 + k]
        BY <4>1, <4>2, SkipTyped
      <4>4. Skip(e, 1)[1] = e[1 + 1]
        BY <4>2, <4>3
      <4> QED BY <3>1, <4>4
    <3> QED BY <1>4, <2>2, <3>2 DEF Short
  <2> QED BY <2>1, <2>2
<1>11. t = IF \E i \in match : match = {i}
           THEN UpdateLongOpt(s, s.longs[CHOOSE i \in match : TRUE], end)
           ELSE Reject(s)
  BY <1>1, <1>10 DEF HandleLongOpt
<1> HIDE DEF match, word, end
<1>12. CASE \E i \in match : match = {i}
  <2>1. PICK i \in match : match = {i}
    BY <1>12
  <2>2. i \in DOMAIN LongTable
    <3>1. One(Word(s.text)) \subseteq DOMAIN LongTable
      BY FirstExact DEF One
    <3> QED BY <1>9, <2>1, <3>1
  <2>3. (CHOOSE j \in match : TRUE) = i
    BY <2>1
  <2>4. t = UpdateLongOpt(s, LongTable[i], end)
    BY <1>3, <1>11, <1>12, <2>3
  <2>5. One(Word(s.text)) = {i}
    BY <1>9, <2>1
  <2>6. \A k \in s.index + 1..Len(argv) : s.argv[k] = argv[k]
    BY DEF AtText
  <2>7. Same(s, t) /\ o.got = Came(t) /\ t.text = <<>> /\ t.index = s.index + o.takes
    BY <1>2, <2>2, <2>4, <2>5, <2>6, UpdateLongOptTakes DEF end
  <2> HIDE DEF o, next
  <2> QED BY <1>7, <2>7 DEF Takes, e, next
<1>13. CASE ~\E i \in match : match = {i}
  <2>1. t = Reject(s)
    BY <1>11, <1>13
  <2>2. Same(s, t) /\ Came(t) = <<"?", None>> /\ t.text = <<>> /\ t.index = s.index + 1
    BY <1>2, <2>1, RejectTakes
  <2>3. \A i \in One(Word(s.text)) : One(Word(s.text)) # {i}
    BY <1>9, <1>13
  <2>4. o = [got |-> <<"?", None>>, takes |-> 1]
    <3> HIDE DEF o
    <3> QED BY <2>3, LongOptionIs, Zenon DEF o
  <2>5. o.got = <<"?", None>> /\ o.takes = 1
    BY <2>4
  <2> HIDE DEF o, next
  <2> QED BY <1>7, <2>2, <2>5 DEF Takes, e, next
<1> QED BY <1>12, <1>13

\* What is not tried as one is a cluster.
LEMMA NotTryLong ==
    ASSUME NEW argv \in Seq(Elements), NEW s, AtText(argv, s), Begins(s), ~TryLong("rust", s)
    PROVE  LET e == argv[s.index + 1]
               next == Following(argv, s.index)
           IN  s.text = Skip(e, 1) /\ Option(How(s), e, next) = Cluster(How(s), s.text, next)
<1> DEFINE e == argv[s.index + 1]
           next == Following(argv, s.index)
<1>1. Element(s, s.index) = e /\ At(e, 0) = "-" /\ At(e, 1) = e[2]
  BY BeginsElement
<1>2. s.index < s.argc
  BY DEF AtText, Decoding
<1> HIDE DEF e, next
<1>3. s.longs = <<>> \/ (e[2] # "-" /\ e[2] \in Listed)
  BY <1>1, <1>2 DEF TryLong, Short
<1>4. s.text = Skip(e, 1)
  BY <1>1, <1>3 DEF Begins
<1>5. ~IsLong(How(s), e)
  BY <1>3 DEF IsLong, How
<1>6. Option(How(s), e, next) = Cluster(How(s), s.text, next)
  BY <1>4, <1>5 DEF Option
<1> QED BY <1>4, <1>6 DEF e, next

-----------------------------------------------------------------------------
\* What a step has done and what is to come, together, are what was to come.

\* What a step returned and used, and what is to come after it.
Done(argv, s, t) == Parts(<<Came(t)>>, Between(argv, s.index, t.index), <<>>)
TextOf(argv, scan, s) ==
    Options(argv, scan, s.index, Cluster(How(s), s.text, Following(argv, s.index)))
RestOf(argv, scan, s) == IF s.text = <<>> THEN scan[s.index] ELSE TextOf(argv, scan, s)

\* A step that ends an element leaves the scan of those after it.
LEMMA TakesScans ==
    ASSUME NEW argv, NEW scan, NEW s, NEW t, NEW o, Takes(s, t, o)
    PROVE  Options(argv, scan, s.index, o) = Then(Done(argv, s, t), RestOf(argv, scan, t))
<1>1. o.got = <<Came(t)>> /\ t.text = <<>> /\ t.index = s.index + o.takes
  BY DEF Takes
<1>2. RestOf(argv, scan, t) = scan[t.index]
  BY <1>1 DEF RestOf
<1> QED BY <1>1, <1>2, Zenon DEF Options, Done

\* A step within an element leaves the scan of its text.
LEMMA LeavesTextScans ==
    ASSUME NEW argv \in Seq(Elements), NEW scan, NEW s, NEW t, NEW o,
           s.index \in Nat, s.index < Len(argv), How(t) = How(s), Came(t) \in Returned,
           LET d == Cluster(How(s), t.text, Following(argv, s.index))
           IN  /\ LeavesText(s, t, o, d) /\ Gives(d, Following(argv, s.index))
               /\ scan[s.index + d.takes] \in Scans
    PROVE  Options(argv, scan, s.index, o) = Then(Done(argv, s, t), RestOf(argv, scan, t))
<1> DEFINE i == s.index
           d == Cluster(How(s), t.text, Following(argv, i))
           x == <<Came(t)>>
           j == i + d.takes
           y == Between(argv, i, j)
           p == Parts(x, <<>>, <<>>)
           q == Parts(d.got, y, <<>>)
           z == scan[j]
<1>1. /\ o.got = x \o d.got /\ o.takes = d.takes /\ t.text # <<>> /\ t.index = i
      /\ Gives(d, Following(argv, i)) /\ z \in Scans
  BY DEF LeavesText
<1>2. RestOf(argv, scan, t) = Options(argv, scan, i, d)
  BY <1>1 DEF RestOf, TextOf
<1>3. Options(argv, scan, i, d) = Then(q, z)
  BY DEF Options
<1>4. Options(argv, scan, i, o) = Then(Parts(x \o d.got, y, <<>>), z)
  BY <1>1, Zenon DEF Options
<1>5. Done(argv, s, t) = p
  <2>1. Between(argv, i, i) = <<>>
    BY BetweenNone
  <2> QED BY <1>1, <2>1, Zenon DEF Done
<1>6. d.got \in Seq(Returned) /\ j \in i + 1..Len(argv)
  BY <1>1, OptionEnds
<1>7. x \in Seq(Returned) /\ <<>> \in Seq(Elements)
  OBVIOUS
<1>8. y \in Seq(Elements)
  <2>1. j \in Nat /\ i <= j /\ j <= Len(argv)
    BY <1>6
  <2> HIDE DEF j
  <2> QED BY <2>1, BetweenTyped
<1> DEFINE c == d.got
<1>a. c \in Seq(Returned)
  BY <1>6
<1>b. q = Parts(c, y, <<>>) /\ p = Parts(x, <<>>, <<>>)
  OBVIOUS
<1> HIDE DEF c, x, y, z, p, q, d, j
<1>9. p \in Scans /\ q \in Scans
  BY <1>7, <1>8, <1>a, <1>b, PartsTyped
<1>10. Then(p, q) = Parts(x \o c, y, <<>>)
  <2>1. PICK n : n = <<>>
    OBVIOUS
  <2>2. n \in Seq(Elements)
    BY <1>7, <2>1
  <2>3. n \o n = n /\ n \o y = y
    BY <1>8, <2>1, <2>2, JoinEmpty
  <2>4. Then(Parts(x, n, n), Parts(c, y, n)) = Parts(x \o c, n \o y, n \o n)
    BY <1>7, <1>8, <1>a, <2>2, ThenParts
  <2> QED BY <1>b, <2>1, <2>3, <2>4, Zenon
<1>11. Then(Then(p, q), z) = Then(p, Then(q, z))
  BY <1>1, <1>9, ThenThree
<1> QED BY <1>2, <1>3, <1>4, <1>5, <1>10, <1>11, Zenon DEF c, i

\* What a step returns, from what o says.
LEMMA CameTyped ==
    ASSUME NEW t, NEW o, o.got \in Seq(Returned), NEW d, d.got \in Seq(Returned)
    PROVE  o.got = <<Came(t)>> \/ o.got = <<Came(t)>> \o d.got => Came(t) \in Returned
<1> DEFINE c == Came(t)
           x == o.got
           y == d.got
<1>1. x \in Seq(Returned) /\ y \in Seq(Returned)
  OBVIOUS
<1> SUFFICES ASSUME x = <<c>> \/ x = <<c>> \o y PROVE c \in Returned
  OBVIOUS
<1> HIDE DEF c, x, y
<1>2. CASE x = <<c>>
  BY <1>1, <1>2
<1>3. CASE x = <<c>> \o y
  <2> DEFINE S == Returned \cup {c}
             b == <<c>>
  <2>1. b \in Seq(S) /\ y \in Seq(S) /\ Len(b) = 1 /\ b[1] = c
    BY <1>1
  <2> HIDE DEF b, S
  <2> DEFINE w == b \o y
  <2>2. Len(w) = Len(b) + Len(y) /\ \A k \in 1..Len(b) : w[k] = b[k]
    BY <2>1, JoinedTyped
  <2>3. x = w
    BY <1>3 DEF b
  <2> HIDE DEF w
  <2>4. Len(x) = 1 + Len(y) /\ x[1] = c
    <3>1. 1 \in 1..Len(b)
      BY <2>1
    <3>2. w[1] = c
      BY <2>1, <2>2, <3>1
    <3>3. Len(w) = 1 + Len(y)
      BY <2>1, <2>2
    <3> QED BY <2>3, <3>2, <3>3, Zenon
  <2>5. 1 \in 1..Len(x)
    BY <1>1, <2>4
  <2> QED BY <1>1, <2>4, <2>5
<1> QED BY <1>2, <1>3

\* Rust decodes an option, or the text left of one, as the scan says.
LEMMA ShortScans ==
    ASSUME NEW argv \in Seq(Elements), NEW s, AtText(argv, s),
           NEW scan, \A i \in 1..Len(argv) : scan[i] \in Scans,
           NEW t, t = HandleShortOpt(s), ~Strays(t)
    PROVE  /\ Same(s, t) /\ Came(t) \in Returned /\ t.text \in Elements
           /\ TextOf(argv, scan, s) = Then(Done(argv, s, t), RestOf(argv, scan, t))
           /\ t.text # <<>> => t.index = s.index
           /\ t.index \in s.index..Len(argv)
<1> DEFINE next == Following(argv, s.index)
           o == Cluster(How(s), s.text, next)
           d == Cluster(How(s), t.text, next)
<1>1. /\ s.index \in Nat /\ s.index < Len(argv) /\ s.text \in Elements /\ Len(argv) \in Nat
      /\ s.text # <<>>
  BY DEF AtText, Decoding, Looking, Indices
<1>2. next \in Seq(Elements)
  BY <1>1, FollowingTyped
<1>3. CarriesOut(argv, s, t)
  BY HandleShortOptScans DEF AtText
<1>4. Same(s, t) /\ (Takes(s, t, o) \/ (t.text = Skip(s.text, 1) /\ LeavesText(s, t, o, d)))
  BY <1>3 DEF CarriesOut
<1>5. Gives(o, next)
  BY <1>1, <1>2, ClusterTyped
<1>6. TextOf(argv, scan, s) = Options(argv, scan, s.index, o)
  BY DEF TextOf
<1>7. o.got \in Seq(Returned) /\ s.index + o.takes \in s.index + 1..Len(argv)
  BY <1>1, <1>5, OptionEnds
<1> HIDE DEF o
<1>8. CASE Takes(s, t, o)
  <2>1. o.got = <<Came(t)>> /\ t.text = <<>> /\ t.index = s.index + o.takes
    BY <1>8 DEF Takes
  <2>2. Came(t) \in Returned
    BY <1>7, <2>1, CameTyped
  <2>3. t.text \in Elements
    BY <2>1 DEF Elements
  <2>4. t.index \in s.index..Len(argv)
    BY <1>1, <1>7, <2>1
  <2> QED BY <1>4, <1>6, <1>8, <2>1, <2>2, <2>3, <2>4, TakesScans
<1>9. CASE t.text = Skip(s.text, 1) /\ LeavesText(s, t, o, d)
  <2>1. t.text \in Elements
    BY <1>1, <1>9, SkipTyped
  <2>2. Gives(d, next)
    BY <1>2, <2>1, ClusterTyped
  <2>3. d.got \in Seq(Returned) /\ s.index + d.takes \in s.index + 1..Len(argv)
    BY <1>1, <2>2, OptionEnds
  <2>4. s.index + d.takes \in 1..Len(argv)
    BY <1>1, <2>3
  <2>5. scan[s.index + d.takes] \in Scans
    BY <2>4
  <2>6. o.got = <<Came(t)>> \o d.got /\ t.index = s.index
    BY <1>9 DEF LeavesText
  <2>7. Came(t) \in Returned
    BY <1>7, <2>3, <2>6, CameTyped
  <2>8. How(t) = How(s)
    BY <1>4 DEF Same
  <2>9. TextOf(argv, scan, s) = Then(Done(argv, s, t), RestOf(argv, scan, t))
    BY <1>1, <1>6, <1>9, <2>2, <2>5, <2>7, <2>8, LeavesTextScans
  <2>10. t.index \in s.index..Len(argv)
    BY <1>1, <2>6
  <2> QED BY <1>4, <2>1, <2>6, <2>7, <2>9, <2>10
<1> QED BY <1>4, <1>8, <1>9

-----------------------------------------------------------------------------
\* What an option decoded at its beginning or later leaves to be said.

\* What a decoded option leaves to be said.
Follows(argv, scan, s, t, rest) ==
    /\ Same(s, t) /\ Came(t) \in Returned /\ t.text \in Elements
    /\ rest = Then(Done(argv, s, t), RestOf(argv, scan, t))
    /\ t.index \in s.index..Len(argv)
    /\ t.text # <<>> => ~TryLong("rust", t)

\* The text left of a cluster is not tried as a long option.
LEMMA NotLongStays ==
    ASSUME NEW s, NEW t, ~TryLong("rust", s), Same(s, t), t.index = s.index
    PROVE  ~TryLong("rust", t)
<1>1. t.argv = s.argv /\ t.argc = s.argc /\ t.longs = s.longs
  BY DEF Same, Passed
<1>2. Element(t, t.index) = Element(s, s.index)
  BY <1>1 DEF Element
<1> QED BY <1>1, <1>2 DEF TryLong

\* An option within a cluster.
LEMMA LaterFollows ==
    ASSUME NEW argv \in Seq(Elements), NEW s, AtText(argv, s), ~TryLong("rust", s),
           NEW scan, \A i \in 1..Len(argv) : scan[i] \in Scans,
           NEW t, t = Decode("rust", s), ~Strays(t)
    PROVE  Follows(argv, scan, s, t, TextOf(argv, scan, s))
<1>1. t = HandleShortOpt(s)
  BY DEF Decode
<1>2. /\ Same(s, t) /\ Came(t) \in Returned /\ t.text \in Elements
      /\ TextOf(argv, scan, s) = Then(Done(argv, s, t), RestOf(argv, scan, t))
      /\ t.text # <<>> => t.index = s.index
      /\ t.index \in s.index..Len(argv)
  BY <1>1, ShortScans
<1> QED BY <1>2, NotLongStays DEF Follows

\* An option at the beginning of its element.
LEMMA BeginsFollows ==
    ASSUME NEW argv \in Seq(Elements), NEW s, AtText(argv, s), Begins(s),
           NEW scan, scan = Scan(How(s), argv),
           NEW t, t = Decode("rust", s), ~Strays(t)
    PROVE  Follows(argv, scan, s, t, scan[s.index])
<1> DEFINE i == s.index
           e == argv[i + 1]
           next == Following(argv, i)
           o == Option(How(s), e, next)
<1>1. i \in Nat /\ i \in 1..Len(argv) - 1 /\ i < Len(argv) /\ Len(argv) \in Nat /\ argv # <<>>
  BY DEF AtText, Decoding, Looking, Indices, InOrder
<1>2. /\ e \in Elements /\ ~NonOption(e) /\ e # DashDash
  BY BeginsElement
<1>3. scan[i] = Options(argv, scan, i, o)
  BY <1>1, <1>2, ScanOption
<1>4. \A k \in 1..Len(argv) : scan[k] \in Scans
  BY <1>1, ScanTyped
<1>5. CASE TryLong("rust", s)
  <2>1. t = HandleLongOpt("rust", s)
    BY <1>5 DEF Decode
  <2>2. Same(s, t) /\ Takes(s, t, o)
    BY <1>5, <2>1, HandleLongOptScans
  <2>3. next \in Seq(Elements)
    BY <1>1, FollowingTyped
  <2>4. Gives(o, next)
    BY <1>2, <2>3, OptionTyped
  <2>5. o.got \in Seq(Returned) /\ i + o.takes \in i + 1..Len(argv)
    BY <1>1, <2>4, OptionEnds
  <2> HIDE DEF o, e, next
  <2>6. o.got = <<Came(t)>> /\ t.text = <<>> /\ t.index = i + o.takes
    BY <2>2 DEF Takes
  <2>7. Came(t) \in Returned
    BY <2>5, <2>6, CameTyped
  <2>8. t.text \in Elements
    <3>1. t.text = <<>>
      BY <2>6
    <3>2. <<>> \in Elements
      BY DEF Elements
    <3> QED BY <3>1, <3>2, Zenon
  <2>9. t.index \in i..Len(argv)
    BY <1>1, <2>5, <2>6
  <2>10. Options(argv, scan, i, o) = Then(Done(argv, s, t), RestOf(argv, scan, t))
    BY <2>2, TakesScans
  <2> QED BY <1>3, <2>2, <2>6, <2>7, <2>8, <2>9, <2>10 DEF Follows
<1>6. CASE ~TryLong("rust", s)
  <2>1. o = Cluster(How(s), s.text, next)
    BY <1>6, NotTryLong
  <2>2. scan[i] = TextOf(argv, scan, s)
    BY <1>3, <2>1 DEF TextOf
  <2>3. Follows(argv, scan, s, t, TextOf(argv, scan, s))
    BY <1>4, <1>6, LaterFollows
  <2> QED BY <2>2, <2>3
<1> QED BY <1>5, <1>6

-----------------------------------------------------------------------------
\* What is used and what is left so far, of argv as it is.
Used(s) == Between(s.argv, 1, s.first) \o Between(s.argv, s.last, s.index)
Left(s) == Between(s.argv, s.first, s.last)
Sofar(s, r) == Parts(r, Used(s), Left(s))

\* argv is as given but for the elements before the index.
Stands(argv, s, r) ==
    /\ Indices(s) /\ InOrder(s) /\ s.last <= s.index
    /\ s.argc = Len(argv) /\ s.argv \in Seq(Elements) /\ Len(s.argv) = Len(argv)
    /\ s.argv[1] = argv[1]
    /\ \A k \in s.index + 1..Len(argv) : s.argv[k] = argv[k]
    /\ r \in Seq(Returned)

\* Only a scanner that permutes passes non-options.
Permutes(s) == s.marker = ""
Marked(s) == s.marker \in Markers /\ (~Permutes(s) => s.first = s.last)

LEMMA StandsIndices ==
    ASSUME NEW argv, NEW s, NEW r, Stands(argv, s, r)
    PROVE  /\ s.first \in Nat /\ s.last \in Nat /\ s.index \in Nat /\ Len(argv) \in Nat
           /\ 1 <= s.first /\ s.first <= s.last /\ s.last <= s.index /\ s.index <= Len(argv)
           /\ s.index \in 1..Len(argv) /\ s.argc = Len(argv)
           /\ s.argv \in Seq(Elements) /\ Len(s.argv) = Len(argv) /\ r \in Seq(Returned)
           /\ Fields(s)
<1>1. /\ Indices(s) /\ InOrder(s) /\ s.last <= s.index /\ s.argc = Len(argv) /\ s.argv \in Seq(Elements)
      /\ Len(s.argv) = Len(argv) /\ r \in Seq(Returned)
  BY DEF Stands
<1>2. /\ Fields(s) /\ s.argc \in Nat /\ s.index \in Nat /\ s.first \in Nat /\ s.last \in Nat
      /\ 1 <= s.first /\ s.first <= s.last /\ s.last <= s.index /\ s.index <= s.argc
  BY <1>1 DEF Indices, InOrder
<1>3. s.index \in 1..s.argc
  BY <1>2
<1>4. /\ Len(argv) \in Nat /\ s.index <= Len(argv) /\ s.index \in 1..Len(argv)
  BY <1>1, <1>2, <1>3, Zenon
<1> QED BY <1>1, <1>2, <1>4, Zenon

LEMMA SofarTyped ==
    ASSUME NEW argv \in Seq(Elements), NEW s, NEW r, Stands(argv, s, r)
    PROVE  /\ Used(s) \in Seq(Elements) /\ Left(s) \in Seq(Elements) /\ Sofar(s, r) \in Scans
           /\ Between(s.argv, 1, s.first) \in Seq(Elements)
           /\ Between(s.argv, s.last, s.index) \in Seq(Elements)
<1> DEFINE a == s.argv
<1>1. /\ s.first \in Nat /\ s.last \in Nat /\ s.index \in Nat
      /\ 1 <= s.first /\ s.first <= s.last /\ s.last <= s.index
      /\ s.first <= Len(a) /\ s.last <= Len(a) /\ s.index <= Len(a)
      /\ a \in Seq(Elements) /\ r \in Seq(Returned) /\ 1 \in Nat
  BY StandsIndices
<1> HIDE DEF a
<1>2. Between(a, 1, s.first) \in Seq(Elements)
  BY <1>1, BetweenTyped
<1>3. Between(a, s.last, s.index) \in Seq(Elements)
  BY <1>1, BetweenTyped
<1>4. Between(a, s.first, s.last) \in Seq(Elements)
  BY <1>1, BetweenTyped
<1>5. Used(s) \in Seq(Elements) /\ Left(s) \in Seq(Elements)
  BY <1>2, <1>3, <1>4 DEF Used, Left, a
<1>6. Sofar(s, r) \in Scans
  BY <1>1, <1>5, PartsTyped DEF Sofar
<1> QED BY <1>2, <1>3, <1>5, <1>6 DEF a

\* What is said of what is used up to a later index.
LEMMA UsedGrows ==
    ASSUME NEW argv \in Seq(Elements), NEW s, NEW r, Stands(argv, s, r),
           NEW t, t.argv = s.argv, t.first = s.first, t.last = s.last,
           t.index \in s.index..Len(argv)
    PROVE  /\ Used(t) = Used(s) \o Between(argv, s.index, t.index) /\ Left(t) = Left(s)
           /\ Between(argv, s.index, t.index) \in Seq(Elements)
<1> DEFINE a == s.argv
           i == s.index
           x == Between(a, 1, s.first)
           y == Between(a, s.last, i)
           z == Between(a, i, t.index)
<1>1. /\ s.first \in Nat /\ s.last \in Nat /\ i \in Nat /\ t.index \in Nat /\ Len(argv) \in Nat
      /\ s.last <= i /\ i <= t.index /\ t.index <= Len(a) /\ t.index <= Len(argv)
      /\ a \in Seq(Elements) /\ Len(a) = Len(argv)
  BY StandsIndices
<1>2. x \in Seq(Elements) /\ y \in Seq(Elements)
  BY SofarTyped
<1>3. z \in Seq(Elements)
  BY <1>1, BetweenTyped
<1>4. y \o z = Between(a, s.last, t.index)
  <2>1. /\ a \in Seq(Elements) /\ s.last \in Nat /\ i \in Nat /\ t.index \in Nat
        /\ s.last <= i /\ i <= t.index /\ t.index <= Len(a)
    BY <1>1
  <2> QED BY <2>1, BetweenJoined
<1>5. Used(t) = x \o (y \o z)
  BY <1>4 DEF Used
<1>6. z = Between(argv, i, t.index)
  <2> DEFINE n == t.index - i
  <2>1. n \in Nat /\ i + n = t.index
    BY <1>1
  <2> HIDE DEF n
  <2>2. Alike(a, i, argv, i, n)
    <3>1. \A k \in 1..n : i + k \in i + 1..Len(argv)
      BY <1>1, <2>1
    <3> QED BY <3>1 DEF Stands, Alike
  <2>3. i + n <= Len(a) /\ i + n <= Len(argv)
    BY <1>1, <2>1
  <2>4. Between(a, i, i + n) = Between(argv, i, i + n)
    BY <1>1, <2>1, <2>2, <2>3, BetweenSame
  <2> QED BY <2>1, <2>4
<1>7. Used(s) = x \o y /\ Left(t) = Left(s)
  BY DEF Used, Left
<1> HIDE DEF x, y, z
<1>8. (x \o y) \o z = x \o (y \o z)
  BY <1>2, <1>3, JoinThree
<1> QED BY <1>3, <1>5, <1>6, <1>7, <1>8, Zenon

-----------------------------------------------------------------------------
\* What was told before and what is to come are all there is to tell.

\* What is to come is a scan.
LEMMA RestTyped ==
    ASSUME NEW argv \in Seq(Elements), NEW scan, \A i \in 1..Len(argv) : scan[i] \in Scans,
           NEW t, t.index \in 1..Len(argv), t.text \in Elements,
           t.text # <<>> => t.index < Len(argv)
    PROVE  RestOf(argv, scan, t) \in Scans
<1> DEFINE i == t.index
           next == Following(argv, i)
           d == Cluster(How(t), t.text, next)
<1>1. CASE t.text = <<>>
  BY <1>1 DEF RestOf
<1>2. CASE t.text # <<>>
  <2>1. i \in Nat /\ i < Len(argv)
    BY <1>2
  <2>2. next \in Seq(Elements)
    BY <2>1, FollowingTyped
  <2>3. Gives(d, next)
    BY <2>2, ClusterTyped
  <2>4. i + d.takes \in i + 1..Len(argv)
    BY <2>1, <2>3, OptionEnds
  <2>5. i + d.takes \in 1..Len(argv)
    BY <2>1, <2>4
  <2>6. scan[i + d.takes] \in Scans
    BY <2>5
  <2>7. RestOf(argv, scan, t) = Options(argv, scan, i, d)
    BY <1>2 DEF RestOf, TextOf
  <2> HIDE DEF d, i
  <2>8. Options(argv, scan, i, d) \in Scans
    BY <2>1, <2>3, <2>6, OptionsTyped DEF next
  <2> QED BY <2>7, <2>8
<1> QED BY <1>1, <1>2

\* One more decoded option is told, and what is to come is less by it.
LEMMA DecodedTold ==
    ASSUME NEW argv \in Seq(Elements), NEW s, NEW r, Stands(argv, s, r),
           NEW scan, NEW t, NEW rest, Follows(argv, scan, s, t, rest),
           RestOf(argv, scan, t) \in Scans
    PROVE  Then(Sofar(s, r), rest) = Then(Sofar(t, Append(r, Came(t))), RestOf(argv, scan, t))
<1> DEFINE c == <<Came(t)>>
           d == Done(argv, s, t)
           z == RestOf(argv, scan, t)
           u == Used(s)
           l == Left(s)
           b == Between(argv, s.index, t.index)
           n == Append(r, Came(t))
<1>1. Same(s, t) /\ Came(t) \in Returned /\ rest = Then(d, z) /\ t.index \in s.index..Len(argv)
  BY DEF Follows
<1>2. t.argv = s.argv /\ t.first = s.first /\ t.last = s.last
  BY <1>1 DEF Same, Passed
<1>3. Used(t) = u \o b /\ Left(t) = l /\ b \in Seq(Elements)
  BY <1>1, <1>2, UsedGrows
<1>4. u \in Seq(Elements) /\ l \in Seq(Elements) /\ r \in Seq(Returned) /\ Sofar(s, r) \in Scans
  BY SofarTyped, StandsIndices
<1>5. c \in Seq(Returned) /\ n = r \o c
  BY <1>1, <1>4
<1>6. d = Parts(c, b, <<>>) /\ Sofar(s, r) = Parts(r, u, l)
  BY DEF Done, Sofar
<1>7. Sofar(t, n) = Parts(n, u \o b, l)
  BY <1>3, Zenon DEF Sofar
<1> HIDE DEF c, d, z, u, l, b, n
<1>a. b \in Seq(Elements) /\ c \in Seq(Returned) /\ u \in Seq(Elements)
      /\ l \in Seq(Elements) /\ r \in Seq(Returned)
  BY <1>3, <1>4, <1>5, Zenon
<1>b. PICK e : e = <<>>
  OBVIOUS
<1>c. e \in Seq(Elements)
  BY <1>b
<1>8. e = <<>> /\ e \in Seq(Elements)
  BY <1>b, <1>c
<1>9. d \in Scans
  <2>1. Parts(c, b, e) \in Scans
    BY <1>8, <1>a, PartsTyped
  <2> QED BY <1>6, <1>8, <2>1, Zenon
<1>10. Then(Parts(r, u, l), Parts(c, b, e)) = Parts(r \o c, u \o b, l \o e)
  BY <1>a, <1>c, ThenParts
<1>11. l \o e = l
  BY <1>4, <1>8, JoinEmpty
<1>12. Then(Sofar(s, r), d) = Sofar(t, n)
  BY <1>5, <1>6, <1>7, <1>8, <1>10, <1>11, Zenon
<1>13. z \in Scans
  BY DEF z
<1>14. Then(Then(Sofar(s, r), d), z) = Then(Sofar(s, r), Then(d, z))
  BY <1>4, <1>9, <1>13, ThenThree
<1> QED BY <1>1, <1>12, <1>14, Zenon DEF n, z

\* A decoded option leaves argv as it stands.
LEMMA DecodedStands ==
    ASSUME NEW argv \in Seq(Elements), NEW s, NEW r, Stands(argv, s, r),
           NEW scan, NEW t, NEW rest, Follows(argv, scan, s, t, rest)
    PROVE  Stands(argv, t, Append(r, Came(t))) /\ (Marked(s) => Marked(t))
<1>1. /\ Same(s, t) /\ Came(t) \in Returned /\ t.index \in s.index..Len(argv)
  BY DEF Follows
<1>2. /\ Fields(t) /\ t.argc = s.argc /\ t.longs = s.longs /\ How(t) = How(s)
      /\ t.first = s.first /\ t.last = s.last /\ t.argv = s.argv
  BY <1>1 DEF Same, Passed
<1>3. Marked(s) => Marked(t)
  <2>1. t.marker = s.marker
    BY <1>2 DEF How
  <2> QED BY <1>2, <2>1, Zenon DEF Marked, Permutes
<1>4. Append(r, Came(t)) \in Seq(Returned)
  <2>1. r \in Seq(Returned)
    BY StandsIndices
  <2> QED BY <1>1, <2>1
<1>5. /\ s.first \in Nat /\ s.last \in Nat /\ s.index \in Nat /\ s.argc = Len(argv)
      /\ 1 <= s.first /\ s.first <= s.last /\ s.last <= s.index /\ s.index <= Len(argv)
      /\ Len(argv) \in Nat
  BY StandsIndices
<1>6. t.index \in Nat /\ s.index <= t.index /\ t.index <= Len(argv)
  BY <1>1, <1>5
<1>7. Indices(t)
  <2>1. Indices(s)
    BY DEF Stands
  <2> QED BY <1>2, <1>6, <2>1 DEF Indices
<1>8. InOrder(t) /\ t.last <= t.index
  BY <1>2, <1>5, <1>6 DEF InOrder
<1>9. \A k \in t.index + 1..Len(argv) : t.argv[k] = argv[k]
  <2>1. \A k \in s.index + 1..Len(argv) : s.argv[k] = argv[k]
    BY DEF Stands
  <2>2. \A k \in t.index + 1..Len(argv) : k \in s.index + 1..Len(argv)
    BY <1>5, <1>6
  <2> QED BY <1>2, <2>1, <2>2
<1> QED BY <1>2, <1>3, <1>4, <1>7, <1>8, <1>9 DEF Stands

-----------------------------------------------------------------------------
\* Regroup and exchange leave what is used and what is left as they are.

\* Two segments of argv next to one another, after a rotation.
Turned(a, b, f, d, c) ==
    /\ b \in Seq(Elements) /\ Len(b) = Len(a)
    /\ \A k \in 1..f : b[k] = a[k]
    /\ Alike(b, f, a, f + d, c) /\ Alike(b, f + c, a, f, d)
    /\ \A k \in f + d + c + 1..Len(a) : b[k] = a[k]

LEMMA RotatedParts ==
    ASSUME NEW a \in Seq(Elements), NEW f \in Nat, NEW c \in Nat, NEW d \in Nat,
           1 <= f, f + d + c <= Len(a),
           NEW b, b = RotateLeft(a, f, f + d, f + d + c)
    PROVE  Turned(a, b, f, d, c)
<1> DEFINE l == f + d
           i == f + d + c
<1>1. b \in Seq(Elements) /\ Len(b) = Len(a)
  BY RotateLeftInRange
<1>2. \A k \in 1..Len(a) : b[k] = IF k \in f + 1..f + i - l THEN a[k + l - f]
                                  ELSE IF k \in f + i - l + 1..i THEN a[k - i + l]
                                  ELSE a[k]
  BY DEF RotateLeft
<1>3. Len(a) \in Nat
  OBVIOUS
<1>4. \A k \in 1..f : k \in 1..Len(a) /\ k \notin f + 1..f + i - l /\ k \notin f + i - l + 1..i
  BY <1>3
<1>5. \A k \in 1..c : f + k \in 1..Len(a) /\ f + k \in f + 1..f + i - l /\ (f + k) + l - f = f + d + k
  BY <1>3
<1>6. \A k \in 1..d : /\ f + c + k \in 1..Len(a) /\ f + c + k \notin f + 1..f + i - l
                      /\ f + c + k \in f + i - l + 1..i /\ (f + c + k) - i + l = f + k
  BY <1>3
<1>7. \A k \in f + d + c + 1..Len(a) :
         k \in 1..Len(a) /\ k \notin f + 1..f + i - l /\ k \notin f + i - l + 1..i
  BY <1>3
<1> HIDE DEF l, i
<1>8. \A k \in 1..f : b[k] = a[k]
  BY <1>2, <1>4
<1>9. Alike(b, f, a, f + d, c)
  BY <1>2, <1>5 DEF Alike
<1>10. Alike(b, f + c, a, f, d)
  BY <1>2, <1>6 DEF Alike
<1>11. \A k \in f + d + c + 1..Len(a) : b[k] = a[k]
  BY <1>2, <1>7
<1> QED BY <1>1, <1>8, <1>9, <1>10, <1>11, Zenon DEF Turned

\* argv up to the index, once the options after the non-options are before them.
Grouped(s, t) ==
    /\ How(t) = How(s) /\ t.argv \in Seq(Elements) /\ Len(t.argv) = Len(s.argv)
    /\ \A k \in s.index + 1..Len(s.argv) : t.argv[k] = s.argv[k]
    /\ t.argv[1] = s.argv[1]
    /\ t.first \in Nat /\ 1 <= t.first /\ t.first <= s.index /\ t.index = s.index
    /\ Between(t.argv, 1, t.first) = Used(s)
    /\ Between(t.argv, t.first, s.index) = Left(s)

\* exchange brings the options before the non-options, each in order.
LEMMA ExchangeGroups ==
    ASSUME NEW s, Fields(s), s.argv \in Seq(Elements),
           s.first \in Nat, s.last \in Nat, s.index \in Nat,
           1 <= s.first, s.first <= s.last, s.last <= s.index, s.index <= Len(s.argv),
           NEW t, t = Exchange("rust", s)
    PROVE  Grouped(s, t)
<1> DEFINE a == s.argv
           f == s.first
           d == s.last - s.first
           c == s.index - s.last
           b == RotateLeft(a, f, f + d, f + d + c)
           n == f + c
<1>1. /\ f \in Nat /\ d \in Nat /\ c \in Nat /\ n \in Nat /\ 1 <= f /\ a \in Seq(Elements)
      /\ s.last = f + d /\ s.index = f + d + c /\ f + d + c <= Len(a)
      /\ f + s.index - s.last = n /\ n <= s.index /\ f <= n /\ 1 <= n
      /\ s.index = n + d /\ Len(a) \in Nat
  OBVIOUS
<1>2. t = [s EXCEPT !.argv = b, !.first = n, !.last = s.index]
  <2>1. t = [s EXCEPT !.argv = RotateLeft(s.argv, s.first, s.last, s.index),
                      !.first = @ + s.index - s.last, !.last = s.index]
    BY DEF Exchange
  <2> QED BY <1>1, <2>1
<1> HIDE DEF b, n
<1>3. t.argv = b /\ t.first = n /\ t.index = s.index /\ How(t) = How(s)
  BY <1>2 DEF Fields, How
<1> HIDE DEF a, f, d, c
<1>4. /\ b \in Seq(Elements) /\ Len(b) = Len(a)
      /\ \A k \in 1..f : b[k] = a[k]
      /\ Alike(b, f, a, f + d, c) /\ Alike(b, n, a, f, d)
      /\ \A k \in f + d + c + 1..Len(a) : b[k] = a[k]
  <2>1. b = RotateLeft(a, f, f + d, f + d + c)
    BY DEF b
  <2>2. Turned(a, b, f, d, c)
    BY <1>1, <2>1, RotatedParts
  <2> QED BY <2>2, Zenon DEF Turned, n
<1>5. Between(b, f, n) = Between(a, s.last, s.index)
  <2>1. PICK l \in Nat : l = f + d
    BY <1>1
  <2>2. f + c <= Len(b) /\ l + c <= Len(a) /\ Alike(b, f, a, l, c)
    BY <1>1, <1>4, <2>1
  <2>3. Between(b, f, f + c) = Between(a, l, l + c)
    BY <1>1, <1>4, <2>2, BetweenSame
  <2>4. n = f + c
    BY DEF n
  <2> QED BY <1>1, <2>1, <2>3, <2>4
<1>6. Between(b, n, s.index) = Between(a, f, s.last)
  <2>1. n + d <= Len(b) /\ f + d <= Len(a)
    BY <1>1, <1>4
  <2>2. Between(b, n, n + d) = Between(a, f, f + d)
    BY <1>1, <1>4, <2>1, BetweenSame
  <2> QED BY <1>1, <2>2
<1>7. Between(b, 1, f) = Between(a, 1, f)
  <2>1. PICK m \in Nat : f = 1 + m
    <3>1. f - 1 \in Nat /\ f = 1 + (f - 1)
      BY <1>1
    <3> QED BY <3>1
  <2>2. 1 + m <= Len(b) /\ 1 + m <= Len(a) /\ 1 \in Nat
    BY <1>1, <1>4, <2>1
  <2>3. Alike(b, 1, a, 1, m)
    <3>1. \A k \in 1..m : 1 + k \in 1..f
      BY <2>1
    <3> QED BY <1>4, <3>1 DEF Alike
  <2>4. Between(b, 1, 1 + m) = Between(a, 1, 1 + m)
    BY <1>1, <1>4, <2>2, <2>3, BetweenSame
  <2> QED BY <2>1, <2>4
<1>8. Between(b, 1, n) = Between(b, 1, f) \o Between(b, f, n)
  <2>1. /\ b \in Seq(Elements) /\ f \in Nat /\ n \in Nat /\ 1 \in Nat
        /\ 1 <= f /\ f <= n /\ n <= Len(b)
    BY <1>1, <1>4
  <2> QED BY <2>1, BetweenJoined
<1>9. Between(b, 1, n) = Used(s)
  BY <1>5, <1>7, <1>8, Zenon DEF Used, a, f
<1>10. Between(b, n, s.index) = Left(s)
  BY <1>6 DEF Left, a, f
<1>11. b[1] = a[1]
  BY <1>1, <1>4
<1>12. \A k \in s.index + 1..Len(a) : b[k] = a[k]
  BY <1>1, <1>4
<1> QED BY <1>1, <1>3, <1>4, <1>9, <1>10, <1>11, <1>12 DEF Grouped, a

\* So does all that is done before the skip.
LEMMA RegroupGroups ==
    ASSUME NEW argv \in Seq(Elements), NEW s, NEW r, Stands(argv, s, r),
           NEW t, t = Regroup("rust", s)
    PROVE  Grouped(s, t)
<1>1. /\ s.first \in Nat /\ s.last \in Nat /\ s.index \in Nat /\ s.argv \in Seq(Elements)
      /\ 1 <= s.first /\ s.first <= s.last /\ s.last <= s.index /\ s.index <= Len(s.argv)
      /\ Fields(s)
  BY StandsIndices
<1>2. Between(s.argv, 1, s.first) \in Seq(Elements)
  BY SofarTyped
<1>3. CASE s.last = s.index
  <2>1. t = s
    BY <1>3 DEF Regroup
  <2>2. Between(s.argv, s.last, s.index) = <<>>
    BY <1>1, <1>3, BetweenNone
  <2>3. Used(s) = Between(s.argv, 1, s.first)
    <3> DEFINE x == Between(s.argv, 1, s.first)
    <3>1. Used(s) = x \o <<>>
      BY <2>2, Zenon DEF Used
    <3>2. x \o <<>> = x
      BY <1>2, JoinEmpty
    <3> QED BY <3>1, <3>2, Zenon
  <2>4. Left(s) = Between(s.argv, s.first, s.index)
    BY <1>3 DEF Left
  <2> QED BY <1>1, <1>3, <2>1, <2>3, <2>4 DEF Grouped
<1>4. CASE s.last # s.index /\ s.first = s.last
  <2>1. t = [s EXCEPT !.first = s.index]
    BY <1>4 DEF Regroup
  <2>2. t.argv = s.argv /\ t.first = s.index /\ t.index = s.index /\ How(t) = How(s)
    BY <1>1, <2>1 DEF Fields, How
  <2>3. Used(s) = Between(s.argv, 1, s.index)
    <3>1. s.first <= s.index /\ 1 \in Nat
      BY <1>1
    <3>2. Between(s.argv, 1, s.first) \o Between(s.argv, s.first, s.index)
            = Between(s.argv, 1, s.index)
      BY <1>1, <3>1, BetweenJoined
    <3> QED BY <1>4, <3>2, Zenon DEF Used
  <2>4. Left(s) = <<>> /\ Between(s.argv, s.index, s.index) = <<>>
    BY <1>1, <1>4, BetweenNone DEF Left
  <2> QED BY <1>1, <2>2, <2>3, <2>4 DEF Grouped
<1>5. CASE s.last # s.index /\ s.first # s.last
  <2>1. t = Exchange("rust", s)
    BY <1>5 DEF Regroup
  <2> QED BY <1>1, <2>1, ExchangeGroups
<1> QED BY <1>3, <1>4, <1>5

-----------------------------------------------------------------------------
\* The skip of non-options adds them to what is left.

\* The skip of non-options leaves them.
SkippedTo(u, j) == [u EXCEPT !.index = j, !.last = j]

LEMMA SkippedStands ==
    ASSUME NEW argv \in Seq(Elements), NEW s, NEW r, Stands(argv, s, r),
           NEW u, Grouped(s, u), Kept(s, u), Indices(u),
           NEW j \in Nat, s.index <= j, j <= Len(argv), NEW t, t = SkippedTo(u, j)
    PROVE  /\ Stands(argv, t, r) /\ How(t) = How(s) /\ t.index = j /\ t.last = j
           /\ Used(t) = Used(s)
           /\ Left(t) = Left(s) \o Between(argv, s.index, j)
<1> DEFINE i == s.index
           f == u.first
           a == u.argv
<1>1. /\ s.first \in Nat /\ s.last \in Nat /\ i \in Nat /\ Len(argv) \in Nat
      /\ 1 <= i /\ i <= Len(argv) /\ s.argc = Len(argv)
      /\ Len(s.argv) = Len(argv) /\ r \in Seq(Returned)
  BY StandsIndices
<1>2. /\ How(u) = How(s) /\ a \in Seq(Elements) /\ Len(a) = Len(argv) /\ a[1] = s.argv[1]
      /\ f \in Nat /\ 1 <= f /\ f <= i /\ u.index = i
      /\ \A k \in i + 1..Len(argv) : a[k] = s.argv[k]
      /\ Between(a, 1, f) = Used(s) /\ Between(a, f, i) = Left(s)
  BY <1>1 DEF Grouped
<1>3. j \in Nat /\ i <= j /\ j <= Len(argv)
  OBVIOUS
<1>4. /\ Fields(t) /\ t.argv = a /\ t.first = f /\ t.last = j /\ t.index = j
      /\ t.argc = u.argc /\ t.longs = u.longs /\ How(t) = How(u)
  BY DEF Indices, Fields, How, SkippedTo
<1>5. u.argc = Len(argv) /\ u.argc \in Nat \ {0} /\ u.longs \in {<<>>, LongTable}
  BY <1>1 DEF Kept, Indices
<1>6. \A k \in i + 1..Len(argv) : a[k] = argv[k]
  BY <1>2 DEF Stands
<1>7. a[1] = argv[1]
  BY <1>2 DEF Stands
<1> HIDE DEF a, f, i
<1>9. Indices(t) /\ InOrder(t) /\ t.last <= t.index
  <2>1. f <= j /\ j \in Nat
    BY <1>1, <1>2, <1>3
  <2> QED BY <1>2, <1>3, <1>4, <1>5, <2>1 DEF Indices, InOrder
<1>10. \A k \in t.index + 1..Len(argv) : t.argv[k] = argv[k]
  <2>1. \A k \in j + 1..Len(argv) : k \in i + 1..Len(argv)
    BY <1>1, <1>3
  <2> QED BY <1>4, <1>6, <2>1
<1>11. Stands(argv, t, r)
  BY <1>1, <1>2, <1>4, <1>5, <1>7, <1>9, <1>10, Zenon DEF Stands
<1>12. Between(a, i, j) = Between(argv, i, j)
  <2>1. PICK n \in Nat : j = i + n
    <3>1. j - i \in Nat /\ j = i + (j - i)
      BY <1>1, <1>3
    <3> QED BY <3>1
  <2>2. Alike(a, i, argv, i, n)
    <3>1. \A k \in 1..n : i + k \in i + 1..Len(argv)
      BY <1>1, <1>3, <2>1
    <3> QED BY <1>6, <3>1 DEF Alike
  <2>3. i + n <= Len(a) /\ i + n <= Len(argv)
    BY <1>2, <1>3, <2>1
  <2>4. Between(a, i, i + n) = Between(argv, i, i + n)
    BY <1>1, <1>2, <2>2, <2>3, BetweenSame
  <2> QED BY <2>1, <2>4
<1>13. Between(a, f, i) \o Between(a, i, j) = Between(a, f, j)
  <2>1. /\ a \in Seq(Elements) /\ f \in Nat /\ i \in Nat /\ j \in Nat
        /\ f <= i /\ i <= j /\ j <= Len(a)
    BY <1>1, <1>2, <1>3
  <2> QED BY <2>1, BetweenJoined
<1>14. Left(t) = Left(s) \o Between(argv, i, j)
  <2>1. Left(t) = Between(a, f, j)
    BY <1>4 DEF Left
  <2> QED BY <1>2, <1>12, <1>13, <2>1, Zenon
<1>15. Used(t) = Used(s)
  <2> DEFINE x == Between(a, 1, f)
  <2>1. Between(a, j, j) = <<>>
    BY <1>3, BetweenNone
  <2>2. Used(t) = x \o <<>>
    BY <1>4, <2>1, Zenon DEF Used
  <2>3. x \in Seq(Elements)
    <3>1. f <= Len(a) /\ 1 \in Nat
      BY <1>1, <1>2
    <3> QED BY <1>2, <3>1, BetweenTyped
  <2>4. x \o <<>> = x
    BY <2>3, JoinEmpty
  <2> QED BY <1>2, <2>2, <2>4, Zenon
<1> QED BY <1>2, <1>4, <1>11, <1>14, <1>15, Zenon DEF i

\* What the scan says of elements that are left.
LEMMA LeftTold ==
    ASSUME NEW r \in Seq(Returned), NEW u \in Seq(Elements), NEW l \in Seq(Elements),
           NEW b \in Seq(Elements), NEW z \in Scans
    PROVE  Then(Parts(r, u, l), Then(Parts(<<>>, <<>>, b), z)) = Then(Parts(r, u, l \o b), z)
<1>1. PICK e : e = <<>>
  OBVIOUS
<1>2. e \in Seq(Elements) /\ e \in Seq(Returned)
  BY <1>1
<1>3. Then(Parts(r, u, l), Parts(e, e, b)) = Parts(r \o e, u \o e, l \o b)
  BY <1>2, ThenParts
<1>4. r \o e = r /\ u \o e = u
  BY <1>1, JoinEmpty
<1>5. Parts(r, u, l) \in Scans /\ Parts(e, e, b) \in Scans
  BY <1>2, PartsTyped
<1> DEFINE p == Parts(r, u, l)
           q == Parts(e, e, b)
<1>6. p \in Scans /\ q \in Scans
  BY <1>5
<1> HIDE DEF p, q
<1>7. Then(Then(p, q), z) = Then(p, Then(q, z))
  BY <1>6, ThenThree
<1> QED BY <1>1, <1>3, <1>4, <1>7, Zenon DEF p, q

\* Permuting changes nothing in what there is to tell.
LEMMA PermutedTold ==
    ASSUME NEW argv \in Seq(Elements), NEW s, NEW r, Stands(argv, s, r), Looking(s), Marked(s),
           NEW scan, scan = Scan(How(s), argv), NEW t, t = Permuted("rust", s)
    PROVE  /\ Stands(argv, t, r) /\ How(t) = How(s) /\ Marked(t)
           /\ Permutes(t) => t.last = t.index
           /\ Then(Sofar(s, r), scan[s.index]) = Then(Sofar(t, r), scan[t.index])
           /\ t.index < t.argc /\ NonOption(Element(t, t.index)) => ~Permutes(t)
<1>1. CASE ~Permutes(s)
  BY <1>1, Zenon DEF Permuted, Permutes
<1>2. CASE Permutes(s)
  <2> DEFINE u == Regroup("rust", s)
             j == NextOption(u)
             i == s.index
  <2>1. Grouped(s, u)
    BY RegroupGroups
  <2>2. Indices(u) /\ Kept(s, u) /\ u.index = i
    BY RegroupInRange
  <2>3. t = SkippedTo(u, j)
    BY <1>2, Zenon DEF Permuted, SkipNonOptions, SkippedTo, Permutes
  <2>4. u.argc = Len(argv) /\ i \in 1..Len(argv) /\ s.argc = Len(argv) /\ i \in Nat
        /\ i <= Len(argv) /\ Len(argv) \in Nat
    BY <2>2, StandsIndices DEF Kept
  <2> HIDE DEF u, i
  <2>5. /\ j \in i..Len(argv)
        /\ j < Len(argv) => ~NonOption(Element(u, j))
        /\ \A k \in i..j - 1 : NonOption(Element(u, k))
    BY <2>2, <2>4, NextOptionInRange
  <2> HIDE DEF j
  <2>6. /\ Stands(argv, t, r) /\ How(t) = How(s) /\ t.index = j /\ t.last = j
        /\ Used(t) = Used(s) /\ Left(t) = Left(s) \o Between(argv, i, j)
    <3>1. j \in Nat /\ i <= j /\ j <= Len(argv)
      BY <2>4, <2>5
    <3> QED BY <1>2, <2>1, <2>2, <2>3, <3>1, SkippedStands DEF i
  <2>7. \A k \in i..Len(argv) - 1 : Element(u, k) = argv[k + 1]
    <3>1. \A k \in i + 1..Len(argv) : u.argv[k] = argv[k]
      <4>1. \A k \in i + 1..Len(argv) : u.argv[k] = s.argv[k] /\ s.argv[k] = argv[k]
        BY <2>1 DEF Grouped, Stands, i
      <4> QED BY <4>1
    <3>2. \A k \in i..Len(argv) - 1 : k + 1 \in i + 1..Len(argv)
      BY <2>4
    <3> QED BY <3>1, <3>2 DEF Element
  <2>8. \A k \in i..j - 1 : NonOption(argv[k + 1])
    <3>1. \A k \in i..j - 1 : k \in i..Len(argv) - 1
      BY <2>4, <2>5
    <3> QED BY <2>5, <2>7, <3>1
  <2>9. How(s).marker \notin {"+", "-"}
    BY <1>2 DEF How, Permutes
  <2>10. scan[i] = Then(Parts(<<>>, <<>>, Between(argv, i, j)), scan[j])
    BY <2>4, <2>5, <2>8, <2>9, ScanSkip
  <2>11. scan[j] \in Scans
    <3>1. j \in 1..Len(argv) /\ argv # <<>>
      BY <2>4, <2>5
    <3> QED BY <3>1, ScanTyped
  <2>12. Used(s) \in Seq(Elements) /\ Left(s) \in Seq(Elements) /\ r \in Seq(Returned)
    BY SofarTyped, StandsIndices
  <2>13. Between(argv, i, j) \in Seq(Elements)
    <3>1. j \in Nat /\ i <= j /\ j <= Len(argv)
      BY <2>4, <2>5
    <3> QED BY <2>4, <3>1, BetweenTyped
  <2> DEFINE b == Between(argv, i, j)
             n == Used(s)
             l == Left(s)
             z == scan[j]
  <2>14. Then(Parts(r, n, l), Then(Parts(<<>>, <<>>, b), z)) = Then(Parts(r, n, l \o b), z)
    <3>1. b \in Seq(Elements) /\ n \in Seq(Elements) /\ l \in Seq(Elements)
          /\ r \in Seq(Returned) /\ z \in Scans
      BY <2>11, <2>12, <2>13
    <3> HIDE DEF b, n, l, z
    <3> QED BY <3>1, LeftTold
  <2>15. Sofar(s, r) = Parts(r, n, l) /\ Sofar(t, r) = Parts(r, n, l \o b)
    BY <2>6, Zenon DEF Sofar
  <2>16. Then(Sofar(s, r), scan[i]) = Then(Sofar(t, r), z)
    BY <2>10, <2>14, <2>15, Zenon
  <2>17. Then(Sofar(s, r), scan[s.index]) = Then(Sofar(t, r), scan[t.index])
    BY <2>6, <2>16, Zenon DEF i
  <2>18. j < Len(argv) => ~NonOption(Element(t, t.index))
    <3>1. Element(t, j) = Element(u, j)
      BY <2>2, <2>3 DEF Element, Indices, Fields, SkippedTo
    <3> QED BY <2>5, <2>6, <3>1
  <2>19. t.argc = Len(argv)
    BY <2>6, StandsIndices
  <2>20. Permutes(t) /\ Marked(t)
    <3>1. t.marker = s.marker
      BY <2>6 DEF How
    <3> QED BY <1>2, <3>1, Zenon DEF Marked, Permutes
  <2> QED BY <2>6, <2>17, <2>18, <2>19, <2>20
<1> QED BY <1>1, <1>2

-----------------------------------------------------------------------------
\* When there are no more options, argv is what was used and then what is left.

\* What argv and the index are to be when there are no more options.
Over(argv, x, t) == /\ t.argv = <<argv[1]>> \o x.used \o x.left
                    /\ t.index = 1 + Len(x.used)

\* argv is its first element and three stretches.
LEMMA WholeIs ==
    ASSUME NEW a \in Seq(Elements), NEW m \in Nat, NEW i \in Nat,
           1 <= m, m <= i, i <= Len(a)
    PROVE  a = <<a[1]>> \o Between(a, 1, m) \o (Between(a, m, i) \o Between(a, i, Len(a)))
<1> DEFINE n == Len(a)
           x == Between(a, 0, 1)
           y == Between(a, 1, m)
           z == Between(a, m, n)
<1>1. n \in Nat /\ 0 \in Nat /\ 1 \in Nat /\ 0 <= 1 /\ 1 <= n /\ m <= n /\ 0 < Len(a)
  OBVIOUS
<1>2. Between(a, m, i) \o Between(a, i, n) = z
  <2>1. i <= n /\ n <= Len(a)
    BY <1>1
  <2> QED BY <1>1, <2>1, BetweenJoined
<1>3. x = <<a[1]>>
  <2>1. Between(a, 0, 0 + 1) = <<a[0 + 1]>>
    BY <1>1, BetweenOne, Zenon
  <2> QED BY <2>1
<1>4. x \o y = Between(a, 0, m)
  <2>1. 0 <= m
    OBVIOUS
  <2>2. m <= Len(a)
    BY <1>1
  <2> QED BY <1>1, <2>1, <2>2, BetweenJoined
<1>5. Between(a, 0, m) \o z = Between(a, 0, n)
  <2>1. 0 <= m /\ n <= Len(a)
    OBVIOUS
  <2> QED BY <1>1, <2>1, BetweenJoined
<1>6. Between(a, 0, n) = a
  BY BetweenAll
<1> HIDE DEF x, y, z, n
<1>7. (x \o y) \o z = a
  BY <1>4, <1>5, <1>6, Zenon
<1> QED BY <1>2, <1>3, <1>7, Zenon DEF y, n

\* Used and left are next to one another when the last of the options found is at
\* the index, or none of the others was passed.
LEMMA BreakIs ==
    ASSUME NEW argv \in Seq(Elements), NEW s, NEW r, Stands(argv, s, r),
           s.last = s.index \/ s.first = s.last
    PROVE  \E m \in Nat :
              /\ 1 <= m /\ m <= s.index
              /\ Used(s) = Between(s.argv, 1, m) /\ Left(s) = Between(s.argv, m, s.index)
              /\ m = IF s.first # s.last THEN s.first ELSE s.index
<1> DEFINE a == s.argv
           f == s.first
           l == s.last
           i == s.index
<1>1. /\ f \in Nat /\ l \in Nat /\ i \in Nat /\ 1 <= f /\ f <= l /\ l <= i /\ i <= Len(a)
      /\ a \in Seq(Elements) /\ f <= i /\ 1 <= i /\ 1 \in Nat
  BY StandsIndices
<1>2. Used(s) = Between(a, 1, f) \o Between(a, l, i) /\ Left(s) = Between(a, f, l)
  BY Zenon DEF Used, Left
<1> HIDE DEF a, f, l, i
<1>3. CASE f = l
  <2>1. Between(a, 1, f) \o Between(a, f, i) = Between(a, 1, i)
    BY <1>1, BetweenJoined
  <2>2. Left(s) = <<>> /\ Between(a, i, i) = <<>>
    BY <1>1, <1>2, <1>3, BetweenNone
  <2>3. Used(s) = Between(a, 1, i) /\ Left(s) = Between(a, i, i)
    BY <1>2, <1>3, <2>1, <2>2, Zenon
  <2> QED BY <1>1, <1>3, <2>3 DEF a, f, l, i
<1>4. CASE f # l
  <2> DEFINE x == Between(a, 1, f)
  <2>1. l = i
    BY <1>4 DEF f, l, i
  <2>2. Between(a, l, i) = <<>>
    BY <1>1, <2>1, BetweenNone
  <2>3. x \in Seq(Elements)
    <3>1. f <= Len(a)
      BY <1>1
    <3> QED BY <1>1, <3>1, BetweenTyped
  <2>4. x \o <<>> = x
    BY <2>3, JoinEmpty
  <2>5. Used(s) = x /\ Left(s) = Between(a, f, i)
    BY <1>2, <2>1, <2>2, <2>4, Zenon
  <2> QED BY <1>1, <1>4, <2>5 DEF a, f, l, i
<1> QED BY <1>3, <1>4

\* Then wopt_index is where what is left begins.
LEMMA StandsOver ==
    ASSUME NEW argv \in Seq(Elements), NEW s, NEW r, Stands(argv, s, r),
           s.last = s.index \/ s.first = s.last,
           NEW x, x.used = Used(s), x.left = Left(s) \o Between(argv, s.index, Len(argv)),
           NEW t, t.argv = s.argv,
           t.index = IF s.first # s.last THEN s.first ELSE s.index
    PROVE  Over(argv, x, t)
<1> DEFINE a == s.argv
           i == s.index
<1>1. PICK m \in Nat :
              /\ 1 <= m /\ m <= i
              /\ Used(s) = Between(a, 1, m) /\ Left(s) = Between(a, m, i)
              /\ m = IF s.first # s.last THEN s.first ELSE s.index
  BY BreakIs
<1>2. /\ i \in Nat /\ i <= Len(a) /\ a \in Seq(Elements) /\ Len(a) = Len(argv)
      /\ Len(argv) \in Nat
  BY StandsIndices
<1>3. a[1] = argv[1] /\ \A k \in i + 1..Len(argv) : a[k] = argv[k]
  BY DEF Stands
<1>4. t.index = m /\ t.argv = a
  BY <1>1
<1> HIDE DEF a, i
<1>5. Between(a, i, Len(a)) = Between(argv, i, Len(argv))
  <2>1. PICK n \in Nat : Len(argv) = i + n
    <3>1. Len(argv) - i \in Nat /\ Len(argv) = i + (Len(argv) - i)
      BY <1>2
    <3> QED BY <3>1
  <2>2. Alike(a, i, argv, i, n)
    <3>1. \A k \in 1..n : i + k \in i + 1..Len(argv)
      BY <1>2, <2>1
    <3> QED BY <1>3, <3>1 DEF Alike
  <2>3. i + n <= Len(a) /\ i + n <= Len(argv)
    BY <1>2, <2>1
  <2>4. Between(a, i, i + n) = Between(argv, i, i + n)
    BY <1>2, <2>2, <2>3, BetweenSame
  <2> QED BY <1>2, <2>1, <2>4
<1>6. a = <<a[1]>> \o Between(a, 1, m) \o (Between(a, m, i) \o Between(a, i, Len(a)))
  BY <1>1, <1>2, WholeIs
<1>7. a = <<argv[1]>> \o x.used \o x.left
  BY <1>1, <1>3, <1>5, <1>6, Zenon DEF i
<1>8. m = 1 + Len(x.used)
  <2> DEFINE y == Between(a, 1, m)
  <2>1. m <= Len(a) /\ 1 \in Nat /\ 1 <= m
    BY <1>1, <1>2
  <2>2. Len(y) = m - 1
    BY <1>2, <2>1, BetweenTyped
  <2>3. x.used = y
    BY <1>1
  <2> HIDE DEF y
  <2> QED BY <2>2, <2>3
<1> QED BY <1>4, <1>7, <1>8, Zenon DEF Over

-----------------------------------------------------------------------------
\* `--` ends the options.

\* `--` and what follows it.
Advanced(s) == [s EXCEPT !.index = @ + 1]

LEMMA AdvancedStands ==
    ASSUME NEW argv \in Seq(Elements), NEW s, NEW r, Stands(argv, s, r), Looking(s),
           s.index < Len(argv), NEW p, p = Advanced(s)
    PROVE  /\ Stands(argv, p, r) /\ Looking(p) /\ p.index = s.index + 1 /\ p.argv = s.argv
           /\ p.first = s.first /\ p.last = s.last /\ p.argc = s.argc /\ How(p) = How(s)
           /\ p.arg = s.arg
<1>1. /\ s.first \in Nat /\ s.last \in Nat /\ s.index \in Nat /\ s.argc = Len(argv)
      /\ 1 <= s.first /\ s.first <= s.last /\ s.last <= s.index /\ s.index <= Len(argv)
      /\ s.argv \in Seq(Elements) /\ Len(s.argv) = Len(argv) /\ r \in Seq(Returned)
      /\ Len(argv) \in Nat /\ Fields(s)
  BY StandsIndices
<1>2. /\ Fields(p) /\ p.index = s.index + 1 /\ p.argv = s.argv /\ p.first = s.first
      /\ p.last = s.last /\ p.argc = s.argc /\ How(p) = How(s) /\ p.longs = s.longs
      /\ p.arg = s.arg /\ p.opt = s.opt
  BY <1>1 DEF Advanced, Fields, How
<1>3. s.argc \in Nat \ {0} /\ s.longs \in {<<>>, LongTable} /\ s.opt # "end"
  BY DEF Looking, Indices
<1>4. Indices(p) /\ InOrder(p) /\ p.last <= p.index
  BY <1>1, <1>2, <1>3 DEF Indices, InOrder
<1>5. \A k \in p.index + 1..Len(argv) : p.argv[k] = argv[k]
  <2>1. \A k \in s.index + 1..Len(argv) : s.argv[k] = argv[k]
    BY DEF Stands
  <2>2. \A k \in p.index + 1..Len(argv) : k \in s.index + 1..Len(argv)
    BY <1>1, <1>2
  <2> QED BY <1>2, <2>1, <2>2
<1>6. p.argv[1] = argv[1]
  BY <1>2 DEF Stands
<1>7. Stands(argv, p, r)
  BY <1>1, <1>2, <1>4, <1>5, <1>6, Zenon DEF Stands
<1>8. Looking(p)
  BY <1>2, <1>3, <1>4 DEF Looking
<1> QED BY <1>2, <1>7, <1>8

LEMMA FinishedIs ==
    ASSUME NEW s, Fields(s), NEW t, t = Finished(s)
    PROVE  /\ t.argv = s.argv /\ t.opt = "end" /\ t.arg = s.arg /\ How(t) = How(s)
           /\ t.index = IF s.first # s.last THEN s.first ELSE s.index
BY DEF Finished, Fields, How

\* Between the end of argv and itself there is nothing.
LEMMA NothingBeyond ==
    ASSUME NEW argv \in Seq(Elements), NEW l \in Seq(Elements)
    PROVE  l \o Between(argv, Len(argv), Len(argv)) = l
<1>1. Between(argv, Len(argv), Len(argv)) = <<>>
  <2>1. Len(argv) \in Nat
    OBVIOUS
  <2> QED BY <2>1, BetweenNone
<1>2. l \o <<>> = l
  BY JoinEmpty
<1> QED BY <1>1, <1>2, Zenon

\* `--` goes with the options, and everything after it with the others.
LEMMA EndOptionsOver ==
    ASSUME NEW argv \in Seq(Elements), NEW s, NEW r, Stands(argv, s, r), Looking(s),
           s.index < Len(argv), argv[s.index + 1] = DashDash,
           NEW scan, scan = Scan(How(s), argv),
           NEW q, q = EndOptions("rust", s), NEW x, x = Then(Sofar(s, r), scan[s.index])
    PROVE  /\ q.index = q.argc /\ q.arg = s.arg /\ How(q) = How(s) /\ Fields(q)
           /\ x.got = r /\ Over(argv, x, Finished(q))
<1>p. PICK p : p = Advanced(s)
  OBVIOUS
<1>n. PICK n : n = Len(argv)
  OBVIOUS
<1> DEFINE i == s.index
           u == Regroup("rust", p)
           b == Between(argv, i + 1, n)
           y == Between(argv, i, i + 1)
<1>1. /\ i \in Nat /\ 1 <= i /\ i < n /\ n \in Nat /\ s.argc = n /\ r \in Seq(Returned)
      /\ i \in 1..n - 1 /\ i + 1 \in Nat /\ i + 1 <= n /\ n <= Len(argv)
  <2>1. /\ i \in Nat /\ 1 <= s.first /\ s.first \in Nat /\ s.last \in Nat
        /\ s.first <= s.last /\ s.last <= i
        /\ Len(argv) \in Nat /\ s.argc = Len(argv) /\ r \in Seq(Returned)
    BY StandsIndices
  <2>2. i < Len(argv)
    OBVIOUS
  <2> HIDE DEF i
  <2> QED BY <1>n, <2>1, <2>2
<1>2. Element(s, i) = DashDash
  <2>1. i + 1 \in i + 1..n
    BY <1>1
  <2> QED BY <1>n, <2>1 DEF Stands, Element
<1>3. /\ Stands(argv, p, r) /\ Looking(p) /\ p.index = i + 1 /\ p.argv = s.argv
      /\ p.first = s.first /\ p.last = s.last /\ p.argc = n /\ How(p) = How(s)
      /\ p.arg = s.arg
  <2>1. s.index < Len(argv)
    OBVIOUS
  <2>2. /\ Stands(argv, p, r) /\ Looking(p) /\ p.index = s.index + 1 /\ p.argv = s.argv
        /\ p.first = s.first /\ p.last = s.last /\ p.argc = s.argc /\ How(p) = How(s)
        /\ p.arg = s.arg
    BY <1>p, <2>1, AdvancedStands
  <2> QED BY <1>1, <2>2
<1>4. p.last # p.index
  <2>1. s.last \in Nat /\ s.last <= i
    BY StandsIndices
  <2> QED BY <1>1, <1>3, <2>1
<1>5. q = SkippedTo(u, n)
  <2>1. u = IF p.first = p.last THEN [p EXCEPT !.first = p.index] ELSE Exchange("rust", p)
    BY <1>4 DEF Regroup
  <2> DEFINE w == CASE p.first = p.last -> [p EXCEPT !.first = p.index]
                    [] p.first # p.last /\ p.last # p.index -> Exchange("rust", p)
                    [] OTHER -> p
  <2>2. p = [s EXCEPT !.index = @ + 1]
    BY <1>p DEF Advanced
  <2>3. s.index < s.argc /\ Element(s, s.index) = <<"-", "-">>
    BY <1>1, <1>2 DEF DashDash
  <2>4. q = [w EXCEPT !.last = s.argc, !.index = s.argc]
    BY <2>2, <2>3, Zenon DEF EndOptions
  <2> HIDE DEF u
  <2>5. w = u
    BY <1>4, <2>1
  <2> HIDE DEF w
  <2>6. q = [u EXCEPT !.last = n, !.index = n]
    BY <1>1, <2>4, <2>5
  <2> QED BY <2>6 DEF SkippedTo
<1> HIDE DEF i
<1>6. Grouped(p, u)
  BY <1>3, RegroupGroups
<1>7. Indices(u) /\ Kept(p, u)
  BY <1>3, RegroupInRange
<1> HIDE DEF u
<1>8. /\ Stands(argv, q, r) /\ How(q) = How(p) /\ q.index = n /\ q.last = n
      /\ Used(q) = Used(p) /\ Left(q) = Left(p) \o b
  <2>1. p.index <= n /\ n <= Len(argv) /\ p.index = i + 1 /\ n \in Nat
    BY <1>1, <1>3
  <2>2. /\ Stands(argv, q, r) /\ How(q) = How(p) /\ q.index = n /\ q.last = n
        /\ Used(q) = Used(p) /\ Left(q) = Left(p) \o Between(argv, p.index, n)
    <3>1. Stands(argv, p, r)
      BY <1>3
    <3> QED BY <1>5, <1>6, <1>7, <2>1, <3>1, SkippedStands
  <2> QED BY <2>1, <2>2, Zenon
<1>9. q.argc = n /\ Fields(q) /\ q.arg = s.arg
  <2>1. q.argc = n /\ Fields(q)
    BY <1>8, <1>n, StandsIndices
  <2>2. q.arg = u.arg
    BY <1>5, <1>7 DEF SkippedTo, Indices, Fields
  <2> QED BY <1>3, <1>7, <2>1, <2>2 DEF Kept
<1>10. Used(p) = Used(s) \o y /\ Left(p) = Left(s) /\ y \in Seq(Elements)
  <2>1. p.index \in s.index..Len(argv)
    BY <1>1, <1>3, <1>n DEF i
  <2>2. /\ Used(p) = Used(s) \o Between(argv, s.index, p.index) /\ Left(p) = Left(s)
        /\ Between(argv, s.index, p.index) \in Seq(Elements)
    BY <1>3, <2>1, UsedGrows
  <2> QED BY <1>3, <2>2, Zenon DEF i
<1>11. y = <<DashDash>>
  <2>1. y = <<argv[i + 1]>>
    BY <1>1, BetweenOne
  <2> QED BY <2>1 DEF i
<1>12. scan[i] = Parts(<<>>, y, b)
  BY <1>1, <1>11, <1>n, ScanDashDash DEF i
<1>13. b \in Seq(Elements)
  BY <1>1, BetweenTyped
<1> DEFINE c == Used(s)
           d == Left(s)
<1>14. c \in Seq(Elements) /\ d \in Seq(Elements)
  BY SofarTyped
<1>15. y \in Seq(Elements)
  BY <1>10
<1>16. x = Then(Parts(r, c, d), Parts(<<>>, y, b))
  BY <1>12, Zenon DEF Sofar, i
<1>17. Used(q) = c \o y /\ Left(q) = d \o b
  BY <1>8, <1>10, Zenon
<1> HIDE DEF b, c, d, y
<1>18. x = Parts(r, c \o y, d \o b)
  <2>1. PICK e : e = <<>>
    OBVIOUS
  <2>2. e \in Seq(Returned)
    BY <2>1
  <2>3. Then(Parts(r, c, d), Parts(e, y, b)) = Parts(r \o e, c \o y, d \o b)
    BY <1>1, <1>13, <1>14, <1>15, <2>2, ThenParts
  <2>4. r \o e = r
    BY <1>1, <2>1, JoinEmpty
  <2> QED BY <1>16, <2>1, <2>3, <2>4, Zenon
<1>19. x.got = r /\ x.used = Used(q) /\ x.left = Left(q)
  <2>1. x = Parts(r, Used(q), Left(q))
    BY <1>17, <1>18, Zenon
  <2> QED BY <2>1 DEF Parts
<1>20. x.left = Left(q) \o Between(argv, q.index, Len(argv))
  <2>1. Left(q) \in Seq(Elements)
    BY <1>8, SofarTyped
  <2>2. Left(q) \o Between(argv, n, n) = Left(q)
    BY <1>n, <2>1, NothingBeyond
  <2> QED BY <1>8, <1>19, <1>n, <2>2, Zenon
<1>21. /\ Finished(q).argv = q.argv
       /\ Finished(q).index = IF q.first # q.last THEN q.first ELSE q.index
  BY <1>9, FinishedIs
<1>22. Over(argv, x, Finished(q))
  <2>1. q.last = q.index
    BY <1>8
  <2> QED BY <1>8, <1>19, <1>20, <1>21, <2>1, StandsOver
<1> QED BY <1>3, <1>8, <1>9, <1>19, <1>22

-----------------------------------------------------------------------------
\* The search of next_argv ends, passes a non-option or finds an option.

\* What the search for an option comes to, when r is what was returned before
\* and x what is to be returned in all.
Ends(argv, x, r, t) == t.opt = "end" /\ t.arg = <<>> /\ x.got = r /\ Over(argv, x, t)
Passes(argv, scan, x, r, t) ==
    LET n == Append(r, Came(t))
    IN  /\ t.opt = "nonopt" /\ t.text = <<>> /\ Stands(argv, t, n) /\ Marked(t)
        /\ x = Then(Sofar(t, n), RestOf(argv, scan, t))
Finds(argv, scan, x, r, t) ==
    /\ t.opt = "found" /\ AtText(argv, t) /\ Begins(t) /\ Stands(argv, t, r) /\ Marked(t)
    /\ x = Then(Sofar(t, r), scan[t.index])

\* At the end of argv.
LEMMA EndFinishes ==
    ASSUME NEW argv \in Seq(Elements), NEW s, NEW r, Stands(argv, s, r),
           s.last = s.index \/ s.first = s.last, s.index = Len(argv), s.arg = <<>>,
           NEW scan, scan = Scan(How(s), argv), NEW x, x = Then(Sofar(s, r), scan[s.index]),
           NEW t, t = Finished(s)
    PROVE  Ends(argv, x, r, t) /\ How(t) = How(s)
<1>1. s.index \in 1..Len(argv) /\ Fields(s)
  BY StandsIndices
<1>2. argv # <<>>
  BY <1>1
<1>3. scan[s.index] = Nothing
  BY <1>2, ScanEnd
<1>4. Sofar(s, r) \in Scans /\ Left(s) \in Seq(Elements)
  BY SofarTyped
<1>5. x = Sofar(s, r)
  BY <1>3, <1>4, ThenNothing
<1>6. x.got = r /\ x.used = Used(s) /\ x.left = Left(s)
  BY <1>5 DEF Sofar, Parts
<1>7. /\ t.argv = s.argv /\ t.opt = "end" /\ t.arg = s.arg /\ How(t) = How(s)
      /\ t.index = IF s.first # s.last THEN s.first ELSE s.index
  BY <1>1, FinishedIs
<1>8. x.left = Left(s) \o Between(argv, s.index, Len(argv))
  <2>1. Left(s) \o Between(argv, Len(argv), Len(argv)) = Left(s)
    BY <1>4, NothingBeyond
  <2> QED BY <1>6, <2>1, Zenon
<1>9. Over(argv, x, t)
  BY <1>6, <1>7, <1>8, StandsOver
<1> QED BY <1>6, <1>7, <1>9 DEF Ends

\* A non-option ends the scan.
LEMMA NonOptionEnds ==
    ASSUME NEW argv \in Seq(Elements), NEW s, NEW r, Stands(argv, s, r), s.first = s.last,
           s.index < Len(argv), NonOption(argv[s.index + 1]), s.marker = "+", s.arg = <<>>,
           NEW scan, scan = Scan(How(s), argv), NEW x, x = Then(Sofar(s, r), scan[s.index]),
           NEW t, t = [s EXCEPT !.opt = "end"]
    PROVE  Ends(argv, x, r, t) /\ How(t) = How(s)
<1> DEFINE i == s.index
           b == Between(argv, i, Len(argv))
           u == Used(s)
           l == Left(s)
<1>1. /\ i \in 1..Len(argv) - 1 /\ Fields(s) /\ r \in Seq(Returned) /\ i \in Nat
      /\ i <= Len(argv) /\ Len(argv) \in Nat
  BY StandsIndices
<1>2. scan[i] = Parts(<<>>, <<>>, b)
  <2>1. How(s).marker = "+"
    BY DEF How
  <2>2. i \in 1..Len(argv) - 1
    BY <1>1
  <2> QED BY <2>1, <2>2, ScanStops
<1>3. u \in Seq(Elements) /\ l \in Seq(Elements)
  BY SofarTyped
<1>4. b \in Seq(Elements)
  <2>1. i \in Nat /\ Len(argv) \in Nat /\ i <= Len(argv) /\ Len(argv) <= Len(argv)
    BY <1>1
  <2> QED BY <2>1, BetweenElements
<1>5. x = Then(Parts(r, u, l), Parts(<<>>, <<>>, b))
  BY <1>2, Zenon DEF Sofar
<1> HIDE DEF u, l, b
<1>6. x = Parts(r, u, l \o b)
  <2>1. PICK e : e = <<>>
    OBVIOUS
  <2>2. e \in Seq(Returned) /\ e \in Seq(Elements)
    BY <2>1
  <2>3. Then(Parts(r, u, l), Parts(e, e, b)) = Parts(r \o e, u \o e, l \o b)
    BY <1>1, <1>3, <1>4, <2>2, ThenParts
  <2>4. r \o e = r /\ u \o e = u
    BY <1>1, <1>3, <2>1, JoinEmpty
  <2> QED BY <1>5, <2>1, <2>3, <2>4, Zenon
<1>7. x.got = r /\ x.used = u /\ x.left = l \o b
  <2> DEFINE m == l \o b
  <2>1. x = Parts(r, u, m)
    BY <1>6
  <2> HIDE DEF m
  <2>2. x.got = r /\ x.used = u /\ x.left = m
    BY <2>1 DEF Parts
  <2> QED BY <2>2 DEF m
<1>8. /\ t.argv = s.argv /\ t.opt = "end" /\ t.arg = s.arg /\ How(t) = How(s)
      /\ t.index = s.index
  BY <1>1 DEF Fields, How
<1>9. t.index = IF s.first # s.last THEN s.first ELSE s.index
  BY <1>8
<1>10. x.used = Used(s) /\ x.left = Left(s) \o Between(argv, s.index, Len(argv))
  BY <1>7, Zenon DEF u, l, b
<1>11. Over(argv, x, t)
  BY <1>8, <1>9, <1>10, StandsOver
<1> QED BY <1>7, <1>8, <1>11 DEF Ends

\* A non-option is returned, as an option would be.
PassedOver(s, e) == [s EXCEPT !.opt = "nonopt", !.arg = <<e>>, !.index = @ + 1]

LEMMA NonOptionPasses ==
    ASSUME NEW argv \in Seq(Elements), NEW s, NEW r, Stands(argv, s, r), Marked(s),
           s.index < Len(argv), NonOption(argv[s.index + 1]), s.marker = "-", s.text = <<>>,
           NEW scan, scan = Scan(How(s), argv), NEW x, x = Then(Sofar(s, r), scan[s.index]),
           NEW t, t = PassedOver(s, argv[s.index + 1])
    PROVE  Passes(argv, scan, x, r, t) /\ How(t) = How(s)
<1> DEFINE i == s.index
           e == argv[i + 1]
           y == <<e>>
           c == <<"nonopt", y>>
<1>1. /\ i \in 1..Len(argv) - 1 /\ Fields(s) /\ r \in Seq(Returned) /\ i \in Nat
      /\ i < Len(argv) /\ Len(argv) \in Nat /\ i + 1 \in 1..Len(argv) /\ i + 1 \in i..Len(argv)
  BY StandsIndices
<1>2. e \in Elements /\ argv # <<>>
  BY <1>1
<1>3. scan[i] = Then(Parts(<<c>>, <<e>>, <<>>), scan[i + 1])
  <2>1. How(s).marker = "-"
    BY DEF How
  <2>2. i \in 1..Len(argv) - 1
    BY <1>1
  <2> QED BY <2>1, <2>2, ScanReturns
<1>4. y \in Seq(Elements)
  BY <1>2
<1>5. /\ Fields(t) /\ t.argc = s.argc /\ t.longs = s.longs /\ t.first = s.first
      /\ t.last = s.last /\ t.argv = s.argv /\ How(t) = How(s)
      /\ t.opt = "nonopt" /\ t.arg = y /\ t.index = i + 1 /\ t.text = <<>>
  BY <1>1 DEF PassedOver, Fields, How
<1>6. Came(t) = c /\ c \in Returned
  <2>1. Came(t) = c
    BY <1>5 DEF Came
  <2> HIDE DEF y
  <2>2. c \in Returned
    BY <1>4 DEF Returned, Codes
  <2> QED BY <2>1, <2>2
<1>7. Between(argv, i, i + 1) = y
  BY <1>1, BetweenOne
<1>8. Done(argv, s, t) = Parts(<<c>>, y, <<>>)
  <2> HIDE DEF y, c, i
  <2> QED BY <1>5, <1>6, <1>7, Zenon DEF Done, i
<1>9. RestOf(argv, scan, t) = scan[i + 1]
  BY <1>5 DEF RestOf
<1>10. Same(s, t)
  BY <1>5 DEF Same, Passed
<1>11. t.text \in Elements
  <2>1. <<>> \in Elements
    BY DEF Elements
  <2> QED BY <1>5, <2>1, Zenon
<1>12. Follows(argv, scan, s, t, scan[i])
  <2>1. scan[i] = Then(Done(argv, s, t), RestOf(argv, scan, t))
    BY <1>3, <1>8, <1>9, Zenon
  <2>2. t.index \in s.index..Len(argv) /\ t.text = <<>> /\ Came(t) \in Returned
    BY <1>1, <1>5, <1>6
  <2> HIDE DEF i, e, y, c
  <2> QED BY <1>10, <1>11, <2>1, <2>2, Zenon DEF Follows
<1>13. RestOf(argv, scan, t) \in Scans
  BY <1>1, <1>2, <1>9, ScanTyped
<1> HIDE DEF e, y, c
<1>14. x = Then(Sofar(t, Append(r, Came(t))), RestOf(argv, scan, t))
  BY <1>12, <1>13, DecodedTold
<1>15. Stands(argv, t, Append(r, Came(t))) /\ Marked(t)
  BY <1>12, DecodedStands
<1> QED BY <1>5, <1>14, <1>15 DEF Passes

\* The text of an option is not empty.
LEMMA TextIsThere ==
    ASSUME NEW e \in Elements, ~NonOption(e), e # DashDash, NEW n \in {1, 2},
           n = 2 => At(e, 1) = "-"
    PROVE  Skip(e, n) \in Elements /\ Skip(e, n) # <<>>
<1>1. Len(e) \in Nat
  BY DEF Elements
<1>2. At(e, 0) = "-" /\ Len(e) # 1
  BY DEF NonOption
<1>3. Len(e) # 0
  BY <1>2 DEF At
<1>4. Len(e) > 1
  <2>1. PICK k \in Nat : k = Len(e)
    BY <1>1
  <2>2. k # 0 /\ k # 1
    BY <1>2, <1>3, <2>1
  <2>3. k > 1
    BY <2>2
  <2> QED BY <2>1, <2>3
<1>5. At(e, 0) = e[1] /\ At(e, 1) = e[2]
  BY <1>1, <1>4 DEF At
<1>6. n < Len(e)
  <2>1. CASE n = 1
    BY <1>4, <2>1
  <2>2. CASE n = 2
    <3> SUFFICES ASSUME Len(e) = 2 PROVE FALSE
      BY <1>1, <1>4, <2>2
    <3>1. e[1] = "-" /\ e[2] = "-"
      BY <1>2, <1>5, <2>2
    <3>2. e \in Seq(Chars) /\ DashDash \in Seq(Chars) /\ Len(DashDash) = 2
      BY WGetoptAssumption DEF Elements, DashDash
    <3>3. DashDash[1] = "-" /\ DashDash[2] = "-"
      BY DEF DashDash
    <3>4. \A k \in 1..2 : e[k] = DashDash[k]
      BY <3>1, <3>3
    <3>5. e = DashDash
      <4> DEFINE d == DashDash
      <4>1. e \in Seq(Chars) /\ d \in Seq(Chars) /\ Len(e) = Len(d)
            /\ \A k \in 1..Len(e) : e[k] = d[k]
        BY <3>2, <3>4
      <4> HIDE DEF d
      <4>2. e = d
        BY <4>1, SameElementwise
      <4> QED BY <4>2 DEF d
    <3> QED BY <3>5
  <2> QED BY <2>1, <2>2
<1>7. n \in Nat /\ n <= Len(e)
  BY <1>1, <1>6
<1>8. Skip(e, n) \in Elements /\ Len(Skip(e, n)) = Len(e) - n
  BY <1>7, SkipTyped
<1>9. Len(Skip(e, n)) # 0
  BY <1>1, <1>6, <1>7, <1>8
<1>10. Len(<<>>) = 0
  OBVIOUS
<1> QED BY <1>8, <1>9, <1>10

\* An option is decoded from its beginning, with nothing told of it.
LEMMA OptionFound ==
    ASSUME NEW argv \in Seq(Elements), NEW s, NEW r, Stands(argv, s, r), Marked(s), Looking(s),
           s.index < Len(argv), ~NonOption(argv[s.index + 1]), argv[s.index + 1] # DashDash,
           s.arg = <<>>, NEW scan, NEW x, x = Then(Sofar(s, r), scan[s.index]),
           NEW t, t = FoundOption(s)
    PROVE  Finds(argv, scan, x, r, t) /\ How(t) = How(s)
<1> DEFINE i == s.index
           e == argv[i + 1]
           n == IF s.longs # <<>> /\ At(e, 1) = "-" THEN 2 ELSE 1
<1>1. /\ i \in Nat /\ i < Len(argv) /\ Len(argv) \in Nat /\ s.argc = Len(argv) /\ Fields(s)
  BY StandsIndices
<1>2. i + 1 \in 1..Len(argv) /\ i + 1 \in i + 1..Len(argv)
  BY <1>1
<1>3. e \in Elements /\ Element(s, i) = e
  BY <1>2 DEF Stands, Element
<1>4. ~NonOption(e) /\ e # DashDash
  OBVIOUS
<1>5. t = [s EXCEPT !.opt = "found", !.text = Skip(e, n)]
  BY <1>3 DEF FoundOption
<1> HIDE DEF e
<1>6. n \in {1, 2} /\ (n = 2 => At(e, 1) = "-")
  OBVIOUS
<1>7. s.longs # <<>> /\ At(e, 1) = "-" => n = 2
  OBVIOUS
<1>a. ~(s.longs # <<>> /\ At(e, 1) = "-") => n = 1
  OBVIOUS
<1> HIDE DEF n
<1>8. Skip(e, n) \in Elements /\ Skip(e, n) # <<>>
  BY <1>3, <1>4, <1>6, TextIsThere
<1>9. /\ Fields(t) /\ t.argv = s.argv /\ t.argc = s.argc /\ t.index = i /\ t.first = s.first
      /\ t.last = s.last /\ t.longs = s.longs /\ t.arg = s.arg /\ t.text = Skip(e, n)
      /\ t.opt = "found" /\ How(t) = How(s) /\ t.marker = s.marker
  BY <1>1, <1>5 DEF Fields, How
<1>10. Indices(t) /\ InOrder(t) /\ t.last <= t.index /\ Looking(t)
  <2>1. Indices(s) /\ InOrder(s) /\ s.last <= s.index
    BY DEF Stands
  <2>2. s.opt # "end"
    BY DEF Looking
  <2> QED BY <1>9, <2>1, <2>2 DEF Indices, InOrder, Looking
<1>11. Stands(argv, t, r) /\ Marked(t)
  <2>1. Marked(t)
    BY <1>9, Zenon DEF Marked, Permutes
  <2>2. Stands(argv, t, r)
    BY <1>9, <1>10 DEF Stands
  <2> QED BY <2>1, <2>2
<1>12. AtText(argv, t)
  <2>1. Decoding(t)
    BY <1>1, <1>9, <1>10 DEF Decoding
  <2>2. \A k \in t.index + 1..Len(argv) : t.argv[k] = argv[k]
    BY <1>11 DEF Stands
  <2> QED BY <1>1, <1>8, <1>9, <2>1, <2>2 DEF AtText
<1>13. Begins(t)
  <2>1. Element(t, t.index) = e
    BY <1>3, <1>9 DEF Element
  <2>2. t.text = Skip(e, IF t.longs # <<>> /\ At(e, 1) = "-" THEN 2 ELSE 1)
    BY <1>7, <1>9, <1>a
  <2> QED BY <1>4, <2>1, <2>2, Zenon DEF Begins
<1>14. Sofar(t, r) = Sofar(s, r)
  BY <1>9 DEF Sofar, Used, Left
<1>15. x = Then(Sofar(t, r), scan[t.index])
  BY <1>9, <1>14, Zenon DEF i
<1> QED BY <1>9, <1>11, <1>12, <1>13, <1>15 DEF Finds

\* next_argv, whatever it comes to, keeps to what there is to tell.
LEMMA NextArgvTold ==
    ASSUME NEW argv \in Seq(Elements), NEW s, NEW r, Stands(argv, s, r), Marked(s), Looking(s),
           s.text = <<>>, s.arg = <<>>, NEW scan, scan = Scan(How(s), argv),
           NEW x, x = Then(Sofar(s, r), scan[s.index]), NEW t, t = NextArgv("rust", s)
    PROVE  /\ How(t) = How(s)
           /\ \/ Ends(argv, x, r, t)
              \/ Passes(argv, scan, x, r, t)
              \/ Finds(argv, scan, x, r, t)
<1>p. PICK p : p = Permuted("rust", s)
  OBVIOUS
<1>q. PICK q : q = EndOptions("rust", p)
  OBVIOUS
<1>1. /\ Stands(argv, p, r) /\ How(p) = How(s) /\ Marked(p)
      /\ Permutes(p) => p.last = p.index
      /\ Then(Sofar(s, r), scan[s.index]) = Then(Sofar(p, r), scan[p.index])
      /\ p.index < p.argc /\ NonOption(Element(p, p.index)) => ~Permutes(p)
  BY <1>p, PermutedTold
<1>2. Looking(p) /\ p.text = <<>> /\ p.arg = <<>>
  BY <1>p, PermutedLooks DEF Kept
<1>3. x = Then(Sofar(p, r), scan[p.index]) /\ scan = Scan(How(p), argv)
  BY <1>1
<1>4. /\ p.index \in Nat /\ p.argc = Len(argv) /\ p.index <= Len(argv) /\ Len(argv) \in Nat
  BY <1>1, StandsIndices
<1>5. t = IF q.index = q.argc THEN Finished(q)
          ELSE IF NonOption(Element(q, q.index)) THEN UnpermutedNonOption(q)
          ELSE FoundOption(q)
  BY <1>p, <1>q DEF NextArgv
<1>6. p.index < Len(argv) => Element(p, p.index) = argv[p.index + 1]
  <2> SUFFICES ASSUME p.index < Len(argv) PROVE Element(p, p.index) = argv[p.index + 1]
    OBVIOUS
  <2>1. p.index + 1 \in p.index + 1..Len(argv)
    BY <1>4
  <2> QED BY <1>1, <2>1 DEF Stands, Element
<1>7. CASE p.index < Len(argv) /\ argv[p.index + 1] = DashDash
  <2>1. /\ q.index = q.argc /\ q.arg = p.arg /\ How(q) = How(p) /\ Fields(q)
        /\ x.got = r /\ Over(argv, x, Finished(q))
    BY <1>q, <1>1, <1>2, <1>3, <1>7, EndOptionsOver
  <2>2. t = Finished(q)
    BY <1>5, <2>1
  <2>3. t.opt = "end" /\ t.arg = q.arg /\ How(t) = How(q)
    BY <2>1, <2>2, FinishedIs
  <2> QED BY <1>1, <1>2, <2>1, <2>2, <2>3 DEF Ends
<1>8. CASE ~(p.index < Len(argv) /\ argv[p.index + 1] = DashDash)
  <2>1. q = p
    BY <1>q, <1>4, <1>6, <1>8 DEF EndOptions, DashDash
  <2>2. CASE p.index = Len(argv)
    <3>1. t = Finished(p)
      BY <1>4, <1>5, <2>1, <2>2
    <3>2. p.last = p.index \/ p.first = p.last
      BY <1>1, Zenon DEF Marked
    <3>3. Ends(argv, x, r, t) /\ How(t) = How(p)
      BY <1>1, <1>2, <1>3, <2>2, <3>1, <3>2, EndFinishes
    <3> QED BY <1>1, <3>3
  <2>3. CASE p.index < Len(argv) /\ NonOption(argv[p.index + 1])
    <3>1. ~Permutes(p) /\ t = UnpermutedNonOption(p)
      BY <1>1, <1>4, <1>5, <1>6, <2>1, <2>3
    <3>2. p.first = p.last /\ p.marker \in {"+", "-"}
      BY <1>1, <3>1, Zenon DEF Marked, Markers, Permutes
    <3>3. CASE p.marker = "+"
      <4>1. t = [p EXCEPT !.opt = "end"]
        BY <3>1, <3>3 DEF UnpermutedNonOption
      <4>2. Ends(argv, x, r, t) /\ How(t) = How(p)
        BY <1>1, <1>2, <1>3, <2>3, <3>2, <3>3, <4>1, NonOptionEnds
      <4> QED BY <1>1, <4>2
    <3>4. CASE p.marker = "-"
      <4>1. t = PassedOver(p, argv[p.index + 1])
        BY <1>6, <2>3, <3>1, <3>4 DEF UnpermutedNonOption, PassedOver
      <4>2. Passes(argv, scan, x, r, t) /\ How(t) = How(p)
        BY <1>1, <1>2, <1>3, <2>3, <3>4, <4>1, NonOptionPasses
      <4> QED BY <1>1, <4>2
    <3> QED BY <3>2, <3>3, <3>4
  <2>4. CASE p.index < Len(argv) /\ ~NonOption(argv[p.index + 1])
    <3>1. t = FoundOption(p)
      BY <1>4, <1>5, <1>6, <2>1, <2>4
    <3>2. argv[p.index + 1] # DashDash
      BY <1>8, <2>4
    <3>3. Finds(argv, scan, x, r, t) /\ How(t) = How(p)
      BY <1>1, <1>2, <1>3, <2>4, <3>1, <3>2, OptionFound
    <3> QED BY <1>1, <3>3
  <2> QED BY <1>4, <2>2, <2>3, <2>4
<1> QED BY <1>7, <1>8

-----------------------------------------------------------------------------
\* A call goes on from what the calls before it told.

\* Between the calls, of the scanner s of argv when r is what they returned.
NotBegun(argv, s, r) ==
    /\ s.index = 0 /\ s.opt # "end" /\ r = <<>>
    /\ s.argv = argv /\ s.argc = Len(argv) /\ s.marker \in Markers
Underway(argv, s, r) ==
    LET scan == Scan(How(s), argv)
    IN  /\ s.index > 0 /\ s.opt # "end" /\ Stands(argv, s, r) /\ Marked(s)
        /\ scan[1] = Then(Sofar(s, r), RestOf(argv, scan, s))
        /\ s.text \in Elements /\ (s.text # <<>> => ~TryLong("rust", s))
AllTold(argv, s, r) ==
    LET scan == Scan(How(s), argv)
    IN  /\ s.opt = "end" /\ r = Append(scan[1].got, <<"end", None>>)
        /\ Over(argv, scan[1], s)
Tells(argv, s, r) == NotBegun(argv, s, r) \/ Underway(argv, s, r) \/ AllTold(argv, s, r)

\* In the midst of a call.
Midway(argv, scan, s, r) ==
    /\ Looking(s) /\ s.arg = <<>> /\ Stands(argv, s, r) /\ Marked(s)
    /\ scan[1] = Then(Sofar(s, r), RestOf(argv, scan, s))
    /\ s.text \in Elements /\ (s.text # <<>> => ~TryLong("rust", s))

\* The first call has everything to tell.
LEMMA InitializedStands ==
    ASSUME NEW argv \in Seq(Elements), argv # <<>>, NEW s, NEW r, Ready(s), NotBegun(argv, s, r),
           NEW scan, scan = Scan(How(s), argv), NEW b, b = Started(s), Looking(b)
    PROVE  Midway(argv, scan, b, r) /\ How(b) = How(s)
<1>1. b = [s EXCEPT !.first = 1, !.last = 1, !.index = 1, !.text = <<>>, !.arg = <<>>]
  BY DEF Initialize, Ready, Indices, Fields, Started, NotBegun
<1>2. /\ Fields(b) /\ b.first = 1 /\ b.last = 1 /\ b.index = 1 /\ b.text = <<>> /\ b.arg = <<>>
      /\ b.argc = s.argc /\ b.argv = s.argv /\ b.marker = s.marker /\ How(b) = How(s)
  BY <1>1 DEF Ready, Indices, Fields, How
<1>3. b.argv = argv /\ b.argc = Len(argv) /\ b.marker \in Markers
  BY <1>2 DEF NotBegun
<1>4. r = <<>> /\ r \in Seq(Returned)
  <2>1. r = <<>>
    BY DEF NotBegun
  <2> QED BY <2>1
<1>5. Stands(argv, b, r)
  <2>1. Indices(b) /\ InOrder(b)
    BY DEF Looking
  <2>2. b.last <= b.index
    BY <1>2
  <2> QED BY <1>3, <1>4, <2>1, <2>2 DEF Stands
<1>6. Marked(b)
  BY <1>2, <1>3 DEF Marked
<1>7. Sofar(b, r) = Nothing
  <2>1. Between(argv, 1, 1) = <<>>
    BY BetweenNone
  <2>2. <<>> \o <<>> = <<>>
    OBVIOUS
  <2>3. Used(b) = <<>> /\ Left(b) = <<>>
    BY <1>2, <1>3, <2>1, <2>2, Zenon DEF Used, Left
  <2> QED BY <1>4, <2>3, Zenon DEF Sofar, Nothing
<1>8. RestOf(argv, scan, b) = scan[1]
  BY <1>2 DEF RestOf
<1>9. scan[1] \in Scans
  <2>1. 1 \in 1..Len(argv)
    OBVIOUS
  <2> QED BY <2>1, ScanTyped
<1>10. scan[1] = Then(Sofar(b, r), RestOf(argv, scan, b))
  BY <1>7, <1>8, <1>9, ThenNothing
<1>11. b.text \in Elements
  <2>1. <<>> \in Elements
    BY DEF Elements
  <2> QED BY <1>2, <2>1, Zenon
<1> QED BY <1>2, <1>5, <1>6, <1>10, <1>11 DEF Midway

\* A later one goes on where the last one stopped.
LEMMA StartedMidway ==
    ASSUME NEW argv \in Seq(Elements), argv # <<>>, NEW s, NEW r, Ready(s), Callable(s),
           Tells(argv, s, r), NEW scan, scan = Scan(How(s), argv), NEW b, b = Started(s)
    PROVE  Midway(argv, scan, b, r) /\ How(b) = How(s)
<1>1. Looking(b)
  BY StartedLooks
<1>2. ~AllTold(argv, s, r)
  BY DEF AllTold, Callable
<1>3. CASE NotBegun(argv, s, r)
  BY <1>1, <1>3, InitializedStands
<1>4. CASE Underway(argv, s, r)
  <2>1. s.index # 0
    BY <1>4 DEF Underway
  <2>2. b = [s EXCEPT !.arg = <<>>]
    BY <2>1 DEF Started
  <2>3. /\ b.first = s.first /\ b.last = s.last /\ b.index = s.index /\ b.text = s.text
        /\ b.argc = s.argc /\ b.argv = s.argv /\ b.marker = s.marker /\ b.longs = s.longs
        /\ b.arg = <<>> /\ How(b) = How(s)
    BY <2>2 DEF Ready, Indices, Fields, How
  <2>4. /\ Stands(argv, s, r) /\ Marked(s)
        /\ scan[1] = Then(Sofar(s, r), RestOf(argv, scan, s))
        /\ s.text \in Elements /\ (s.text # <<>> => ~TryLong("rust", s))
    BY <1>4 DEF Underway
  <2>5. Stands(argv, b, r)
    <3>1. Indices(b) /\ InOrder(b)
      BY <1>1 DEF Looking
    <3> QED BY <2>3, <2>4, <3>1 DEF Stands
  <2>6. Marked(b)
    BY <2>3, <2>4, Zenon DEF Marked, Permutes
  <2>7. Sofar(b, r) = Sofar(s, r) /\ RestOf(argv, scan, b) = RestOf(argv, scan, s)
    BY <2>3, Zenon DEF Sofar, Used, Left, RestOf, TextOf
  <2>8. TryLong("rust", b) <=> TryLong("rust", s)
    BY <2>3 DEF TryLong, Element
  <2> QED BY <1>1, <2>3, <2>4, <2>5, <2>6, <2>7, <2>8 DEF Midway
<1> QED BY <1>2, <1>3, <1>4 DEF Tells

\* What is decoded is told.
LEMMA DecodedUnderway ==
    ASSUME NEW argv \in Seq(Elements), argv # <<>>, NEW u, NEW r, Stands(argv, u, r), Marked(u),
           NEW scan, scan = Scan(How(u), argv), NEW t, Called(t), ~Strays(t),
           NEW rest, Follows(argv, scan, u, t, rest), scan[1] = Then(Sofar(u, r), rest)
    PROVE  Underway(argv, t, Append(r, Came(t)))
<1>1. Same(u, t) /\ Came(t) \in Returned /\ t.text \in Elements
      /\ (t.text # <<>> => ~TryLong("rust", t))
  BY DEF Follows
<1>2. How(t) = How(u)
  BY <1>1 DEF Same
<1>3. Stands(argv, t, Append(r, Came(t))) /\ Marked(t)
  BY DecodedStands
<1>4. t.index \in 1..Len(argv) /\ t.argc = Len(argv)
  BY <1>3, StandsIndices
<1>5. t.text # <<>> => t.index < Len(argv)
  <2>1. Ready(t) /\ t.index > 0
    BY DEF Called
  <2> QED BY <1>4, <2>1 DEF Ready
<1>6. \A i \in 1..Len(argv) : scan[i] \in Scans
  BY ScanTyped
<1>7. RestOf(argv, scan, t) \in Scans
  BY <1>1, <1>4, <1>5, <1>6, RestTyped
<1>8. scan[1] = Then(Sofar(t, Append(r, Came(t))), RestOf(argv, scan, t))
  BY <1>7, DecodedTold
<1>9. t.opt # "end"
  <2>1. t.opt \in Codes
    <3> DEFINE c == t.opt
               d == t.arg
    <3>1. <<c, d>> \in Codes \X Seq(Elements)
      BY <1>1 DEF Came, Returned
    <3> HIDE DEF c, d
    <3>2. c \in Codes
      BY <3>1
    <3> QED BY <3>2 DEF c
  <2>2. "end" \notin Codes
    BY WGetoptAssumption DEF Codes
  <2> QED BY <2>1, <2>2
<1>10. t.index > 0
  BY <1>4
<1>11. scan = Scan(How(t), argv)
  BY <1>2
<1> QED BY <1>1, <1>3, <1>8, <1>9, <1>10, <1>11, Zenon DEF Underway

\* One call tells one thing more, and the last one that there are no more.
LEMMA CallTells ==
    ASSUME NEW argv \in Seq(Elements), argv # <<>>, NEW s, NEW r, Ready(s), Callable(s),
           Tells(argv, s, r), NEW t, t = Call("rust", s), ~Strays(t)
    PROVE  Tells(argv, t, Append(r, Came(t)))
<1>b. PICK b : b = Started(s)
  OBVIOUS
<1>u. PICK u : u = Sought("rust", b)
  OBVIOUS
<1>s. PICK scan : scan = Scan(How(s), argv)
  OBVIOUS
<1>1. t = IF u.opt = "found" THEN Decode("rust", u) ELSE u
  BY <1>b, <1>u, CallParts
<1>2. Called(t)
  BY CallCalled
<1>3. Midway(argv, scan, b, r) /\ How(b) = How(s)
  BY <1>b, <1>s, StartedMidway
<1>4. /\ Looking(b) /\ b.arg = <<>> /\ Stands(argv, b, r) /\ Marked(b)
      /\ scan[1] = Then(Sofar(b, r), RestOf(argv, scan, b)) /\ scan = Scan(How(b), argv)
      /\ b.text \in Elements /\ (b.text # <<>> => ~TryLong("rust", b))
  BY <1>s, <1>3 DEF Midway
<1>5. CASE b.text = <<>>
  <2>1. u = NextArgv("rust", b)
    BY <1>u, <1>5 DEF Sought
  <2>2. scan[1] = Then(Sofar(b, r), scan[b.index])
    BY <1>4, <1>5 DEF RestOf
  <2>3. PICK x : x = scan[1]
    OBVIOUS
  <2>4. /\ How(u) = How(b)
        /\ \/ Ends(argv, x, r, u)
           \/ Passes(argv, scan, x, r, u)
           \/ Finds(argv, scan, x, r, u)
    BY <1>4, <1>5, <2>1, <2>2, <2>3, NextArgvTold
  <2>5. CASE Ends(argv, x, r, u)
    <3>1. u.opt = "end" /\ u.arg = <<>> /\ x.got = r /\ Over(argv, x, u)
      BY <2>5 DEF Ends
    <3>2. t = u
      BY <1>1, <3>1
    <3>3. Came(t) = <<"end", None>>
      BY <3>1, <3>2 DEF Came, None
    <3>4. AllTold(argv, t, Append(r, Came(t)))
      BY <1>4, <2>3, <2>4, <3>1, <3>2, <3>3, Zenon DEF AllTold
    <3> QED BY <3>4 DEF Tells
  <2>6. CASE Passes(argv, scan, x, r, u)
    <3>1. /\ u.opt = "nonopt" /\ u.text = <<>> /\ Stands(argv, u, Append(r, Came(u))) /\ Marked(u)
          /\ x = Then(Sofar(u, Append(r, Came(u))), RestOf(argv, scan, u))
      BY <2>6, Zenon DEF Passes
    <3>2. t = u
      BY <1>1, <3>1
    <3>3. t.index > 0 /\ t.opt # "end"
      BY <1>2, <3>1, <3>2 DEF Called
    <3>4. t.text \in Elements /\ ~(t.text # <<>>)
      <4>1. <<>> \in Elements
        BY DEF Elements
      <4> QED BY <3>1, <3>2, <4>1, Zenon
    <3>5. scan = Scan(How(t), argv)
      BY <1>4, <2>4, <3>2
    <3>6. Underway(argv, t, Append(r, Came(t)))
      BY <2>3, <3>1, <3>2, <3>3, <3>4, <3>5, Zenon DEF Underway
    <3> QED BY <3>6 DEF Tells
  <2>7. CASE Finds(argv, scan, x, r, u)
    <3>1. /\ u.opt = "found" /\ AtText(argv, u) /\ Begins(u) /\ Stands(argv, u, r) /\ Marked(u)
          /\ x = Then(Sofar(u, r), scan[u.index])
      BY <2>7 DEF Finds
    <3>2. t = Decode("rust", u)
      BY <1>1, <3>1
    <3>3. scan = Scan(How(u), argv)
      BY <1>4, <2>4
    <3>4. Follows(argv, scan, u, t, scan[u.index])
      BY <3>1, <3>2, <3>3, BeginsFollows
    <3>5. scan[1] = Then(Sofar(u, r), scan[u.index])
      BY <2>3, <3>1
    <3>6. Underway(argv, t, Append(r, Came(t)))
      BY <1>2, <3>1, <3>3, <3>4, <3>5, DecodedUnderway
    <3> QED BY <3>6 DEF Tells
  <2> QED BY <2>4, <2>5, <2>6, <2>7
<1>6. CASE b.text # <<>>
  <2>1. b.index < b.argc
    BY <1>6, <1>b, StartedLooks
  <2>2. u.opt = "found" /\ Decoding(u) /\ u = [b EXCEPT !.opt = "found"]
    BY <1>4, <1>6, <1>u, <2>1, TextSought
  <2>3. /\ u.first = b.first /\ u.last = b.last /\ u.index = b.index /\ u.text = b.text
        /\ u.argc = b.argc /\ u.argv = b.argv /\ u.marker = b.marker /\ u.longs = b.longs
        /\ u.arg = b.arg /\ How(u) = How(b)
    BY <1>4, <2>2 DEF Looking, Indices, Fields, How
  <2>4. Stands(argv, u, r)
    <3>1. Indices(u) /\ InOrder(u)
      BY <2>2 DEF Decoding, Looking
    <3> QED BY <1>4, <2>3, <3>1 DEF Stands
  <2>5. Marked(u)
    BY <1>4, <2>3, Zenon DEF Marked, Permutes
  <2>6. ~TryLong("rust", u)
    BY <1>4, <1>6, <2>3 DEF TryLong, Element
  <2>7. AtText(argv, u)
    <3>1. u.argc = Len(argv) /\ \A k \in u.index + 1..Len(argv) : u.argv[k] = argv[k]
      BY <2>4 DEF Stands
    <3> QED BY <1>4, <1>6, <2>2, <2>3, <3>1 DEF AtText
  <2>8. scan = Scan(How(u), argv)
    BY <1>4, <2>3
  <2>9. \A i \in 1..Len(argv) : scan[i] \in Scans
    BY <2>8, ScanTyped
  <2>10. t = Decode("rust", u)
    BY <1>1, <2>2
  <2>11. Follows(argv, scan, u, t, TextOf(argv, scan, u))
    BY <2>6, <2>7, <2>9, <2>10, LaterFollows
  <2>12. scan[1] = Then(Sofar(u, r), TextOf(argv, scan, u))
    <3>1. Sofar(u, r) = Sofar(b, r) /\ TextOf(argv, scan, u) = TextOf(argv, scan, b)
      BY <2>3, Zenon DEF Sofar, Used, Left, TextOf
    <3>2. RestOf(argv, scan, b) = TextOf(argv, scan, b)
      BY <1>6 DEF RestOf
    <3> QED BY <1>4, <3>1, <3>2, Zenon
  <2>13. Underway(argv, t, Append(r, Came(t)))
    BY <1>2, <2>4, <2>5, <2>8, <2>11, <2>12, DecodedUnderway
  <2> QED BY <2>13 DEF Tells
<1> QED BY <1>5, <1>6

-----------------------------------------------------------------------------
\* Between the calls, until Rust strays.
AllTells == /\ given \in Argvs
            /\ strayed["rust"] \/ Tells(given, g["rust"], got)

LEMMA GivenTyped ==
    ASSUME NEW argv \in Argvs
    PROVE  argv \in Seq(Elements) /\ argv # <<>>
BY WGetoptAssumption

\* Every call starts from such a scanner.
LEMMA InitTells == Init => AllTells
<1> SUFFICES ASSUME Init PROVE AllTells
  OBVIOUS
<1>1. given \in Argvs /\ got = <<>>
  BY DEF Init
<1>2. PICK marker \in Markers, colon \in BOOLEAN, longs \in {<<>>, LongTable} :
        g = [v \in Versions |-> New(given, marker, colon, longs)]
  BY DEF Init
<1>3. g["rust"] = New(given, marker, colon, longs)
  BY <1>2 DEF Versions
<1> DEFINE s == g["rust"]
<1>4. /\ s.index = 0 /\ s.opt = "none" /\ s.argv = given /\ s.argc = Len(given)
      /\ s.marker = marker
  BY <1>3 DEF New
<1> HIDE DEF s
<1>5. NotBegun(given, s, got)
  BY <1>1, <1>4 DEF NotBegun
<1> QED BY <1>1, <1>5 DEF AllTells, Tells, s

LEMMA NextTells == AllReady /\ AllTells /\ [Next]_vars => AllTells'
<1> SUFFICES ASSUME AllReady, AllTells, [Next]_vars PROVE AllTells'
  OBVIOUS
<1>1. CASE NextOpt
  <2>1. given' = given /\ given \in Argvs
    BY <1>1 DEF NextOpt, AllTells
  <2> SUFFICES ASSUME ~strayed'["rust"] PROVE Tells(given, g'["rust"], got')
    BY <2>1 DEF AllTells
  <2> DEFINE s == g["rust"]
             t == g'["rust"]
  <2>2. /\ Callable(s) /\ t = Call("rust", s) /\ got' = Append(got, <<t.opt, t.arg>>)
        /\ ~strayed["rust"] /\ ~Strays(t)
    BY <1>1 DEF NextOpt, Versions
  <2>3. Ready(s)
    BY <2>2 DEF AllReady, Versions
  <2>4. Tells(given, s, got)
    BY <2>2 DEF AllTells
  <2>5. got' = Append(got, Came(t))
    BY <2>2 DEF Came
  <2>6. given \in Seq(Elements) /\ given # <<>>
    BY <2>1, GivenTyped
  <2> HIDE DEF s, t
  <2>7. Tells(given, t, Append(got, Came(t)))
    BY <2>2, <2>3, <2>4, <2>6, CallTells
  <2> QED BY <2>5, <2>7 DEF t
<1>2. CASE UNCHANGED vars
  BY <1>2 DEF AllTells, vars
<1> QED BY <1>1, <1>2 DEF Next

\* What was returned first is a prefix of what is returned in all.
LEMMA PrefixIs ==
    ASSUME NEW S, NEW x \in Seq(S), NEW y \in Seq(S), NEW e \in S
    PROVE  /\ IsPrefix(x, Append(x \o y, e))
           /\ IsPrefix(<<>>, Append(x, e)) /\ IsPrefix(x, x)
BY DEF IsPrefix

\* What is told so far begins what is to be returned.
LEMMA TellsReturns == AllReady /\ AllTells => ReturnsOptions
<1> SUFFICES ASSUME AllReady, AllTells, ~strayed["rust"],
                    NEW self, self = g["rust"], NEW scan, scan = Scan(How(self), given)[1]
             PROVE  /\ IsPrefix(got, Append(scan.got, <<"end", None>>))
                    /\ self.opt = "end" =>
                          /\ self.argv = <<given[1]>> \o scan.used \o scan.left
                          /\ self.index = 1 + Len(scan.used)
  BY DEF ReturnsOptions
<1> DEFINE T == Returned \cup {<<"end", None>>}
           e == <<"end", None>>
<1>1. given \in Seq(Elements) /\ given # <<>> /\ Tells(given, self, got)
  BY GivenTyped DEF AllTells
<1>2. scan \in Scans
  <2>1. 1 \in 1..Len(given)
    BY <1>1
  <2> QED BY <1>1, <2>1, ScanTyped
<1>3. scan.got \in Seq(Returned) /\ e \in T
  BY <1>2, ScanParts
<1>4. scan.got \in Seq(T)
  BY <1>3
<1> HIDE DEF T, e
<1>5. CASE NotBegun(given, self, got)
  <2>1. got = <<>> /\ self.opt # "end"
    BY <1>5 DEF NotBegun
  <2>2. IsPrefix(<<>>, Append(scan.got, e))
    BY <1>3, <1>4, PrefixIs
  <2> QED BY <2>1, <2>2 DEF e
<1>6. CASE Underway(given, self, got)
  <2> DEFINE a == Scan(How(self), given)
             z == RestOf(given, a, self)
  <2>1. /\ self.opt # "end" /\ Stands(given, self, got) /\ self.text \in Elements
        /\ scan = Then(Sofar(self, got), z)
    BY <1>6, Zenon DEF Underway
  <2>2. self.index \in 1..Len(given) /\ self.argc = Len(given) /\ got \in Seq(Returned)
    BY <2>1, StandsIndices
  <2>3. self.text # <<>> => self.index < Len(given)
    <3>1. Ready(self) /\ self.index > 0
      BY <2>2 DEF AllReady, Versions
    <3> QED BY <2>2, <3>1 DEF Ready
  <2>4. \A i \in 1..Len(given) : a[i] \in Scans
    BY <1>1, ScanTyped
  <2>5. z \in Scans
    BY <1>1, <2>1, <2>2, <2>3, <2>4, RestTyped
  <2> HIDE DEF z
  <2>6. Sofar(self, got) \in Scans
    BY <1>1, <2>1, SofarTyped
  <2>7. scan.got = got \o z.got
    <3>1. scan.got = Sofar(self, got).got \o z.got
      <4> DEFINE w == Sofar(self, got)
      <4>1. w \in Scans /\ z \in Scans
        BY <2>5, <2>6
      <4>2. scan = Then(w, z)
        BY <2>1
      <4> HIDE DEF w
      <4>3. Then(w, z).got = w.got \o z.got
        BY <4>1, ThenTyped
      <4> QED BY <4>2, <4>3, Zenon DEF w
    <3>2. Sofar(self, got).got = got
      BY DEF Sofar, Parts
    <3> QED BY <3>1, <3>2, Zenon
  <2> DEFINE y == z.got
  <2>8. got \in Seq(T) /\ y \in Seq(T)
    <3>1. y \in Seq(Returned)
      BY <2>5, ScanParts
    <3> QED BY <2>2, <3>1 DEF T
  <2> HIDE DEF y
  <2>9. IsPrefix(got, Append(got \o y, e))
    BY <1>3, <2>8, PrefixIs
  <2>10. IsPrefix(got, Append(scan.got, e))
    BY <2>7, <2>9, Zenon DEF y
  <2> QED BY <2>1, <2>10 DEF e
<1>7. CASE AllTold(given, self, got)
  <2>1. got = Append(scan.got, e) /\ Over(given, scan, self)
    BY <1>7, Zenon DEF AllTold, e
  <2>2. got \in Seq(T)
    BY <1>3, <1>4, <2>1
  <2>3. IsPrefix(got, got)
    BY <1>3, <2>2, PrefixIs
  <2> QED BY <2>1, <2>3, Zenon DEF Over, e
<1> QED BY <1>1, <1>5, <1>6, <1>7 DEF Tells

\* For every argv and every table of options, the calls return the options of
\* argv in order, each with its argument, and in the end what was used comes
\* before what was left.
THEOREM OptionsAlwaysReturned == Spec => []ReturnsOptions
<1> QED BY InitReady, NextReady, InitTells, NextTells, TellsReturns, PTL DEF Spec
=============================================================================
