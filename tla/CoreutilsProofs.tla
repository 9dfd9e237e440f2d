------------------------------ MODULE CoreutilsProofs ------------------------
(* The three versions of cat print the same for every input, every cut of it  *)
(* and all options, squeezing across a cut line excepted; and what cat.c      *)
(* prints is the listing of the whole input.                                  *)
(*                                                                            *)
(* Both versions of tr write what the sets mean for what was read, whatever   *)
(* is read at a time (from FlattenEmpty on).  Both come to Deduped: what the  *)
(* readers make of the input with the repeats of the squeezed bytes dropped,  *)
(* which can be done piece by piece.  The C gets there by a search that steps *)
(* by two and looks back, the Rust byte by byte; the table of the Rust, built *)
(* by a loop, is what the sets say of each byte.                              *)
EXTENDS MCCat, Tr, FiniteSetTheorems, SequenceTheorems, WellFoundedInduction, TLAPS

\* Types of what the versions keep; what they printed is only compared.
Types ==
    /\ TypeOK
    /\ c = [newlines |-> c.newlines, cr |-> c.cr, line |-> c.line, out |-> c.out]
    /\ r = [start |-> r.start, cr |-> r.cr, blank |-> r.blank,
            within |-> r.within, line |-> r.line, out |-> r.out]
    /\ r.start \in BOOLEAN /\ r.cr \in BOOLEAN
    /\ r.blank \in BOOLEAN /\ r.within \in BOOLEAN

LastIsText == /\ input # <<>>
              /\ input[Len(input)] # "nl" /\ ~Defers(input[Len(input)])

\* write_end is under way, or a buffer ended in it, only after a byte of text.
TextBefore ==
    ~CanWriteFast =>
        /\ r.within => LastIsText
        /\ ~r.within /\ ~r.start /\ ~r.cr => fresh /\ LastIsText

\* The same place in a line, told in the terms of each version.
SamePlace ==
    /\ r.line = c.line + 1
    /\ r.within => c.newlines = -1 /\ ~r.cr
    /\ r.cr => c.newlines = -1 /\ ~opts.nonprint /\ ~r.within
    /\ ~r.within /\ ~r.cr => (r.start <=> c.newlines >= 0)
    /\ (r.within \/ r.cr) /\ opts.squeeze => ~r.blank
    /\ ~r.within /\ ~r.cr /\ r.start /\ opts.squeeze => (r.blank <=> c.newlines >= 1)

\* C holds a carriage return back only if its look depends on what follows.
SameHeld == c.cr # "none" <=> r.cr /\ opts.ends

SameOutput == c.out = Put(r.out, r.cr /\ ~opts.ends, "cr")

Agree == /\ SameHeld /\ SameOutput
         /\ fresh => c.cr # "seen"
         /\ ~finished /\ ~CanWriteFast => SamePlace
         /\ CanWriteFast => ~r.cr

IInv == /\ Types
        /\ ~finished => TextBefore
        /\ (opts.squeeze /\ cut) \/ Agree

LEMMA InitIInv == Init => IInv
<1> SUFFICES ASSUME Init PROVE IInv
  OBVIOUS
<1> USE DEF Init
<1>1. PICK flags \in SUBSET Flags : opts = OptionsOf(flags)
  OBVIOUS
<1>2. opts \in [number : {"none", "nonempty", "all"}, squeeze : BOOLEAN,
               ends : BOOLEAN, tabs : BOOLEAN, nonprint : BOOLEAN]
  <2>1. opts = [number |-> opts.number, squeeze |-> opts.squeeze, ends |-> opts.ends,
                tabs |-> opts.tabs, nonprint |-> opts.nonprint]
    BY <1>1 DEF OptionsOf
  <2>2. opts.number \in {"none", "nonempty", "all"}
    BY <1>1 DEF OptionsOf
  <2>3. /\ opts.squeeze \in BOOLEAN /\ opts.ends \in BOOLEAN
        /\ opts.tabs \in BOOLEAN /\ opts.nonprint \in BOOLEAN
    BY <1>1 DEF OptionsOf
  <2> HIDE DEF Init
  <2> QED BY <2>1, <2>2, <2>3
<1>3. Types
  <2>1. TypeOK
    <3>1. input \in Seq(Bytes)
      OBVIOUS
    <3>2. c.newlines \in -1..2 /\ c.cr \in {"none", "seen", "pending"} /\ c.line \in Nat
      OBVIOUS
    <3>3. r.line \in Nat \ {0}
      OBVIOUS
    <3> QED BY <1>2, <3>1, <3>2, <3>3 DEF TypeOK
  <2>2. c = [newlines |-> c.newlines, cr |-> c.cr, line |-> c.line, out |-> c.out]
    OBVIOUS
  <2>3. /\ r = [start |-> r.start, cr |-> r.cr, blank |-> r.blank,
                within |-> r.within, line |-> r.line, out |-> r.out]
        /\ r.start \in BOOLEAN /\ r.cr \in BOOLEAN
        /\ r.blank \in BOOLEAN /\ r.within \in BOOLEAN
    OBVIOUS
  <2> QED BY <2>1, <2>2, <2>3 DEF Types
<1>4. TextBefore
  BY DEF TextBefore
<1>5. Agree
  BY DEF Agree, SameHeld, SameOutput, SamePlace, Put
<1> QED BY <1>3, <1>4, <1>5 DEF IInv

-----------------------------------------------------------------------------
\* A byte keeps the types and is the last one read.
LEMMA ByteTypes ==
    ASSUME Types, NEW b \in Bytes, Byte(b)
    PROVE  /\ Types'
           /\ input' # <<>> /\ input'[Len(input')] = b
<1> USE DEF Types, TypeOK
<1>1. input' \in Seq(Bytes) /\ input' # <<>> /\ input'[Len(input')] = b
  BY DEF Byte
<1>2. /\ c' = [newlines |-> c'.newlines, cr |-> c'.cr, line |-> c'.line, out |-> c'.out]
      /\ c'.newlines \in -1..2 /\ c'.cr \in {"none", "seen", "pending"} /\ c'.line \in Nat
  <2>1. c' = CByte(b)
    BY DEF Byte
  <2>2. CASE CanWriteFast
    BY <2>1, <2>2 DEF CByte
  <2>3. CASE ~CanWriteFast /\ b = "nl"
    BY <2>1, <2>3 DEF CByte, CNewline
  <2>4. CASE ~CanWriteFast /\ b # "nl"
    BY <2>1, <2>4 DEF CByte, CText
  <2> QED BY <2>2, <2>3, <2>4
<1>3. /\ r' = [start |-> r'.start, cr |-> r'.cr, blank |-> r'.blank,
               within |-> r'.within, line |-> r'.line, out |-> r'.out]
      /\ r'.start \in BOOLEAN /\ r'.cr \in BOOLEAN
      /\ r'.blank \in BOOLEAN /\ r'.within \in BOOLEAN
      /\ r'.line \in Nat \ {0}
  <2>1. r' = RByte(b)
    BY DEF Byte
  <2>2. CASE CanWriteFast
    BY <2>1, <2>2 DEF RByte
  <2>3. CASE ~CanWriteFast /\ b = "nl" /\ r.within
    BY <2>1, <2>3 DEF RByte, LineByte, LineEnds
  <2>4. CASE ~CanWriteFast /\ b = "nl" /\ ~r.within
    <3>1. r' = WriteNewLine
      BY <2>1, <2>4 DEF RByte, LineByte
    <3>2. \/ r' = AfterReturn
          \/ r' = r
          \/ r' = NewLineShown(TRUE)
      BY <3>1 DEF WriteNewLine
    <3>3. CASE r' = AfterReturn
      BY <3>3 DEF AfterReturn
    <3>4. CASE r' = NewLineShown(TRUE)
      BY <3>4 DEF NewLineShown
    <3>5. CASE r' = r
      BY <3>5
    <3> QED BY <3>2, <3>3, <3>4, <3>5
  <2>5. CASE ~CanWriteFast /\ b # "nl" /\ r.within
    BY <2>1, <2>5 DEF RByte, LineByte, WriteEnd, Defers
  <2>6. CASE ~CanWriteFast /\ b # "nl" /\ ~r.within
    <3>1. r' = StartText(b)
      BY <2>1, <2>6 DEF RByte, LineByte
    <3> QED BY <3>1 DEF StartText, Defers
  <2> QED BY <2>2, <2>3, <2>4, <2>5, <2>6
<1> QED BY <1>1, <1>2, <1>3 DEF Byte

\* The newline at the head of the loop that is taken for a blank line is that
\* of a cut line.
LEMMA HeadNewline ==
    ASSUME TextBefore, ~CanWriteFast, ~r.within, ~r.start, ~r.cr
    PROVE  CutsLine("nl")
  BY DEF TextBefore, LastIsText, CutsLine

\* A byte that is copied.
LEMMA FastByte ==
    ASSUME Types, ~finished, Agree, CanWriteFast, NEW b \in Bytes, Byte(b)
    PROVE  Agree'
<1>1. /\ c' = [c EXCEPT !.out = Append(@, Token(b))]
      /\ r' = [r EXCEPT !.out = Append(@, Token(b))]
      /\ opts' = opts /\ finished' = finished
  BY DEF Byte, CByte, RByte
<1>2. /\ c'.cr = c.cr /\ c'.out = Append(c.out, Token(b))
      /\ r'.cr = r.cr /\ r'.out = Append(r.out, Token(b))
  BY <1>1 DEF Types
<1>3. ~r.cr /\ c.cr = "none"
  BY DEF Agree, SameHeld
<1>4. CanWriteFast'
  BY <1>1 DEF CanWriteFast
<1> QED
  BY <1>1, <1>2, <1>3, <1>4 DEF Agree, SameHeld, SameOutput, Put

\* A newline within a line's text, after a carriage return, and at the start of
\* a line.
LEMMA NewlineAgrees ==
    ASSUME Types, ~finished, Agree, TextBefore, ~CanWriteFast, Byte("nl"),
           ~(opts.squeeze /\ cut')
    PROVE  Agree'
<1> USE DEF Types, TypeOK
<1>1. /\ c' = CNewline /\ opts' = opts /\ finished' = finished /\ ~fresh'
      /\ r' = IF r.within THEN LineEnds ELSE WriteNewLine
      /\ ~CanWriteFast'
  BY DEF Byte, CByte, RByte, LineByte, CanWriteFast
<1>2. SamePlace /\ SameHeld /\ SameOutput
  BY DEF Agree
<1>3. CASE r.within
  <2>1. c.newlines = -1 /\ c.cr = "none" /\ ~r.cr /\ c.out = r.out
    BY <1>2, <1>3 DEF SamePlace, SameHeld, SameOutput, Put
  <2>2. c' = [newlines |-> 0, cr |-> "none", line |-> c.line, out |-> EndOfLine(c.out)]
    BY <1>1, <2>1 DEF CNewline, Put, PutNumber
  <2>3. r' = LineEnds
    BY <1>1, <1>3
  <2> QED
    BY <1>1, <1>2, <1>3, <2>1, <2>2, <2>3
    DEF LineEnds, Agree, SamePlace, SameHeld, SameOutput, Put
<1>4. CASE ~r.within /\ r.cr
  <2>1. c.newlines = -1 /\ (c.cr # "none" <=> opts.ends)
    BY <1>2, <1>4 DEF SamePlace, SameHeld
  <2>2. c' = [newlines |-> 0, cr |-> "none", line |-> c.line,
              out |-> EndOfLine(Put(c.out, c.cr # "none", "^M"))]
    BY <1>1, <2>1 DEF CNewline, PutNumber
  <2>3. r' = AfterReturn
    BY <1>1, <1>4 DEF WriteNewLine
  <2>4. c'.out = r'.out
    BY <1>2, <1>4, <2>1, <2>2, <2>3 DEF AfterReturn, SameOutput, Put
  <2> QED
    BY <1>1, <1>2, <1>4, <2>2, <2>3, <2>4
    DEF AfterReturn, Agree, SamePlace, SameHeld, SameOutput, Put
<1>5. CASE ~r.within /\ ~r.cr
  <2>1. c.cr = "none" /\ c.out = r.out /\ (r.start <=> c.newlines >= 0)
    BY <1>2, <1>5 DEF SamePlace, SameHeld, SameOutput, Put
  <2>2. CASE ~r.start
    <3>1. c.newlines = -1
      BY <2>1, <2>2
    <3>2. c' = [newlines |-> 0, cr |-> "none", line |-> c.line, out |-> EndOfLine(c.out)]
      BY <1>1, <2>1, <3>1 DEF CNewline, Put, PutNumber
    <3>3. r' = NewLineShown(TRUE)
      BY <1>1, <1>5, <2>2 DEF WriteNewLine
    <3>4. r'.out = EndOfLine(r.out) /\ r'.line = r.line /\ ~r'.cr /\ ~r'.within /\ r'.start
      BY <2>2, <3>3 DEF NewLineShown, PutNumber
    <3>5. ~opts.squeeze
      BY <1>5, <2>2, HeadNewline DEF Byte
    <3> QED
      BY <1>1, <1>2, <2>1, <3>2, <3>4, <3>5
      DEF Agree, SamePlace, SameHeld, SameOutput, Put
  <2>3. CASE r.start /\ opts.squeeze /\ r.blank
    <3>1. c.newlines >= 1
      BY <1>2, <1>5, <2>3 DEF SamePlace
    <3>2. c' = [c EXCEPT !.newlines = 2]
      BY <1>1, <2>3, <3>1 DEF CNewline
    <3>3. c'.newlines = 2 /\ c'.cr = c.cr /\ c'.line = c.line /\ c'.out = c.out
      BY <3>2
    <3>4. r' = r
      BY <1>1, <1>5, <2>3 DEF WriteNewLine
    <3> QED
      BY <1>1, <1>2, <1>5, <2>1, <2>3, <3>3, <3>4
      DEF Agree, SamePlace, SameHeld, SameOutput, Put
  <2>4. CASE r.start /\ ~(opts.squeeze /\ r.blank)
    <3>1. c.newlines \in 0..2 /\ (opts.squeeze => c.newlines = 0)
      BY <1>2, <1>5, <2>1, <2>4 DEF SamePlace
    <3>2. c'.newlines >= 1 /\ c'.cr = "none"
          /\ c'.line = (IF opts.number = "all" THEN c.line + 1 ELSE c.line)
          /\ c'.out = EndOfLine(PutNumber(c.out, opts.number = "all", c.line + 1))
      BY <1>1, <2>1, <3>1 DEF CNewline, Put, PutNumber
    <3>3. r' = NewLineShown(TRUE)
      BY <1>1, <1>5, <2>4 DEF WriteNewLine
    <3>4. /\ r'.out = EndOfLine(PutNumber(r.out, opts.number = "all", r.line))
          /\ r'.line = (IF opts.number = "all" THEN r.line + 1 ELSE r.line)
          /\ ~r'.cr /\ ~r'.within /\ r'.start /\ r'.blank
      BY <2>4, <3>3 DEF NewLineShown, PutNumber
    <3>5. r.line = c.line + 1
      BY <1>2 DEF SamePlace
    <3>6. c'.out = r'.out /\ r'.line = c'.line + 1
      BY <2>1, <3>2, <3>4, <3>5
    <3>7. SamePlace'
      <4>1. c'.newlines >= 0
        BY <3>1, <1>1, <3>2 DEF CNewline
      <4>2. r'.blank /\ c'.newlines >= 1 /\ r'.start /\ ~r'.cr /\ ~r'.within
        BY <3>2, <3>4
      <4> QED BY <3>6, <4>1, <4>2 DEF SamePlace
    <3>8. SameHeld' /\ SameOutput'
      BY <3>2, <3>4, <3>6 DEF SameHeld, SameOutput, Put
    <3> QED
      BY <1>1, <3>7, <3>8 DEF Agree
  <2> QED BY <2>2, <2>3, <2>4
<1> QED BY <1>3, <1>4, <1>5

\* A byte of text, which may be a carriage return.
LEMMA TextAgrees ==
    ASSUME Types, ~finished, Agree, ~CanWriteFast, NEW b \in Bytes \ {"nl"}, Byte(b)
    PROVE  Agree'
<1> USE DEF Types, TypeOK
<1>1. /\ c' = CText(b) /\ opts' = opts /\ finished' = finished /\ ~fresh'
      /\ r' = IF r.within THEN WriteEnd(b) ELSE StartText(b)
      /\ ~CanWriteFast'
  BY DEF Byte, CByte, RByte, LineByte, CanWriteFast
<1>2. SamePlace /\ SameHeld /\ SameOutput
  BY DEF Agree
<1> DEFINE waits == Defers(b) /\ opts.ends
           number == r.start /\ ~r.cr /\ ~r.within /\ opts.number # "none"
           before == PutNumber(Put(r.out, r.cr, "cr"), number, r.line)
<1>3. number <=> c.newlines >= 0 /\ opts.number # "none"
  BY <1>2 DEF SamePlace
<1>4. before = PutNumber(Put(c.out, c.cr # "none", "cr"), number, c.line + 1)
  BY <1>2 DEF SamePlace, SameHeld, SameOutput, Put, PutNumber
<1>5. /\ c'.newlines = -1 /\ (c'.cr # "none" <=> waits)
      /\ c'.line = (IF number THEN c.line + 1 ELSE c.line)
      /\ c'.out = Put(before, ~waits, Shown(b))
  BY <1>1, <1>3, <1>4 DEF CText
<1>6. /\ (r'.cr <=> Defers(b)) /\ (r'.within <=> ~Defers(b))
      /\ r'.line = (IF number THEN r.line + 1 ELSE r.line)
      /\ r'.out = Put(before, ~Defers(b), Shown(b))
      /\ opts.squeeze => ~r'.blank
  <2>1. CASE r.within
    BY <1>1, <1>2, <2>1 DEF WriteEnd, SamePlace, Put, PutNumber
  <2>2. CASE ~r.within
    BY <1>1, <2>2 DEF StartText
  <2> QED BY <2>1, <2>2
<1>7. Defers(b) => ~opts.nonprint /\ Shown(b) = "cr"
  BY DEF Defers, Shown
<1>8. c'.out = Put(r'.out, r'.cr /\ ~opts.ends, "cr")
  BY <1>5, <1>6, <1>7 DEF Put
<1> HIDE DEF number, before
<1> QED
  BY <1>1, <1>2, <1>5, <1>6, <1>7, <1>8 DEF Agree, SamePlace, SameHeld, SameOutput

\* What write_end leaves behind is the byte it took.
LEMMA ByteTextBefore ==
    ASSUME Types, TextBefore, NEW b \in Bytes, Byte(b)
    PROVE  TextBefore'
<1> SUFFICES ASSUME ~CanWriteFast PROVE TextBefore'
  BY DEF Byte, TextBefore, CanWriteFast
<1> USE DEF Types, TypeOK
<1>1. input' # <<>> /\ input'[Len(input')] = b /\ opts' = opts /\ r' = LineByte(b)
  BY ByteTypes DEF Byte, RByte
<1>2. CASE b = "nl"
  <2>1. ~r'.within /\ r'.start
    <3>1. CASE r.within
      BY <1>1, <1>2, <3>1 DEF LineByte, LineEnds
    <3>2. CASE ~r.within
      BY <1>1, <1>2, <3>2 DEF LineByte, WriteNewLine, AfterReturn, NewLineShown
    <3> QED BY <3>1, <3>2
  <2> QED BY <2>1 DEF TextBefore
<1>3. CASE b # "nl"
  <2>1. (r'.within <=> ~Defers(b)) /\ (r'.cr <=> Defers(b))
    <3>1. CASE r.within
      BY <1>1, <1>3, <3>1 DEF LineByte, WriteEnd
    <3>2. CASE ~r.within
      BY <1>1, <1>3, <3>2 DEF LineByte, StartText
    <3> QED BY <3>1, <3>2
  <2>2. r'.within => LastIsText'
    BY <1>1, <1>3, <2>1 DEF LastIsText, Defers
  <2> QED BY <2>1, <2>2 DEF TextBefore
<1> QED BY <1>2, <1>3

LEMMA ByteIInv ==
    ASSUME IInv, NEW b \in Bytes, Byte(b)
    PROVE  IInv'
<1>1. Types /\ ~finished /\ TextBefore
  BY DEF IInv, Byte
<1>2. Types' /\ TextBefore'
  BY <1>1, ByteTypes, ByteTextBefore
<1>3. ASSUME ~(opts.squeeze /\ cut') PROVE Agree'
  <2>1. Agree
    BY <1>3 DEF IInv, Byte, Types, TypeOK
  <2> QED BY <1>1, <1>3, <2>1, FastByte, NewlineAgrees, TextAgrees
<1> QED BY <1>2, <1>3 DEF IInv, Byte

LEMMA EndOfBufferIInv ==
    ASSUME IInv, EndOfBuffer
    PROVE  IInv'
<1> USE DEF Types, TypeOK
<1>1. /\ Types /\ ~finished /\ TextBefore /\ fresh' = TRUE
      /\ UNCHANGED <<opts, input, cut, finished>>
  BY DEF IInv, EndOfBuffer
<1>2. /\ c' = CEndOfBuffer /\ r' = REndOfBuffer
  BY DEF EndOfBuffer
<1>3. /\ c'.newlines = c.newlines /\ c'.line = c.line /\ c'.out = c.out
      /\ c'.cr \in {"none", "pending"} /\ (c'.cr = "none" <=> c.cr = "none")
      /\ c' = [newlines |-> c'.newlines, cr |-> c'.cr, line |-> c'.line, out |-> c'.out]
  BY <1>1, <1>2 DEF CEndOfBuffer
<1>4. /\ r'.line = r.line /\ r'.out = r.out /\ r'.cr = r.cr /\ r'.blank = r.blank
      /\ ~r'.within /\ (r'.start <=> r.start /\ ~r.within)
      /\ r'.start \in BOOLEAN /\ r'.within \in BOOLEAN
      /\ r' = [start |-> r'.start, cr |-> r'.cr, blank |-> r'.blank,
               within |-> r'.within, line |-> r'.line, out |-> r'.out]
  BY <1>1, <1>2 DEF REndOfBuffer
<1>5. Types'
  <2>1. TypeOK'
    BY <1>1, <1>3, <1>4
  <2>2. r'.cr \in BOOLEAN /\ r'.blank \in BOOLEAN
    BY <1>1, <1>4
  <2> QED BY <1>3, <1>4, <2>1, <2>2
<1>6. TextBefore'
  BY <1>1, <1>4 DEF TextBefore, LastIsText, CanWriteFast, Defers
<1>7. ASSUME Agree PROVE Agree'
  <2>1. SameHeld' /\ SameOutput'
    BY <1>1, <1>3, <1>4, <1>7 DEF Agree, SameHeld, SameOutput, Put
  <2>2. ~CanWriteFast => SamePlace'
    BY <1>1, <1>3, <1>4, <1>7 DEF Agree, SamePlace, CanWriteFast
  <2> QED
    BY <1>1, <1>3, <1>4, <1>7, <2>1, <2>2 DEF Agree, CanWriteFast
<1> QED BY <1>1, <1>5, <1>6, <1>7 DEF IInv

LEMMA FinishIInv ==
    ASSUME IInv, Finish
    PROVE  IInv'
<1> USE DEF Types, TypeOK
<1>1. Types /\ finished' /\ fresh /\ UNCHANGED <<opts, input, fresh, cut>>
  BY DEF IInv, Finish
<1>2. /\ c' = [c EXCEPT !.cr = "none", !.out = Put(@, c.cr = "pending", "cr")]
      /\ r' = [r EXCEPT !.cr = FALSE, !.out = Put(@, r.cr, "cr")]
  BY DEF Finish
<1>3. /\ c'.newlines = c.newlines /\ c'.line = c.line /\ c'.cr = "none"
      /\ c'.out = Put(c.out, c.cr = "pending", "cr")
      /\ c' = [newlines |-> c'.newlines, cr |-> c'.cr, line |-> c'.line, out |-> c'.out]
  BY <1>1, <1>2
<1>4. /\ r'.line = r.line /\ ~r'.cr /\ r'.cr \in BOOLEAN /\ r'.out = Put(r.out, r.cr, "cr")
      /\ r'.blank = r.blank /\ r'.start = r.start /\ r'.within = r.within
      /\ r' = [start |-> r'.start, cr |-> r'.cr, blank |-> r'.blank,
               within |-> r'.within, line |-> r'.line, out |-> r'.out]
  BY <1>1, <1>2
<1>5. Types'
  BY <1>1, <1>3, <1>4
<1>6. ASSUME Agree PROVE Agree'
  <2>1. c.cr # "seen"
    BY <1>1, <1>6 DEF Agree
  <2>2. c'.out = r'.out
    BY <1>1, <1>3, <1>4, <1>6, <2>1 DEF Agree, SameHeld, SameOutput, Put
  <2> QED
    BY <1>1, <1>3, <1>4, <2>2 DEF Agree, SameHeld, SameOutput, Put
<1> QED BY <1>1, <1>5, <1>6 DEF IInv

LEMMA NextIInv == IInv /\ [Next]_catVars => IInv'
<1> SUFFICES ASSUME IInv, [Next]_catVars PROVE IInv'
  OBVIOUS
<1>1. CASE UNCHANGED catVars
  BY <1>1 DEF catVars, IInv, Types, TypeOK, TextBefore, LastIsText, Defers, CanWriteFast,
              Agree, SameHeld, SameOutput, SamePlace
<1>2. CASE \E b \in Bytes : Byte(b)
  BY <1>2, ByteIInv
<1>3. CASE EndOfBuffer
  BY <1>3, EndOfBufferIInv
<1>4. CASE Finish
  BY <1>4, FinishIInv
<1> QED BY <1>1, <1>2, <1>3, <1>4 DEF Next

\* cat.c, cat.rs and cat.cpp: the correspondence of their line states holds for
\* every input and every way read() cuts it.
THEOREM Inductive == Spec => []IInv
<1> QED BY InitIInv, NextIInv, PTL DEF Spec

\* The line states keep their types; C's newlines stays within -1..2.
THEOREM TypeCorrect == Spec => []TypeOK
<1>1. IInv => TypeOK
  BY DEF IInv, Types
<1> QED BY <1>1, Inductive, PTL

\* The versions print the same, however the input is cut, unless blank lines
\* are squeezed and a cut separated a line from its newline (cat.c:225-511,
\* cat.rs:517-618, cat.cpp:272-390).
THEOREM PrintTheSame == Spec => []VersionsAgree
<1>1. IInv => VersionsAgree
  BY DEF IInv, Agree, SameHeld, SameOutput, VersionsAgree, Printed, Put, Types, TypeOK
<1> QED BY <1>1, Inductive, PTL

-----------------------------------------------------------------------------
\* FlattenSeq, of one sequence more.  Its function is defined in terms of
\* itself: that there is one, and only one, is shown at the first place where
\* there would not be.

\* A set of numbers has a least one.
LEMMA Least ==
    ASSUME NEW S, S \subseteq Nat, S # {}
    PROVE  \E i \in S : \A j \in S : i <= j
<1> DEFINE R == {p \in Nat \X Nat : p[1] < p[2]}
<1>1. IsWellFoundedOn(R, Nat)
  BY NatLessThanWellFounded DEF OpToRel
<1>2. PICK i \in S : \A j \in S : <<j, i>> \notin R
  <2> HIDE DEF R
  <2> QED BY <1>1, WFMin
<1>3. \A j \in S : ~(j < i)
  BY <1>2
<1> QED BY <1>3

\* What FlattenSeq has put together after each of the sequences.
Flattens(f, seqs) ==
    f = [i \in 1..Len(seqs) |-> IF i = 1 THEN seqs[i] ELSE f[i - 1] \o seqs[i]]

LEMMA FlattensAt ==
    ASSUME NEW seqs, NEW f, Flattens(f, seqs), NEW i \in 1..Len(seqs)
    PROVE  f[i] = IF i = 1 THEN seqs[i] ELSE f[i - 1] \o seqs[i]
BY DEF Flattens

LEMMA FlattensOnce ==
    ASSUME NEW S, NEW seqs \in Seq(Seq(S)), NEW more \in Seq(Seq(S)),
           Len(seqs) <= Len(more), \A i \in 1..Len(seqs) : more[i] = seqs[i],
           NEW f, Flattens(f, seqs), NEW h, Flattens(h, more)
    PROVE  \A i \in 1..Len(seqs) : h[i] = f[i] /\ f[i] \in Seq(S)
<1> DEFINE Wrong == {i \in 1..Len(seqs) : ~(h[i] = f[i] /\ f[i] \in Seq(S))}
<1> SUFFICES ASSUME Wrong # {} PROVE FALSE
  OBVIOUS
<1>1. PICK i \in Wrong : \A j \in Wrong : i <= j
  <2>1. Wrong \subseteq Nat
    OBVIOUS
  <2> HIDE DEF Wrong
  <2> QED BY <2>1, Least
<1>2. i \in 1..Len(seqs) /\ ~(h[i] = f[i] /\ f[i] \in Seq(S))
  OBVIOUS
<1>3. i - 1 \in 1..Len(seqs) => h[i - 1] = f[i - 1] /\ f[i - 1] \in Seq(S)
  BY <1>1, <1>2
<1> HIDE DEF Wrong
<1>4. /\ f[i] = IF i = 1 THEN seqs[i] ELSE f[i - 1] \o seqs[i]
      /\ h[i] = IF i = 1 THEN seqs[i] ELSE h[i - 1] \o seqs[i]
  <2>1. i \in 1..Len(more) /\ more[i] = seqs[i]
    BY <1>2
  <2>2. f[i] = IF i = 1 THEN seqs[i] ELSE f[i - 1] \o seqs[i]
    BY <1>2, FlattensAt, SMTT(30)
  <2>3. h[i] = IF i = 1 THEN more[i] ELSE h[i - 1] \o more[i]
    BY <2>1, FlattensAt, SMTT(30)
  <2> QED BY <2>1, <2>2, <2>3
<1>5. seqs[i] \in Seq(S)
  BY <1>2
<1>6. CASE i = 1
  BY <1>2, <1>4, <1>5, <1>6
<1>7. CASE i # 1
  <2>1. h[i - 1] = f[i - 1] /\ f[i - 1] \in Seq(S)
    BY <1>2, <1>3, <1>7
  <2> QED BY <1>2, <1>4, <1>5, <1>7, <2>1
<1> QED BY <1>6, <1>7

LEMMA FlattensSome ==
    ASSUME NEW S
    PROVE  \A seqs \in Seq(Seq(S)) : \E f : Flattens(f, seqs)
<1> DEFINE Wrong == {n \in Nat : \E seqs \in Seq(Seq(S)) :
                        Len(seqs) = n /\ ~\E f : Flattens(f, seqs)}
<1>1. ASSUME Wrong # {} PROVE FALSE
  <2>1. PICK n \in Wrong : \A m \in Wrong : n <= m
    <3>1. Wrong \subseteq Nat
      OBVIOUS
    <3> HIDE DEF Wrong
    <3> QED BY <1>1, <3>1, Least
  <2>2. PICK seqs \in Seq(Seq(S)) : Len(seqs) = n /\ ~\E f : Flattens(f, seqs)
    OBVIOUS
  <2>3. n \in Nat
    OBVIOUS
  <2>4. CASE n = 0
    <3>1. Flattens([i \in 1..0 |-> <<>>], seqs)
      BY <2>2, <2>4 DEF Flattens
    <3> QED BY <2>2, <3>1
  <2>5. CASE n # 0
    <3> DEFINE front == SubSeq(seqs, 1, n - 1)
    <3>1. /\ front \in Seq(Seq(S)) /\ Len(front) = n - 1 /\ n - 1 \in Nat
          /\ \A i \in 1..n - 1 : front[i] = seqs[i]
      BY <2>2, <2>3, <2>5
    <3>2. n - 1 \notin Wrong
      BY <2>1, <2>3
    <3>3. PICK f : Flattens(f, front)
      BY <3>1, <3>2
    <3> DEFINE h == [i \in 1..n |-> IF i = 1 THEN seqs[i]
                                    ELSE f[i - 1] \o seqs[i]]
    <3> HIDE DEF front, Wrong
    <3>4. \A i \in 1..n - 1 : h[i] = f[i]
      <4> SUFFICES ASSUME NEW i \in 1..n - 1 PROVE h[i] = f[i]
        OBVIOUS
      <4>1. f[i] = IF i = 1 THEN front[i] ELSE f[i - 1] \o front[i]
        <5>1. i \in 1..Len(front)
          BY <3>1
        <5> HIDE DEF h
        <5> QED BY <3>3, <5>1, FlattensAt
      <4>2. i \in 1..n /\ front[i] = seqs[i]
        BY <2>3, <3>1
      <4> QED BY <4>1, <4>2
    <3>5. h = [i \in 1..n |-> IF i = 1 THEN seqs[i] ELSE h[i - 1] \o seqs[i]]
      <4>1. \A i \in 1..n : i # 1 => h[i - 1] = f[i - 1]
        <5> SUFFICES ASSUME NEW i \in 1..n, i # 1 PROVE h[i - 1] = f[i - 1]
          OBVIOUS
        <5>1. i - 1 \in 1..n - 1
          BY <2>3
        <5> HIDE DEF h
        <5> QED BY <3>4, <5>1
      <4> QED BY <4>1
    <3>6. Flattens(h, seqs)
      BY <2>2, <3>5 DEF Flattens
    <3> QED BY <2>2, <3>6
  <2> QED BY <2>4, <2>5
<1> QED BY <1>1

LEMMA FlattenSeqIs ==
    ASSUME NEW S, NEW seqs \in Seq(Seq(S))
    PROVE  \E f : /\ Flattens(f, seqs)
                  /\ FlattenSeq(seqs) = IF Len(seqs) = 0 THEN <<>> ELSE f[Len(seqs)]
<1> DEFINE f == CHOOSE h : Flattens(h, seqs)
<1>1. Flattens(f, seqs)
  BY FlattensSome
<1>2. FlattenSeq(seqs) = IF Len(seqs) = 0 THEN seqs ELSE f[Len(seqs)]
  BY DEF FlattenSeq, Flattens
<1>3. Len(seqs) = 0 => seqs = <<>>
  OBVIOUS
<1> QED BY <1>1, <1>2, <1>3

LEMMA FlattenSeqAppend ==
    ASSUME NEW S, NEW seqs \in Seq(Seq(S)), NEW s \in Seq(S)
    PROVE  /\ FlattenSeq(seqs) \in Seq(S)
           /\ FlattenSeq(Append(seqs, s)) = FlattenSeq(seqs) \o s
<1> DEFINE more == Append(seqs, s)
<1>1. PICK f : /\ Flattens(f, seqs)
               /\ FlattenSeq(seqs) = IF Len(seqs) = 0 THEN <<>> ELSE f[Len(seqs)]
  BY FlattenSeqIs
<1>2. more \in Seq(Seq(S)) /\ Len(more) = Len(seqs) + 1 /\ more[Len(more)] = s
      /\ \A i \in 1..Len(seqs) : more[i] = seqs[i]
  OBVIOUS
<1> HIDE DEF more
<1>3. PICK h : /\ Flattens(h, more)
               /\ FlattenSeq(more) = IF Len(more) = 0 THEN <<>> ELSE h[Len(more)]
  BY <1>2, FlattenSeqIs
<1>4. \A i \in 1..Len(seqs) : h[i] = f[i] /\ f[i] \in Seq(S)
  <2>1. Len(seqs) <= Len(more)
    BY <1>2
  <2> QED BY <1>1, <1>2, <1>3, <2>1, FlattensOnce
<1>5. h[Len(more)] = IF Len(more) = 1 THEN s ELSE h[Len(seqs)] \o s
  <2>1. Len(more) \in 1..Len(more) /\ Len(more) - 1 = Len(seqs)
    BY <1>2
  <2> QED BY <1>2, <1>3, <2>1, FlattensAt
<1>6. FlattenSeq(more) = h[Len(more)]
  BY <1>2, <1>3
<1>7. CASE Len(seqs) = 0
  <2>1. FlattenSeq(seqs) = <<>> /\ FlattenSeq(more) = s
    BY <1>1, <1>2, <1>5, <1>6, <1>7
  <2> QED BY <2>1 DEF more
<1>8. CASE Len(seqs) # 0
  <2>1. Len(seqs) \in 1..Len(seqs) /\ Len(more) # 1
    BY <1>2, <1>8
  <2>2. FlattenSeq(seqs) = f[Len(seqs)] /\ FlattenSeq(more) = f[Len(seqs)] \o s
    BY <1>1, <1>4, <1>5, <1>6, <1>8, <2>1
  <2> QED BY <1>4, <2>1, <2>2 DEF more
<1> QED BY <1>7, <1>8

-----------------------------------------------------------------------------
\* cat.c prints the Listing of the whole input.
Kinds == Bytes \cup {"^I", "^M", "$", "number"}
Tokens == Kinds \X Nat

\* The carriage return at the end of what was read shows as the next byte says.
HoldsReturn == /\ opts.ends /\ ~opts.nonprint
               /\ input # <<>> /\ input[Len(input)] = "cr"

NumbersBefore == Cardinality({j \in 1..Len(input) : Numbered(j)})

\* What newlines and the line counter say of the bytes read.
LinePlace ==
    /\ c.line = NumbersBefore
    /\ c.newlines >= 0 <=> StartsLine(Len(input) + 1)
    /\ c.newlines >= 1 <=> input # <<>> /\ BlankLine(Len(input))
    /\ c.newlines = 2 <=> /\ Len(input) > 1
                          /\ BlankLine(Len(input)) /\ BlankLine(Len(input) - 1)

ListInv ==
    /\ c.out \in Seq(Tokens)
    /\ ListsInput
    /\ c.cr # "none" <=> HoldsReturn /\ ~finished
    /\ fresh => c.cr # "seen"
    /\ ~CanWriteFast => LinePlace

LEMMA ShownKind == ASSUME NEW b \in Bytes PROVE Shown(b) \in Kinds
BY DEF Shown, Bytes, Kinds

LEMMA NumbersFinite ==
    ASSUME NEW n \in Nat
    PROVE  /\ IsFiniteSet({j \in 1..n : Numbered(j)})
           /\ Cardinality({j \in 1..n : Numbered(j)}) \in Nat
<1>1. IsFiniteSet(1..n)
  BY FS_Interval
<1>2. {j \in 1..n : Numbered(j)} \subseteq 1..n
  OBVIOUS
<1> QED BY <1>1, <1>2, FS_Subset, FS_CardinalityType

\* The number before a byte, and how the byte itself shows.
Number(i) == PutNumber(<<>>, Numbered(i), LineNumber(i))
Body(i) == IF input[i] = "nl" THEN EndOfLine(<<>>) ELSE <<Token(Kind(i))>>

LEMMA PieceTokens ==
    ASSUME Types, NEW i \in 1..Len(input)
    PROVE  /\ Number(i) \in Seq(Tokens) /\ Body(i) \in Seq(Tokens)
           /\ Entry(i) = IF Squeezed(i) THEN <<>> ELSE Number(i) \o Body(i)
           /\ Entry(i) \in Seq(Tokens)
<1>1. input[i] \in Bytes
  BY DEF Types, TypeOK
<1>2. i \in Nat
  BY DEF Types, TypeOK
<1>3. LineNumber(i) \in Nat
  BY <1>2, NumbersFinite DEF LineNumber
<1>4. Number(i) \in Seq(Tokens)
  BY <1>3 DEF Number, PutNumber, Tokens, Kinds
<1>5. Token("nl") \in Tokens /\ Token("$") \in Tokens /\ Token(Kind(i)) \in Tokens
  <2>1. Kind(i) \in Kinds
    BY <1>1, ShownKind DEF Kind, Kinds
  <2> QED BY <2>1 DEF Token, Tokens, Kinds, Bytes
<1>6. Body(i) \in Seq(Tokens)
  BY <1>5 DEF Body, EndOfLine, Put
<1>7. Entry(i) = IF Squeezed(i) THEN <<>> ELSE Number(i) \o Body(i)
  BY DEF Entry, Number, Body
<1> HIDE DEF Tokens
<1> QED BY <1>4, <1>6, <1>7

-----------------------------------------------------------------------------
\* A byte more changes nothing in the pieces before, but how the carriage
\* return just before it shows.
Reads(b) == input' = Append(input, b) /\ opts' = opts

LEMMA SameBefore ==
    ASSUME Types, NEW b \in Bytes, Reads(b)
    PROVE  /\ \A i \in 1..Len(input) + 1 : StartsLine(i)' <=> StartsLine(i)
           /\ \A i \in 1..Len(input) : /\ input'[i] = input[i]
                                       /\ BlankLine(i)' <=> BlankLine(i)
                                       /\ Squeezed(i)' <=> Squeezed(i)
                                       /\ Numbered(i)' <=> Numbered(i)
                                       /\ LineNumber(i)' = LineNumber(i)
<1>1. /\ input \in Seq(Bytes) /\ opts' = opts /\ Len(input) \in Nat
      /\ \A i \in 1..Len(input) : input'[i] = input[i]
  BY DEF Types, TypeOK, Reads
<1>2. \A i \in 1..Len(input) + 1 : StartsLine(i)' <=> StartsLine(i)
  <2> SUFFICES ASSUME NEW i \in 1..Len(input) + 1 PROVE StartsLine(i)' <=> StartsLine(i)
    OBVIOUS
  <2>1. i = 1 \/ i - 1 \in 1..Len(input)
    BY <1>1
  <2> QED BY <1>1, <2>1 DEF StartsLine
<1>3. \A i \in 1..Len(input) : BlankLine(i)' <=> BlankLine(i)
  BY <1>1, <1>2 DEF BlankLine
<1>4. \A i \in 1..Len(input) : Squeezed(i)' <=> Squeezed(i)
  <2> SUFFICES ASSUME NEW i \in 1..Len(input) PROVE Squeezed(i)' <=> Squeezed(i)
    OBVIOUS
  <2>1. i > 1 => i - 1 \in 1..Len(input)
    BY <1>1
  <2> QED BY <1>1, <1>3, <2>1 DEF Squeezed
<1>5. \A i \in 1..Len(input) : Numbered(i)' <=> Numbered(i)
  BY <1>1, <1>2, <1>3, <1>4 DEF Numbered
<1>6. \A i \in 1..Len(input) : LineNumber(i)' = LineNumber(i)
  <2> SUFFICES ASSUME NEW i \in 1..Len(input) PROVE LineNumber(i)' = LineNumber(i)
    OBVIOUS
  <2>1. \A j \in 1..i : Numbered(j)' <=> Numbered(j)
    BY <1>1, <1>5
  <2>2. {j \in 1..i : Numbered(j)}' = {j \in 1..i : Numbered(j)}
    BY <2>1
  <2> QED BY <2>2 DEF LineNumber
<1> QED BY <1>1, <1>2, <1>3, <1>4, <1>5, <1>6

LEMMA SamePieces ==
    ASSUME Types, NEW b \in Bytes, Reads(b), NEW i \in 1..Len(input)
    PROVE  /\ Number(i)' = Number(i)
           /\ Squeezed(i)' <=> Squeezed(i)
           /\ i = Len(input) /\ HoldsReturn /\ b = "nl" =>
                /\ ~Squeezed(i) /\ Body(i) = <<Token("cr")>>
                /\ Body(i)' = <<Token("^M")>>
           /\ ~(i = Len(input) /\ HoldsReturn /\ b = "nl") => Body(i)' = Body(i)
<1>1. /\ input \in Seq(Bytes) /\ opts' = opts /\ Len(input) \in Nat
      /\ input'[i] = input[i] /\ Len(input') = Len(input) + 1
      /\ input'[Len(input) + 1] = b
  BY DEF Types, TypeOK, Reads
<1>2. /\ Squeezed(i)' <=> Squeezed(i)
      /\ Numbered(i)' <=> Numbered(i)
      /\ LineNumber(i)' = LineNumber(i)
  BY SameBefore
<1>3. Number(i)' = Number(i)
  BY <1>2 DEF Number, PutNumber
<1>4. Shown(input[i])' = Shown(input[i])
  BY <1>1 DEF Shown
<1>5. EndOfLine(<<>>)' = EndOfLine(<<>>)
  BY <1>1 DEF EndOfLine, Put
<1>6. CASE i = Len(input) /\ HoldsReturn /\ b = "nl"
  <2>1. input[i] = "cr" /\ opts.ends /\ ~opts.nonprint
    BY <1>6 DEF HoldsReturn
  <2>2. ~BeforeNewline(i) /\ BeforeNewline(i)'
    BY <1>1, <1>6 DEF BeforeNewline
  <2>3. Kind(i) = "cr" /\ Kind(i)' = "^M"
    BY <1>1, <2>1, <2>2 DEF Kind, Shown
  <2>4. ~Squeezed(i)
    BY <2>1 DEF Squeezed, BlankLine
  <2> QED BY <1>1, <1>2, <1>3, <1>6, <2>1, <2>3, <2>4 DEF Body
<1>7. CASE ~(i = Len(input) /\ HoldsReturn /\ b = "nl")
  <2>1. i < Len(input) => (BeforeNewline(i)' <=> BeforeNewline(i))
    BY <1>1, SameBefore DEF BeforeNewline
  <2>2. i = Len(input) => ~BeforeNewline(i) /\ (BeforeNewline(i)' <=> b = "nl")
    BY <1>1 DEF BeforeNewline
  <2>3. input[i] = "cr" => Shown(input[i]) = IF opts.nonprint THEN "^M" ELSE "cr"
    BY DEF Shown
  <2>4. Kind(i)' = Kind(i)
    <3>1. CASE i < Len(input)
      BY <1>1, <1>4, <2>1, <3>1 DEF Kind
    <3>2. CASE i = Len(input)
      <4>1. input[i] = "cr" /\ opts.ends /\ b = "nl" => opts.nonprint
        BY <1>7, <3>2 DEF HoldsReturn
      <4> QED BY <1>1, <1>4, <2>2, <2>3, <3>2, <4>1 DEF Kind
    <3> QED BY <1>1, <3>1, <3>2
  <2> QED BY <1>1, <1>2, <1>3, <1>5, <1>7, <2>4 DEF Body
<1> QED BY <1>6, <1>7

Pieces(n) == [i \in 1..n |-> Entry(i)]

LEMMA PiecesTokens ==
    ASSUME Types, NEW n \in 0..Len(input)
    PROVE  Pieces(n) \in Seq(Seq(Tokens)) /\ Len(Pieces(n)) = n
<1>1. \A i \in 1..n : Entry(i) \in Seq(Tokens)
  <2>1. \A i \in 1..n : i \in 1..Len(input)
    BY DEF Types, TypeOK
  <2> QED BY <2>1, PieceTokens
<1>2. n \in Nat
  BY DEF Types, TypeOK
<1> QED BY <1>1, <1>2 DEF Pieces

LEMMA PiecesTyped == Types => \A i \in 1..Len(input) : Entry(i) \in Seq(Tokens)
BY PieceTokens

LEMMA PiecesTypedNext == Types' => \A i \in 1..Len(input') : Entry(i)' \in Seq(Tokens)
<1>1. Types' => (\A i \in 1..Len(input) : Entry(i) \in Seq(Tokens))'
  BY PiecesTyped, PTL
<1> QED BY <1>1

LEMMA ListingTokens == ASSUME Types PROVE Listing \in Seq(Tokens)
<1>1. Len(input) \in 0..Len(input)
  BY DEF Types, TypeOK
<1>2. Pieces(Len(input)) \in Seq(Seq(Tokens)) /\ <<>> \in Seq(Tokens)
  BY <1>1, PiecesTokens
<1>3. FlattenSeq(Pieces(Len(input))) \in Seq(Tokens)
  BY <1>2, FlattenSeqAppend
<1> QED BY <1>3 DEF Listing, Pieces

LEMMA AppendIs ==
    ASSUME NEW S, NEW s \in Seq(S), NEW e \in S, NEW all,
           DOMAIN all = 1..Len(s) + 1, all = [i \in 1..Len(s) + 1 |-> all[i]],
           \A i \in 1..Len(s) : all[i] = s[i], all[Len(s) + 1] = e
    PROVE  all = Append(s, e)
<1>1. Append(s, e) \in Seq(S) /\ Len(Append(s, e)) = Len(s) + 1
  OBVIOUS
<1>2. \A i \in 1..Len(s) + 1 : all[i] = Append(s, e)[i]
  OBVIOUS
<1>3. all \in Seq(S)
  <2>1. \A i \in 1..Len(s) + 1 : i \in 1..Len(s) \/ i = Len(s) + 1
    OBVIOUS
  <2>2. \A i \in 1..Len(s) : s[i] \in S
    OBVIOUS
  <2>3. \A i \in 1..Len(s) + 1 : all[i] \in S
    BY <2>1, <2>2
  <2> QED BY <2>3
<1>4. Len(all) = Len(s) + 1
  BY <1>3
<1> QED BY <1>1, <1>2, <1>3, <1>4, SeqEqual

LEMMA SamePiece ==
    ASSUME Types, NEW b \in Bytes, Reads(b), NEW i \in 1..Len(input),
           ~(i = Len(input) /\ HoldsReturn /\ b = "nl")
    PROVE  Entry(i)' = Entry(i)
<1>1. Number(i)' = Number(i) /\ (Squeezed(i)' <=> Squeezed(i)) /\ Body(i)' = Body(i)
  BY SamePieces
<1>2. Entry(i)' = IF Squeezed(i)' THEN <<>> ELSE Number(i)' \o Body(i)'
  BY DEF Entry, Number, Body
<1>3. Entry(i) = IF Squeezed(i) THEN <<>> ELSE Number(i) \o Body(i)
  BY DEF Entry, Number, Body
<1> QED BY <1>1, <1>2, <1>3

\* The listing and the next one, but for the last piece of each.
LEMMA ListingLast ==
    ASSUME Types, Types', NEW b \in Bytes, Reads(b), NEW n \in Nat \ {0}, n = Len(input)
    PROVE  \E before \in Seq(Tokens) :
             /\ Listing = before \o Entry(n)
             /\ Listing' = (before \o Entry(n)') \o Entry(n + 1)'
<1> DEFINE front == Pieces(n - 1)
           here == Entry(n)
           there == Entry(n)'
           last == Entry(n + 1)'
<1>1. n \in Nat \ {0} /\ Len(input') = n + 1
  BY DEF Types, TypeOK, Reads
<1>2. \A i \in 1..n - 1 : Entry(i)' = Entry(i)
  <2> SUFFICES ASSUME NEW i \in 1..n - 1 PROVE Entry(i)' = Entry(i)
    OBVIOUS
  <2>1. i \in 1..Len(input) /\ i # Len(input)
    BY <1>1
  <2> QED BY <2>1, SamePiece
<1>3. front \in Seq(Seq(Tokens)) /\ Len(front) = n - 1
  <2>1. n - 1 \in 0..Len(input)
    BY <1>1
  <2> QED BY <2>1, PiecesTokens
<1>4. here \in Seq(Tokens) /\ there \in Seq(Tokens) /\ last \in Seq(Tokens)
  <2>1. n \in 1..Len(input) /\ n \in 1..Len(input') /\ n + 1 \in 1..Len(input')
    BY <1>1
  <2> QED BY <2>1, PiecesTyped, PiecesTypedNext
<1>5. \A i \in 1..n - 1 : front[i] = Entry(i)
  BY DEF Pieces
<1>6. [i \in 1..Len(input) |-> Entry(i)] = Append(front, here)
  <2> DEFINE all == [i \in 1..n |-> Entry(i)]
  <2>1. \A i \in 1..n - 1 : all[i] = front[i]
    BY <1>5
  <2>2. all[n] = here
    OBVIOUS
  <2>3. DOMAIN all = 1..Len(front) + 1 /\ all = [i \in 1..Len(front) + 1 |-> all[i]]
    <3>1. Len(front) + 1 = n
      <4> HIDE DEF front
      <4> QED BY <1>3
    <3> QED BY <3>1
  <2> HIDE DEF front, here, all
  <2>4. all = Append(front, here)
    <3>1. n - 1 = Len(front) /\ n = Len(front) + 1
      BY <1>3
    <3>2. /\ \A i \in 1..Len(front) : all[i] = front[i]
          /\ all[Len(front) + 1] = here
      BY <2>1, <2>2, <3>1
    <3>3. front \in Seq(Seq(Tokens)) /\ here \in Seq(Tokens)
      BY <1>3, <1>4
    <3> QED BY <2>3, <3>2, <3>3, AppendIs, ZenonT(90)
  <2> QED BY <2>4 DEF all
<1>7. [i \in 1..Len(input') |-> Entry(i)'] = Append(Append(front, there), last)
  <2> DEFINE all == [i \in 1..n + 1 |-> Entry(i)']
             most == Append(front, there)
  <2>1. \A i \in 1..n - 1 : all[i] = front[i]
    BY <1>2, <1>5
  <2>2. all[n] = there /\ all[n + 1] = last
    OBVIOUS
  <2>3. DOMAIN all = 1..n + 1 /\ all = [i \in 1..n + 1 |-> all[i]]
    OBVIOUS
  <2> HIDE DEF front, there, last, all
  <2>4. most \in Seq(Seq(Tokens)) /\ Len(most) = n /\ most[n] = there
        /\ \A i \in 1..n - 1 : most[i] = front[i]
    BY <1>3, <1>4
  <2>5. \A i \in 1..n : all[i] = most[i]
    <3> HIDE DEF most
    <3> QED BY <2>1, <2>2, <2>4
  <2>6. all = Append(most, last)
    <3> HIDE DEF most
    <3>1. /\ \A i \in 1..Len(most) : all[i] = most[i]
          /\ all[Len(most) + 1] = last
          /\ DOMAIN all = 1..Len(most) + 1
          /\ all = [i \in 1..Len(most) + 1 |-> all[i]]
      BY <2>2, <2>3, <2>4, <2>5
    <3>2. most \in Seq(Seq(Tokens)) /\ last \in Seq(Tokens)
      BY <1>4, <2>4
    <3> QED BY <3>1, <3>2, AppendIs, ZenonT(90)
  <2> QED BY <1>1, <2>6 DEF all
<1> DEFINE before == FlattenSeq(front)
<1>8. Listing = FlattenSeq(Append(front, here))
  BY <1>6 DEF Listing
<1>9. Listing' = FlattenSeq(Append(Append(front, there), last))
  BY <1>7 DEF Listing
<1> HIDE DEF front, here, there, last
<1>10. before \in Seq(Tokens) /\ FlattenSeq(Append(front, here)) = before \o here
       /\ FlattenSeq(Append(front, there)) = before \o there
  BY <1>3, <1>4, FlattenSeqAppend
<1>11. FlattenSeq(Append(Append(front, there), last)) = (before \o there) \o last
  <2>1. Append(front, there) \in Seq(Seq(Tokens))
    BY <1>3, <1>4
  <2> QED BY <1>4, <1>10, <2>1, FlattenSeqAppend
<1> HIDE DEF before
<1> QED BY <1>8, <1>9, <1>10, <1>11 DEF here, there, last

\* The first byte's piece is the whole listing.
LEMMA ListingFirst ==
    ASSUME Types, Types', NEW b \in Bytes, Reads(b), input = <<>>
    PROVE  Listing = <<>> /\ Listing' = Entry(1)'
<1> DEFINE last == Entry(1)'
<1>1. Len(input) = 0 /\ Len(input') = 1
  BY DEF Types, TypeOK, Reads
<1>2. last \in Seq(Tokens)
  <2>1. 1 \in 1..Len(input')
    BY <1>1
  <2> QED BY <2>1, PiecesTypedNext
<1>3. [i \in 1..Len(input) |-> Entry(i)] = <<>>
  BY <1>1
<1>4. [i \in 1..Len(input') |-> Entry(i)'] = Append(<<>>, last)
  <2>1. \A i \in 1..1 : Entry(i)' = last
    OBVIOUS
  <2>2. [i \in 1..1 |-> Entry(i)'] = [i \in 1..1 |-> last]
    BY <2>1
  <2> HIDE DEF last
  <2>3. Append(<<>>, last) = [i \in 1..1 |-> last]
    OBVIOUS
  <2>4. [i \in 1..1 |-> Entry(i)'] = Append(<<>>, last)
    BY <2>2, <2>3
  <2> QED BY <1>1, <2>4
<1>5. FlattenSeq(<<>>) = <<>>
  <2>1. <<>> \in Seq(Seq(Tokens)) /\ Len(<<>>) = 0
    OBVIOUS
  <2> QED BY <2>1, FlattenSeqIs
<1>6. FlattenSeq(Append(<<>>, last)) = <<>> \o last
  <2>1. <<>> \in Seq(Seq(Tokens))
    OBVIOUS
  <2> HIDE DEF last
  <2> QED BY <1>2, <1>5, <2>1, FlattenSeqAppend
<1>7. Listing = FlattenSeq(<<>>)
  BY <1>3 DEF Listing
<1>8. Listing' = FlattenSeq(Append(<<>>, last))
  BY <1>4 DEF Listing
<1> HIDE DEF last
<1>9. Listing' = last
  BY <1>2, <1>6, <1>8
<1> QED BY <1>5, <1>7, <1>9 DEF last

LEMMA ListingGrows ==
    ASSUME Types, Types', NEW b \in Bytes, Reads(b), NEW n \in Nat, n = Len(input),
           ~(HoldsReturn /\ b = "nl")
    PROVE  Listing' = Listing \o Entry(n + 1)'
<1> DEFINE last == Entry(n + 1)'
<1>1. last \in Seq(Tokens)
  <2>1. n + 1 \in 1..Len(input')
    BY DEF Types, TypeOK, Reads
  <2> QED BY <2>1, PiecesTypedNext
<1>2. CASE n = 0
  <2>1. input \in Seq(Bytes) /\ Len(input) = 0
    BY <1>2 DEF Types, TypeOK
  <2>2. input = <<>>
    BY <2>1, EmptySeq
  <2>3. Listing = <<>> /\ Listing' = Entry(1)'
    BY <2>2, ListingFirst
  <2>4. Listing' = last
    BY <1>2, <2>3
  <2> HIDE DEF last
  <2>5. Listing' = Listing \o last
    BY <1>1, <2>3, <2>4
  <2> QED BY <2>5 DEF last
<1>3. CASE n # 0
  <2>1. PICK before \in Seq(Tokens) :
             /\ Listing = before \o Entry(n)
             /\ Listing' = (before \o Entry(n)') \o Entry(n + 1)'
    BY <1>3, ListingLast
  <2>2. Entry(n)' = Entry(n)
    <3>1. n \in 1..Len(input)
      BY <1>3
    <3> QED BY <3>1, SamePiece
  <2> QED BY <2>1, <2>2
<1> QED BY <1>2, <1>3

\* A carriage return that a newline follows shows as ^M.
LEMMA ReturnShows ==
    ASSUME Types, Types', Reads("nl"), NEW n \in Nat, n = Len(input), HoldsReturn
    PROVE  \E before \in Seq(Tokens) :
             /\ Listing = Append(before, Token("cr"))
             /\ Listing' = Append(before, Token("^M")) \o Entry(n + 1)'
<1>1. n \in 1..Len(input) /\ n \in Nat \ {0} /\ "nl" \in Bytes /\ n \in 1..Len(input')
  BY DEF HoldsReturn, Types, TypeOK, Bytes, Reads
<1>2. PICK before \in Seq(Tokens) :
             /\ Listing = before \o Entry(n)
             /\ Listing' = (before \o Entry(n)') \o Entry(n + 1)'
  BY <1>1, ListingLast
<1>3. /\ Number(n)' = Number(n) /\ ~Squeezed(n) /\ ~Squeezed(n)'
      /\ Body(n) = <<Token("cr")>> /\ Body(n)' = <<Token("^M")>>
  BY <1>1, SamePieces
<1>4. Number(n) \in Seq(Tokens)
  BY <1>1, PieceTokens
<1>5. Entry(n) = Number(n) \o <<Token("cr")>> /\ Entry(n)' = Number(n) \o <<Token("^M")>>
  <2>1. Entry(n) = IF Squeezed(n) THEN <<>> ELSE Number(n) \o Body(n)
    BY DEF Entry, Number, Body
  <2>2. Entry(n)' = IF Squeezed(n)' THEN <<>> ELSE Number(n)' \o Body(n)'
    BY DEF Entry, Number, Body
  <2> QED BY <1>3, <2>1, <2>2
<1>6. Token("cr") \in Tokens /\ Token("^M") \in Tokens
  BY DEF Token, Tokens, Kinds, Bytes
<1> DEFINE text == before \o Number(n)
<1>7. text \in Seq(Tokens)
  BY <1>4
<1>8. \A t \in Tokens : before \o (Number(n) \o <<t>>) = Append(text, t)
  <2> SUFFICES ASSUME NEW t \in Tokens
               PROVE  before \o (Number(n) \o <<t>>) = Append(text, t)
    OBVIOUS
  <2> HIDE DEF text
  <2>1. before \o (Number(n) \o <<t>>) = text \o <<t>>
    <3>1. <<t>> \in Seq(Tokens)
      OBVIOUS
    <3> QED BY <1>4, <3>1, ConcatAssociative DEF text
  <2> QED BY <1>7, <2>1, AppendIsConcat
<1> HIDE DEF text
<1> QED BY <1>2, <1>5, <1>6, <1>7, <1>8

-----------------------------------------------------------------------------
\* The line the next byte belongs to, and its place in it.
LEMMA NumbersGrow ==
    ASSUME Types, Types', NEW b \in Bytes, Reads(b), NEW n \in Nat, n = Len(input)
    PROVE  /\ NumbersBefore' = NumbersBefore + IF Numbered(n + 1)' THEN 1 ELSE 0
           /\ LineNumber(n + 1)' = NumbersBefore'
           /\ NumbersBefore \in Nat
<1>1. Len(input') = n + 1
  BY DEF Types, TypeOK, Reads
<1>2. \A j \in 1..n : Numbered(j)' <=> Numbered(j)
  BY SameBefore
<1> DEFINE S == {j \in 1..n : Numbered(j)}
           T == {j \in 1..n + 1 : Numbered(j)'}
<1>3. IsFiniteSet(S) /\ Cardinality(S) \in Nat /\ n + 1 \notin S
  BY NumbersFinite
<1>4. T = IF Numbered(n + 1)' THEN S \cup {n + 1} ELSE S
  <2>1. \A j \in 1..n + 1 : j \in 1..n \/ j = n + 1
    OBVIOUS
  <2>2. 1..n \subseteq 1..n + 1 /\ n + 1 \in 1..n + 1
    OBVIOUS
  <2> QED BY <1>2, <2>1, <2>2, Zenon
<1>5. NumbersBefore = Cardinality(S) /\ NumbersBefore' = Cardinality(T)
      /\ LineNumber(n + 1)' = Cardinality(T)
  <2>1. NumbersBefore = Cardinality(S)
    BY DEF NumbersBefore
  <2>2. NumbersBefore' = Cardinality(T)
    BY <1>1 DEF NumbersBefore
  <2>3. LineNumber(n + 1)' = Cardinality(T)
    BY DEF LineNumber
  <2> QED BY <2>1, <2>2, <2>3
<1> HIDE DEF S, T
<1>6. Cardinality(T) = Cardinality(S) + IF Numbered(n + 1)' THEN 1 ELSE 0
  <2>1. Cardinality(S \cup {n + 1}) = Cardinality(S) + 1
    BY <1>3, FS_AddElement
  <2>2. CASE Numbered(n + 1)'
    BY <1>4, <2>1, <2>2
  <2>3. CASE ~Numbered(n + 1)'
    BY <1>3, <1>4, <2>3
  <2> QED BY <2>2, <2>3
<1> QED BY <1>3, <1>5, <1>6

\* What the next byte is to its line.
LEMMA NextByte ==
    ASSUME Types, Types', NEW b \in Bytes, Reads(b), NEW n \in Nat, n = Len(input)
    PROVE  /\ input'[n + 1] = b
           /\ StartsLine(n + 1)' <=> StartsLine(n + 1)
           /\ BlankLine(n + 1)' <=> StartsLine(n + 1) /\ b = "nl"
           /\ Squeezed(n + 1)' <=> /\ opts.squeeze /\ StartsLine(n + 1) /\ b = "nl"
                                   /\ n > 0 /\ BlankLine(n)
           /\ StartsLine(n + 2)' <=> b = "nl"
           /\ n > 0 => (BlankLine(n)' <=> BlankLine(n))
           /\ ~BeforeNewline(n + 1)'
<1>1. Len(input') = n + 1 /\ input'[n + 1] = b /\ opts' = opts
  BY DEF Types, TypeOK, Reads
<1>2. StartsLine(n + 1)' <=> StartsLine(n + 1)
  <2>1. n + 1 \in 1..Len(input) + 1
    OBVIOUS
  <2> QED BY <2>1, SameBefore
<1>3. n > 0 => (BlankLine(n)' <=> BlankLine(n))
  <2>1. n > 0 => n \in 1..Len(input)
    OBVIOUS
  <2> QED BY <2>1, SameBefore
<1>4. BlankLine(n + 1)' <=> StartsLine(n + 1) /\ b = "nl"
  BY <1>1, <1>2 DEF BlankLine
<1>5. Squeezed(n + 1)' <=> /\ opts.squeeze /\ StartsLine(n + 1) /\ b = "nl"
                           /\ n > 0 /\ BlankLine(n)
  <2>1. (n + 1) - 1 = n /\ (n + 1 > 1 <=> n > 0)
    OBVIOUS
  <2>2. Squeezed(n + 1)' <=> /\ opts.squeeze /\ BlankLine(n + 1)' /\ n > 0 /\ BlankLine(n)'
    BY <1>1, <2>1 DEF Squeezed
  <2> QED BY <1>3, <1>4, <2>2
<1>6. StartsLine(n + 2)' <=> b = "nl"
  <2>1. (n + 2) - 1 = n + 1 /\ n + 2 # 1
    OBVIOUS
  <2> QED BY <1>1, <2>1 DEF StartsLine
<1>7. ~BeforeNewline(n + 1)'
  BY <1>1 DEF BeforeNewline
<1> QED BY <1>1, <1>2, <1>3, <1>4, <1>5, <1>6, <1>7

LEMMA ConcatAppend ==
    ASSUME NEW S, NEW s \in Seq(S), NEW t \in Seq(S), NEW e \in S
    PROVE  s \o Append(t, e) = Append(s \o t, e)
<1>1. <<e>> \in Seq(S) /\ s \o t \in Seq(S)
  OBVIOUS
<1>2. Append(t, e) = t \o <<e>> /\ Append(s \o t, e) = (s \o t) \o <<e>>
  BY <1>1, AppendIsConcat
<1> QED BY <1>1, <1>2, ConcatAssociative

LEMMA AppendOnce ==
    ASSUME NEW S, NEW s \in Seq(S), NEW t \in Seq(S), NEW e \in S,
           Append(s, e) = Append(t, e)
    PROVE  s = t
<1>1. Len(s) = Len(t)
  BY AppendProperties
<1>2. \A i \in 1..Len(s) : s[i] = t[i]
  BY <1>1, AppendProperties
<1> QED BY <1>1, <1>2, SeqEqual

LEMMA OutputTokens ==
    /\ \A t \in Kinds : Token(t) \in Tokens
    /\ \A out \in Seq(Tokens), cond \in BOOLEAN, n \in Nat :
         /\ EndOfLine(out) \in Seq(Tokens)
         /\ EndOfLine(out) = out \o EndOfLine(<<>>)
         /\ PutNumber(out, cond, n) \in Seq(Tokens)
         /\ PutNumber(out, cond, n) = out \o PutNumber(<<>>, cond, n)
<1>1. \A t \in Kinds : Token(t) \in Tokens
  BY DEF Token, Tokens
<1>2. Token("nl") \in Tokens /\ Token("$") \in Tokens
  BY <1>1 DEF Kinds, Bytes
<1>3. ASSUME NEW out \in Seq(Tokens), NEW cond \in BOOLEAN, NEW n \in Nat
      PROVE  /\ EndOfLine(out) \in Seq(Tokens)
             /\ EndOfLine(out) = out \o EndOfLine(<<>>)
             /\ PutNumber(out, cond, n) \in Seq(Tokens)
             /\ PutNumber(out, cond, n) = out \o PutNumber(<<>>, cond, n)
  <2>1. <<"number", n>> \in Tokens
    BY DEF Tokens, Kinds
  <2> DEFINE dollar == Token("$")
             nl == Token("nl")
             num == <<"number", n>>
  <2> SUFFICES /\ EndOfLine(out) \in Seq(Tokens)
               /\ EndOfLine(out) = out \o EndOfLine(<<>>)
               /\ PutNumber(out, cond, n) \in Seq(Tokens)
               /\ PutNumber(out, cond, n) = out \o PutNumber(<<>>, cond, n)
    OBVIOUS
  <2>2. dollar \in Tokens /\ nl \in Tokens /\ num \in Tokens
    BY <1>2, <2>1
  <2>3. PutNumber(out, cond, n) = IF cond THEN Append(out, num) ELSE out
    BY DEF PutNumber
  <2>4. PutNumber(<<>>, cond, n) = IF cond THEN Append(<<>>, num) ELSE <<>>
    BY DEF PutNumber
  <2>5. \A s : EndOfLine(s) = IF opts.ends THEN Append(Append(s, dollar), nl)
                              ELSE Append(s, nl)
    BY DEF EndOfLine, Put
  <2> HIDE DEF dollar, nl, num
  <2>6. out \o <<>> = out /\ <<>> \in Seq(Tokens)
    BY ConcatEmptySeq
  <2>7. /\ out \o Append(<<>>, num) = Append(out, num)
        /\ out \o Append(<<>>, nl) = Append(out, nl)
        /\ out \o Append(<<>>, dollar) = Append(out, dollar)
    BY <2>2, <2>6, ConcatAppend
  <2>8. out \o Append(Append(<<>>, dollar), nl) = Append(Append(out, dollar), nl)
    <3>1. Append(<<>>, dollar) \in Seq(Tokens)
      BY <2>2, <2>6
    <3> QED BY <2>2, <2>7, <3>1, ConcatAppend
  <2>9. EndOfLine(out) \in Seq(Tokens) /\ EndOfLine(out) = out \o EndOfLine(<<>>)
    <3>1. Append(out, nl) \in Seq(Tokens) /\ Append(Append(out, dollar), nl) \in Seq(Tokens)
      BY <2>2
    <3>2. CASE opts.ends
      BY <2>5, <2>8, <3>1, <3>2
    <3>3. CASE ~opts.ends
      BY <2>5, <2>7, <3>1, <3>3
    <3> QED BY <3>2, <3>3
  <2>10. /\ PutNumber(out, cond, n) \in Seq(Tokens)
         /\ PutNumber(out, cond, n) = out \o PutNumber(<<>>, cond, n)
    <3>1. Append(out, num) \in Seq(Tokens)
      BY <2>2
    <3>2. CASE cond
      BY <2>3, <2>4, <2>7, <3>1, <3>2
    <3>3. CASE ~cond
      BY <2>3, <2>4, <2>6, <3>3
    <3> QED BY <3>2, <3>3
  <2> QED BY <2>9, <2>10
<1> QED BY <1>1, <1>3

LEMMA ListInit == Init /\ Types => ListInv
<1> SUFFICES ASSUME Init, Types PROVE ListInv
  OBVIOUS
<1>1. /\ input = <<>> /\ Len(input) = 0 /\ finished = FALSE /\ fresh = TRUE
      /\ c.newlines = 0 /\ c.cr = "none" /\ c.line = 0 /\ c.out = <<>>
  BY DEF Init
<1>2. Listing = <<>>
  <2>1. [i \in 1..Len(input) |-> Entry(i)] = <<>>
    BY <1>1
  <2>2. <<>> \in Seq(Seq(Tokens)) /\ Len(<<>>) = 0
    OBVIOUS
  <2>3. FlattenSeq(<<>>) = <<>>
    BY <2>2, FlattenSeqIs
  <2> QED BY <2>1, <2>3 DEF Listing
<1>3. ListsInput
  BY <1>1, <1>2 DEF ListsInput, Printed, Put
<1>4. NumbersBefore = 0
  <2>1. {j \in 1..Len(input) : Numbered(j)} = {}
    BY <1>1
  <2> QED BY <2>1, FS_EmptySet DEF NumbersBefore
<1>5. LinePlace
  BY <1>1, <1>4 DEF LinePlace, StartsLine
<1>6. c.out \in Seq(Tokens)
  BY <1>1
<1> QED BY <1>1, <1>3, <1>5, <1>6 DEF ListInv, HoldsReturn

LEMMA ListEnds ==
    ASSUME Types, ListInv, EndOfBuffer
    PROVE  ListInv'
<1>1. /\ c'.newlines = c.newlines /\ c'.line = c.line /\ c'.out = c.out
      /\ c'.cr # "seen" /\ (c'.cr = "none" <=> c.cr = "none")
  BY DEF EndOfBuffer, CEndOfBuffer, Types, TypeOK
<1>2. opts' = opts /\ input' = input /\ finished' = finished
  BY DEF EndOfBuffer
<1>3. Listing' = Listing /\ HoldsReturn' = HoldsReturn /\ NumbersBefore' = NumbersBefore
      /\ CanWriteFast' = CanWriteFast
      /\ \A i : StartsLine(i)' = StartsLine(i) /\ BlankLine(i)' = BlankLine(i)
  BY <1>2 DEF Listing, Entry, Squeezed, PutNumber, Numbered, LineNumber, StartsLine,
     BlankLine, EndOfLine, Put, Kind, BeforeNewline, Shown, HoldsReturn, NumbersBefore,
     CanWriteFast
<1>4. ListsInput'
  BY <1>1, <1>3 DEF ListInv, ListsInput, Printed, Put
<1>5. ~CanWriteFast => LinePlace'
  <2> SUFFICES ASSUME LinePlace PROVE LinePlace'
    BY DEF ListInv
  <2> QED BY <1>1, <1>2, <1>3 DEF LinePlace
<1> QED BY <1>1, <1>2, <1>3, <1>4, <1>5 DEF ListInv

LEMMA ListFinishes ==
    ASSUME Types, ListInv, Finish
    PROVE  ListInv'
<1>1. /\ c'.newlines = c.newlines /\ c'.line = c.line /\ c'.cr = "none"
      /\ c'.out = Put(c.out, c.cr = "pending", "cr")
  BY DEF Finish, Types, TypeOK
<1>2. opts' = opts /\ input' = input /\ finished' /\ fresh
  BY DEF Finish
<1>3. Listing' = Listing /\ HoldsReturn' = HoldsReturn /\ NumbersBefore' = NumbersBefore
      /\ CanWriteFast' = CanWriteFast
      /\ \A i : StartsLine(i)' = StartsLine(i) /\ BlankLine(i)' = BlankLine(i)
  BY <1>2 DEF Listing, Entry, Squeezed, PutNumber, Numbered, LineNumber, StartsLine,
     BlankLine, EndOfLine, Put, Kind, BeforeNewline, Shown, HoldsReturn, NumbersBefore,
     CanWriteFast
<1>4. c.cr = "pending" <=> c.cr # "none"
  BY <1>2 DEF ListInv, Types, TypeOK
<1>5. c'.out = Listing /\ Listing \in Seq(Tokens)
  BY <1>1, <1>4, ListingTokens DEF ListInv, ListsInput, Printed, Put
<1>6. ListsInput'
  BY <1>1, <1>3, <1>5 DEF ListsInput, Printed, Put
<1>7. ~CanWriteFast => LinePlace'
  <2> SUFFICES ASSUME LinePlace PROVE LinePlace'
    BY DEF ListInv
  <2> QED BY <1>1, <1>2, <1>3 DEF LinePlace
<1> QED BY <1>1, <1>2, <1>3, <1>5, <1>6, <1>7 DEF ListInv

\* A byte that is copied is the whole of its piece.
LEMMA ListCopies ==
    ASSUME Types, ListInv, CanWriteFast, NEW b \in Bytes, Byte(b)
    PROVE  ListInv'
<1>1. PICK n \in Nat : n = Len(input)
  BY DEF Types, TypeOK
<1>2. Types' /\ Reads(b) /\ CanWriteFast' /\ opts' = opts /\ fresh' = FALSE
  BY ByteTypes DEF Byte, Reads, CanWriteFast
<1>3. c'.cr = c.cr /\ c'.out = Append(c.out, Token(b))
  BY DEF Byte, CByte, Types
<1>4. ~HoldsReturn /\ ~HoldsReturn' /\ c.cr = "none"
  BY <1>2 DEF HoldsReturn, CanWriteFast, ListInv, Types, TypeOK
<1>5. Listing' = Listing \o Entry(n + 1)'
  BY <1>1, <1>2, <1>4, ListingGrows
<1>6. input'[n + 1] = b /\ ~BeforeNewline(n + 1)'
  BY <1>1, <1>2, NextByte
<1>7. ~Squeezed(n + 1)' /\ ~Numbered(n + 1)'
  BY <1>2 DEF Squeezed, Numbered, CanWriteFast
<1>8. Entry(n + 1)' = <<Token(b)>>
  <2>1. PutNumber(<<>>, Numbered(n + 1), LineNumber(n + 1))' = <<>>
    BY <1>7 DEF PutNumber
  <2>2. EndOfLine(<<>>)' = <<Token("nl")>>
    BY <1>2 DEF EndOfLine, Put, CanWriteFast
  <2>3. Kind(n + 1)' = b
    BY <1>2, <1>6 DEF Kind, Shown, CanWriteFast, Bytes
  <2>4. <<Token(b)>> \in Seq({Token(b)}) /\ <<>> \o <<Token(b)>> = <<Token(b)>>
    OBVIOUS
  <2> QED BY <1>6, <1>7, <2>1, <2>2, <2>3, <2>4 DEF Entry
<1>9. Token(b) \in Tokens /\ c.out \in Seq(Tokens)
  BY OutputTokens DEF Kinds, ListInv
<1>10. c'.out \in Seq(Tokens) /\ c'.out = c.out \o <<Token(b)>>
  BY <1>3, <1>9, AppendIsConcat
<1>11. ListsInput'
  BY <1>3, <1>4, <1>5, <1>8, <1>10 DEF ListInv, ListsInput, Printed, Put
<1> QED BY <1>2, <1>3, <1>4, <1>10, <1>11 DEF ListInv

\* A newline at the start of a line, in a line, and after a carriage return.
LEMMA ListNewline ==
    ASSUME Types, ListInv, ~finished, ~CanWriteFast, Byte("nl")
    PROVE  ListInv'
<1>0. "nl" \in Bytes
  BY DEF Bytes
<1>1. PICK n \in Nat : n = Len(input)
  BY DEF Types, TypeOK
<1>2. Types' /\ Reads("nl") /\ ~CanWriteFast' /\ opts' = opts /\ fresh' = FALSE
      /\ finished' = finished
  BY <1>0, ByteTypes DEF Byte, Reads, CanWriteFast
<1>3. Len(input') = n + 1 /\ input'[n + 1] = "nl" /\ input' # <<>>
  BY <1>1, <1>2 DEF Types, TypeOK, Reads
<1>4. LinePlace /\ c.newlines \in -1..2 /\ c.line \in Nat /\ opts.squeeze \in BOOLEAN
  BY DEF ListInv, Types, TypeOK
<1>5. /\ StartsLine(n + 1)' <=> StartsLine(n + 1)
      /\ BlankLine(n + 1)' <=> StartsLine(n + 1)
      /\ Squeezed(n + 1)' <=> opts.squeeze /\ StartsLine(n + 1) /\ n > 0 /\ BlankLine(n)
      /\ StartsLine(n + 2)'
      /\ n > 0 => (BlankLine(n)' <=> BlankLine(n))
  BY <1>0, <1>1, <1>2, NextByte
<1>6. /\ c.newlines >= 0 <=> StartsLine(n + 1)
      /\ c.newlines >= 1 <=> n > 0 /\ BlankLine(n)
  <2>1. n > 0 <=> input # <<>>
    BY <1>1, EmptySeq DEF Types, TypeOK
  <2> QED BY <1>1, <1>4, <2>1 DEF LinePlace
<1> DEFINE m == IF c.newlines = 2 THEN 2 ELSE c.newlines + 1
           number == m > 0 /\ opts.number = "all"
<1>7. c' = CNewline
  BY <1>0 DEF Byte, CByte
<1>8. /\ c'.newlines = m /\ (Squeezed(n + 1)' <=> m = 2 /\ opts.squeeze)
  BY <1>4, <1>5, <1>6, <1>7 DEF CNewline, Types
<1>9. Numbered(n + 1)' <=> ~Squeezed(n + 1)' /\ number
  BY <1>2, <1>4, <1>5, <1>6 DEF Numbered
<1>10. /\ NumbersBefore' = NumbersBefore + IF Numbered(n + 1)' THEN 1 ELSE 0
       /\ LineNumber(n + 1)' = NumbersBefore'
       /\ NumbersBefore = c.line
  BY <1>0, <1>1, <1>2, <1>4, NumbersGrow DEF LinePlace
<1>11. c'.line = NumbersBefore'
  <2>1. CASE Squeezed(n + 1)'
    BY <1>4, <1>7, <1>8, <1>9, <1>10, <2>1 DEF CNewline, Types
  <2>2. CASE ~Squeezed(n + 1)'
    BY <1>4, <1>7, <1>8, <1>9, <1>10, <2>2 DEF CNewline
  <2> QED BY <2>1, <2>2
<1>12. LinePlace'
  <2>1. /\ c'.newlines >= 0
        /\ c'.newlines >= 1 <=> c.newlines >= 0
        /\ c'.newlines = 2 <=> c.newlines >= 1
    BY <1>4, <1>8
  <2>2. StartsLine(Len(input) + 1)'
    <3>1. (n + 1) + 1 = n + 2
      OBVIOUS
    <3> QED BY <1>3, <1>5, <3>1 DEF StartsLine
  <2>3. BlankLine(Len(input))' <=> c.newlines >= 0
    BY <1>3, <1>5, <1>6 DEF BlankLine, StartsLine
  <2>4. Len(input') > 1 /\ BlankLine(Len(input))' /\ BlankLine(Len(input) - 1)'
          <=> c.newlines >= 1
    <3>1. Len(input') > 1 <=> n > 0
      BY <1>3
    <3>2. (n + 1) - 1 = n
      OBVIOUS
    <3>3. BlankLine(Len(input) - 1)' <=> BlankLine(n)'
      BY <1>3, <3>2 DEF BlankLine, StartsLine
    <3> QED BY <1>4, <1>5, <1>6, <2>3, <3>1, <3>3
  <2> QED BY <1>3, <1>11, <2>1, <2>2, <2>3, <2>4 DEF LinePlace
<1>13. c.cr # "none" <=> HoldsReturn
  BY DEF ListInv
<1>14. ~HoldsReturn'
  BY <1>3 DEF HoldsReturn
<1>15. c.out \in Seq(Tokens) /\ Printed(c.out, c.cr # "none") = Listing
  BY DEF ListInv, ListsInput
<1>16. EndOfLine(<<>>)' = EndOfLine(<<>>)
  BY <1>2 DEF EndOfLine, Put
<1>17. CASE Squeezed(n + 1)'
  <2>1. c'.cr = c.cr /\ c'.out = c.out
    BY <1>7, <1>8, <1>17 DEF CNewline, Types
  <2>2. ~HoldsReturn
    <3>1. n > 0 /\ BlankLine(n)
      BY <1>5, <1>17
    <3> QED BY <1>1, <3>1 DEF BlankLine, HoldsReturn
  <2>3. Listing' = Listing \o <<>>
    <3>1. Entry(n + 1)' = <<>>
      BY <1>17 DEF Entry
    <3> QED BY <1>0, <1>1, <1>2, <2>2, <3>1, ListingGrows
  <2>4. c.cr = "none" /\ c.out = Listing /\ Listing' = c.out
    BY <1>13, <1>15, <2>2, <2>3, ConcatEmptySeq DEF Printed, Put
  <2>5. ListsInput'
    BY <2>1, <2>4 DEF ListsInput, Printed, Put
  <2> QED BY <1>2, <1>12, <1>14, <1>15, <2>1, <2>4, <2>5 DEF ListInv
<1>18. CASE ~Squeezed(n + 1)'
  <2> DEFINE num == PutNumber(<<>>, number, c.line + 1)
  <2>1. /\ c'.cr = "none"
        /\ c'.out = EndOfLine(Put(PutNumber(c.out, number, c.line + 1), c.cr # "none", "^M"))
    BY <1>7, <1>8, <1>18 DEF CNewline
  <2>2. Entry(n + 1)' = num \o EndOfLine(<<>>)
    <3>1. PutNumber(<<>>, Numbered(n + 1), LineNumber(n + 1))' = num
      BY <1>9, <1>10, <1>18 DEF PutNumber
    <3> QED BY <1>3, <1>16, <1>18, <3>1 DEF Entry
  <2>3. c'.out \in Seq(Tokens) /\ c'.out = Listing'
    <3>1. CASE c.cr = "none"
      <4>1. c.out = Listing /\ c'.out = EndOfLine(PutNumber(c.out, number, c.line + 1))
        BY <1>15, <2>1, <3>1 DEF Printed, Put
      <4>2. Listing' = Listing \o Entry(n + 1)'
        BY <1>0, <1>1, <1>2, <1>13, <3>1, ListingGrows
      <4> HIDE DEF number
      <4>3. /\ num \in Seq(Tokens) /\ EndOfLine(<<>>) \in Seq(Tokens)
            /\ PutNumber(c.out, number, c.line + 1) = c.out \o num
        <5>1. <<>> \in Seq(Tokens) /\ c.line + 1 \in Nat
          BY <1>4
        <5>2. number \in BOOLEAN
          BY DEF number
        <5> QED BY <1>15, <5>1, <5>2, OutputTokens, ZenonT(30)
      <4> HIDE DEF num
      <4>4. /\ c.out \o num \in Seq(Tokens)
            /\ EndOfLine(c.out \o num) \in Seq(Tokens)
            /\ EndOfLine(c.out \o num) = (c.out \o num) \o EndOfLine(<<>>)
        <5>1. c.out \o num \in Seq(Tokens)
          BY <1>15, <4>3
        <5> QED BY <5>1, OutputTokens
      <4>5. (c.out \o num) \o EndOfLine(<<>>) = c.out \o (num \o EndOfLine(<<>>))
        <5> DEFINE end == EndOfLine(<<>>)
        <5>1. c.out \in Seq(Tokens) /\ num \in Seq(Tokens) /\ end \in Seq(Tokens)
          BY <1>15, <4>3
        <5> HIDE DEF end
        <5>2. (c.out \o num) \o end = c.out \o (num \o end)
          <6>1. \A s, t, u \in Seq(Tokens) : (s \o t) \o u = s \o (t \o u)
            BY ConcatAssociative
          <6> QED BY <5>1, <6>1
        <5> QED BY <5>2 DEF end
      <4> QED BY <2>2, <4>1, <4>2, <4>3, <4>4, <4>5
    <3>2. CASE c.cr # "none"
      <4>1. HoldsReturn /\ Append(c.out, Token("cr")) = Listing
        BY <1>13, <1>15, <3>2 DEF Printed, Put
      <4>2. ~StartsLine(n + 1) /\ n > 0
        BY <1>1, <1>3, <4>1 DEF HoldsReturn, StartsLine, Types, TypeOK
      <4>3. ~number
        BY <1>4, <1>6, <4>2
      <4>4. num = <<>> /\ PutNumber(c.out, number, c.line + 1) = c.out
        BY <4>3 DEF PutNumber
      <4>5. c'.out = EndOfLine(Append(c.out, Token("^M")))
        BY <2>1, <3>2, <4>4 DEF Put
      <4>6. PICK before \in Seq(Tokens) :
             /\ Listing = Append(before, Token("cr"))
             /\ Listing' = Append(before, Token("^M")) \o Entry(n + 1)'
        BY <1>1, <1>2, <4>1, ReturnShows
      <4>7. Token("cr") \in Tokens /\ Token("^M") \in Tokens
            /\ EndOfLine(<<>>) \in Seq(Tokens)
        <5>1. <<>> \in Seq(Tokens) /\ 0 \in Nat /\ {"cr", "^M"} \subseteq Kinds
          BY DEF Kinds, Bytes
        <5> QED BY <5>1, OutputTokens
      <4>8. before = c.out
        <5> DEFINE e == Token("cr")
        <5>1. e \in Tokens /\ c.out \in Seq(Tokens) /\ Append(c.out, e) = Append(before, e)
          BY <1>15, <4>1, <4>6, <4>7
        <5> HIDE DEF e
        <5> QED BY <5>1, AppendOnce
      <4>9. Entry(n + 1)' = EndOfLine(<<>>)
        BY <2>2, <4>4, <4>7, ConcatEmptySeq
      <4> DEFINE out == Append(c.out, Token("^M"))
      <4>10. out \in Seq(Tokens)
        BY <1>15, <4>7
      <4>11. EndOfLine(out) \in Seq(Tokens) /\ EndOfLine(out) = out \o EndOfLine(<<>>)
        <5> HIDE DEF out
        <5> QED BY <4>10, OutputTokens
      <4> QED BY <4>5, <4>6, <4>8, <4>9, <4>11
    <3> QED BY <3>1, <3>2
  <2>4. ListsInput'
    BY <2>1, <2>3 DEF ListsInput, Printed, Put
  <2> QED BY <1>2, <1>12, <1>14, <2>1, <2>3, <2>4 DEF ListInv
<1> QED BY <1>17, <1>18

\* A byte of text, which may be a carriage return to hold back.
LEMMA ListText ==
    ASSUME Types, ListInv, ~finished, ~CanWriteFast, NEW b \in Bytes \ {"nl"}, Byte(b)
    PROVE  ListInv'
<1>1. PICK n \in Nat : n = Len(input)
  BY DEF Types, TypeOK
<1>2. Types' /\ Reads(b) /\ ~CanWriteFast' /\ opts' = opts /\ fresh' = FALSE
      /\ finished' = finished
  BY ByteTypes DEF Byte, Reads, CanWriteFast
<1>3. Len(input') = n + 1 /\ input'[n + 1] = b /\ input' # <<>>
  BY <1>1, <1>2 DEF Types, TypeOK, Reads
<1>4. LinePlace /\ c.newlines \in -1..2 /\ c.line \in Nat
      /\ opts.number \in {"none", "nonempty", "all"}
  BY DEF ListInv, Types, TypeOK
<1>5. /\ StartsLine(n + 1)' <=> StartsLine(n + 1)
      /\ ~BlankLine(n + 1)' /\ ~Squeezed(n + 1)' /\ ~StartsLine(n + 2)'
      /\ ~BeforeNewline(n + 1)'
  BY <1>1, <1>2, NextByte
<1> DEFINE number == c.newlines >= 0 /\ opts.number # "none"
           waits == Defers(b) /\ opts.ends
           before == PutNumber(Put(c.out, c.cr # "none", "cr"), number, c.line + 1)
           num == PutNumber(<<>>, number, c.line + 1)
<1>6. /\ c'.newlines = -1 /\ c'.cr = (IF waits THEN "seen" ELSE "none")
      /\ c'.line = (IF number THEN c.line + 1 ELSE c.line)
      /\ c'.out = Put(before, ~waits, Shown(b))
  BY DEF Byte, CByte, CText
<1>7. Numbered(n + 1)' <=> number
  BY <1>1, <1>2, <1>4, <1>5 DEF Numbered, LinePlace
<1>8. /\ NumbersBefore' = NumbersBefore + IF Numbered(n + 1)' THEN 1 ELSE 0
      /\ LineNumber(n + 1)' = NumbersBefore'
      /\ NumbersBefore = c.line
  BY <1>1, <1>2, <1>4, NumbersGrow DEF LinePlace
<1>9. LinePlace'
  <2>1. (n + 1) + 1 = n + 2
    OBVIOUS
  <2>2. ~StartsLine(Len(input) + 1)'
    BY <1>3, <1>5, <2>1 DEF StartsLine
  <2>3. ~BlankLine(Len(input))'
    BY <1>3 DEF BlankLine
  <2>4. c'.line = NumbersBefore'
    BY <1>4, <1>6, <1>7, <1>8
  <2> QED BY <1>6, <2>2, <2>3, <2>4 DEF LinePlace
<1>10. Listing \in Seq(Tokens) /\ Put(c.out, c.cr # "none", "cr") = Listing
       /\ Token(Shown(b)) \in Tokens
  BY ListingTokens, ShownKind, OutputTokens DEF ListInv, ListsInput, Printed
<1>11. /\ before = Listing \o num /\ num \in Seq(Tokens) /\ before \in Seq(Tokens)
  <2>1. <<>> \in Seq(Tokens) /\ c.line + 1 \in Nat /\ number \in BOOLEAN
    BY <1>4
  <2>2. before = PutNumber(Listing, number, c.line + 1)
    BY <1>10
  <2> HIDE DEF number, before
  <2>3. /\ PutNumber(Listing, number, c.line + 1) \in Seq(Tokens)
        /\ PutNumber(Listing, number, c.line + 1) = Listing \o num
        /\ num \in Seq(Tokens)
    BY <1>10, <2>1, OutputTokens, ZenonT(30)
  <2> QED BY <2>2, <2>3
<1>12. ~(HoldsReturn /\ b = "nl")
  OBVIOUS
<1>13. Listing' = Listing \o Entry(n + 1)'
  BY <1>1, <1>2, <1>12, ListingGrows
<1>14. Entry(n + 1)' = Append(num, Token(Shown(b)))
  <2>1. PutNumber(<<>>, Numbered(n + 1), LineNumber(n + 1))' = num
    BY <1>4, <1>7, <1>8 DEF PutNumber
  <2>2. Kind(n + 1)' = Shown(b)
    BY <1>2, <1>3, <1>5 DEF Kind, Shown
  <2>3. Entry(n + 1)' = num \o <<Token(Shown(b))>>
    BY <1>3, <1>5, <2>1, <2>2 DEF Entry, Token
  <2> HIDE DEF num
  <2> QED BY <1>10, <1>11, <2>3, AppendIsConcat
<1>15. Listing' = Append(before, Token(Shown(b)))
  <2> DEFINE e == Token(Shown(b))
  <2>1. Listing' = Listing \o Append(num, e)
    BY <1>13, <1>14
  <2> HIDE DEF num, before, e
  <2>2. Listing \o Append(num, e) = Append(Listing \o num, e)
    BY <1>10, <1>11, ConcatAppend DEF e
  <2>3. Listing' = Append(before, e)
    BY <1>11, <2>1, <2>2
  <2> QED BY <2>3 DEF e
<1>16. waits => Shown(b) = "cr"
  BY DEF Defers, Shown
<1>17. c'.out \in Seq(Tokens) /\ ListsInput'
  <2> DEFINE e == Token(Shown(b))
  <2>1. Append(before, e) \in Seq(Tokens)
    <3> HIDE DEF before, e
    <3> QED BY <1>10, <1>11 DEF e
  <2>2. CASE waits
    BY <1>6, <1>11, <1>15, <1>16, <2>2 DEF ListsInput, Printed, Put
  <2>3. CASE ~waits
    BY <1>6, <1>15, <2>1, <2>3 DEF ListsInput, Printed, Put
  <2> QED BY <2>2, <2>3
<1>18. waits <=> HoldsReturn'
  <2>1. HoldsReturn' <=> opts.ends /\ ~opts.nonprint /\ b = "cr"
    BY <1>2, <1>3 DEF HoldsReturn
  <2> QED BY <2>1 DEF Defers
<1>19. c'.cr # "none" <=> HoldsReturn' /\ ~finished'
  BY <1>2, <1>6, <1>18
<1> QED BY <1>2, <1>9, <1>17, <1>19 DEF ListInv

LEMMA ListNext == Types /\ ListInv /\ [Next]_catVars => ListInv'
<1> SUFFICES ASSUME Types, ListInv, [Next]_catVars PROVE ListInv'
  OBVIOUS
<1>1. CASE UNCHANGED catVars
  BY <1>1 DEF catVars, ListInv, ListsInput, Printed, Listing, Entry, Squeezed, PutNumber,
     Numbered, LineNumber, StartsLine, BlankLine, EndOfLine, Put, Kind, BeforeNewline,
     Shown, HoldsReturn, LinePlace, NumbersBefore, CanWriteFast
<1>2. ASSUME NEW b \in Bytes, Byte(b) PROVE ListInv'
  <2>1. ~finished
    BY <1>2 DEF Byte
  <2>2. CASE CanWriteFast
    BY <1>2, <2>2, ListCopies
  <2>3. CASE ~CanWriteFast /\ b = "nl"
    BY <1>2, <2>1, <2>3, ListNewline
  <2>4. CASE ~CanWriteFast /\ b # "nl"
    BY <1>2, <2>1, <2>4, ListText
  <2> QED BY <2>2, <2>3, <2>4
<1>3. CASE EndOfBuffer
  BY <1>3, ListEnds
<1>4. CASE Finish
  BY <1>4, ListFinishes
<1> QED BY <1>1, <1>2, <1>3, <1>4 DEF Next

\* cat.c prints the listing of the whole input, whatever the options and
\* however the input is cut into buffers and files (cat.c:225-511).
THEOREM PrintsListing == Spec => []ListsInput
<1>1. IInv => Types
  BY DEF IInv
<1>2. ListInv => ListsInput
  BY DEF ListInv
<1> QED BY <1>1, <1>2, Inductive, ListInit, ListNext, PTL DEF Spec

-----------------------------------------------------------------------------
\* FlattenSeq again: of two lists of sequences, of single elements, of nothing.
LEMMA FlattenEmpty == FlattenSeq(<<>>) = <<>>
BY DEF FlattenSeq

\* What is flattened is of the elements of its parts.
LEMMA FlattenTyped ==
    ASSUME NEW S, NEW seqs \in Seq(Seq(S))
    PROVE  FlattenSeq(seqs) \in Seq(S)
<1>1. <<>> \in Seq(S)
  OBVIOUS
<1> QED BY <1>1, FlattenSeqAppend

\* A sequence is its front and its last element.
LEMMA FrontAndLast ==
    ASSUME NEW T, NEW x \in Seq(T), Len(x) # 0
    PROVE  \E front \in Seq(T), last \in T :
               /\ x = Append(front, last) /\ Len(front) = Len(x) - 1 /\ last = x[Len(x)]
               /\ \A i \in 1..Len(x) - 1 : front[i] = x[i]
<1> DEFINE n == Len(x)
<1>n. n \in Nat /\ n # 0 /\ Len(x) = n
  OBVIOUS
<1> HIDE DEF n
<1> DEFINE front == SubSeq(x, 1, n - 1)
           last == x[n]
<1>1. front \in Seq(T) /\ last \in T /\ Len(front) = n - 1 /\ n - 1 \in Nat
      /\ \A i \in 1..n - 1 : front[i] = x[i]
  BY <1>n
<1>2. x = Append(front, last)
  <2>1. Append(front, last) \in Seq(T) /\ Len(Append(front, last)) = n
    BY <1>1, <1>n
  <2>2. \A i \in 1..n : Append(front, last)[i] = x[i]
    BY <1>1, <1>n
  <2> QED BY <2>1, <2>2, <1>n
<1> HIDE DEF front, last
<1>3. last = x[n]
  BY DEF last
<1> QED BY <1>n, <1>1, <1>2, <1>3

\* Appending to the second of two sequences appends to both.
LEMMA AppendAfter ==
    ASSUME NEW T, NEW x \in Seq(T), NEW y \in Seq(T), NEW e \in T
    PROVE  /\ x \o Append(y, e) = Append(x \o y, e)
           /\ x \o y \in Seq(T) /\ Len(x \o y) = Len(x) + Len(y)
<1>1. x \o y \in Seq(T) /\ Len(x \o y) = Len(x) + Len(y)
  OBVIOUS
<1>2. /\ x \o Append(y, e) \in Seq(T) /\ Append(x \o y, e) \in Seq(T)
      /\ Len(x \o Append(y, e)) = Len(x) + Len(y) + 1
      /\ Len(Append(x \o y, e)) = Len(x) + Len(y) + 1
  OBVIOUS
<1>3. \A i \in 1..Len(x) + Len(y) + 1 : (x \o Append(y, e))[i] = Append(x \o y, e)[i]
  OBVIOUS
<1> QED BY <1>1, <1>2, <1>3

\* Concatenation is associative.
LEMMA JoinThree ==
    ASSUME NEW T, NEW x \in Seq(T), NEW y \in Seq(T), NEW z \in Seq(T)
    PROVE  (x \o y) \o z = x \o (y \o z)
OBVIOUS

\* Two lists of sequences are flattened one after the other.
LEMMA FlattenConcat ==
    ASSUME NEW S, NEW x \in Seq(Seq(S)), NEW y \in Seq(Seq(S))
    PROVE  FlattenSeq(x \o y) = FlattenSeq(x) \o FlattenSeq(y)
<1> DEFINE Wrong == {n \in Nat : \E z \in Seq(Seq(S)) :
                        Len(z) = n /\ FlattenSeq(x \o z) # FlattenSeq(x) \o FlattenSeq(z)}
<1>1. ASSUME Wrong # {} PROVE FALSE
  <2>1. PICK n \in Wrong : \A m \in Wrong : n <= m
    <3>1. Wrong \subseteq Nat
      OBVIOUS
    <3> HIDE DEF Wrong
    <3> QED BY <1>1, <3>1, Least
  <2>2. PICK z \in Seq(Seq(S)) :
           Len(z) = n /\ FlattenSeq(x \o z) # FlattenSeq(x) \o FlattenSeq(z)
    OBVIOUS
  <2>3. n \in Nat
    OBVIOUS
  <2>4. n - 1 \notin Wrong
    <3> HIDE DEF Wrong
    <3> QED BY <2>1, <2>3
  <2>5. n # 0
    <3> SUFFICES ASSUME n = 0 PROVE FALSE
      OBVIOUS
    <3>1. z = <<>>
      BY <2>2
    <3>2. FlattenSeq(x) \in Seq(S)
      BY FlattenTyped
    <3>3. x \o z = x /\ FlattenSeq(x) \o <<>> = FlattenSeq(x)
      BY <3>1, <3>2
    <3> QED BY <2>2, <3>1, <3>3, FlattenEmpty
  <2>6. PICK front \in Seq(Seq(S)), last \in Seq(S) :
           z = Append(front, last) /\ Len(front) = n - 1
    BY <2>2, <2>5, FrontAndLast
  <2>7. FlattenSeq(x \o front) = FlattenSeq(x) \o FlattenSeq(front)
    BY <2>3, <2>4, <2>5, <2>6
  <2> HIDE DEF Wrong
  <2>8. x \o z = Append(x \o front, last) /\ x \o front \in Seq(Seq(S))
    BY <2>6, AppendAfter
  <2>9. FlattenSeq(x \o z) = FlattenSeq(x \o front) \o last
    BY <2>8, FlattenSeqAppend
  <2>10. FlattenSeq(z) = FlattenSeq(front) \o last
    BY <2>6, FlattenSeqAppend
  <2>11. FlattenSeq(x) \in Seq(S) /\ FlattenSeq(front) \in Seq(S)
    BY FlattenTyped
  <2>12. (FlattenSeq(x) \o FlattenSeq(front)) \o last
            = FlattenSeq(x) \o (FlattenSeq(front) \o last)
    BY <2>11, JoinThree, SMTT(90)
  <2> QED BY <2>2, <2>7, <2>9, <2>10, <2>12
<1> HIDE DEF Wrong
<1>2. Wrong = {}
  BY <1>1
<1>3. Len(y) \in Nat /\ Len(y) \notin Wrong
  BY <1>2
<1> QED BY <1>3 DEF Wrong

\* A single sequence is flattened to itself.
LEMMA FlattenOne ==
    ASSUME NEW S, NEW s \in Seq(S)
    PROVE  FlattenSeq(<<s>>) = s
<1>1. <<>> \in Seq(Seq(S)) /\ Append(<<>>, s) = <<s>> /\ <<>> \o s = s
  OBVIOUS
<1> QED BY <1>1, FlattenSeqAppend, FlattenEmpty

\* Each element of a sequence on its own, and that it is flattened back.
Singles(x) == [i \in 1..Len(x) |-> <<x[i]>>]

\* One element more.
LEMMA SinglesMore ==
    ASSUME NEW S, NEW x \in Seq(S), NEW e \in S
    PROVE  /\ Singles(x) \in Seq(Seq(S)) /\ <<e>> \in Seq(S)
           /\ Singles(Append(x, e)) = Append(Singles(x), <<e>>)
<1>1. Singles(x) \in Seq(Seq(S)) /\ Len(Singles(x)) = Len(x) /\ <<e>> \in Seq(S)
  BY DEF Singles
<1>2. Append(x, e) \in Seq(S) /\ Len(Append(x, e)) = Len(x) + 1
  OBVIOUS
<1>3. \A i \in 1..Len(x) + 1 : Append(Singles(x), <<e>>)[i] = <<Append(x, e)[i]>>
  BY <1>1 DEF Singles
<1>4. Append(Singles(x), <<e>>) = [i \in 1..Len(x) + 1 |-> <<Append(x, e)[i]>>]
  BY <1>1, <1>3
<1> QED BY <1>1, <1>2, <1>4 DEF Singles

\* Single elements are flattened to the sequence they are of.
LEMMA FlattenSingles ==
    ASSUME NEW S, NEW x \in Seq(S)
    PROVE  FlattenSeq(Singles(x)) = x
<1> DEFINE Wrong == {n \in Nat : \E z \in Seq(S) : Len(z) = n /\ FlattenSeq(Singles(z)) # z}
<1>1. ASSUME Wrong # {} PROVE FALSE
  <2>1. PICK n \in Wrong : \A m \in Wrong : n <= m
    <3>1. Wrong \subseteq Nat
      OBVIOUS
    <3> HIDE DEF Wrong
    <3> QED BY <1>1, <3>1, Least
  <2>2. PICK z \in Seq(S) : Len(z) = n /\ FlattenSeq(Singles(z)) # z
    OBVIOUS
  <2>3. n \in Nat
    OBVIOUS
  <2>4. n - 1 \notin Wrong
    <3> HIDE DEF Wrong
    <3> QED BY <2>1, <2>3
  <2>5. n # 0
    <3> SUFFICES ASSUME n = 0 PROVE FALSE
      OBVIOUS
    <3>1. z = <<>> /\ Singles(z) = <<>>
      BY <2>2 DEF Singles
    <3> QED BY <2>2, <3>1, FlattenEmpty
  <2>6. PICK front \in Seq(S), last \in S :
           z = Append(front, last) /\ Len(front) = n - 1
    <3>1. Len(z) # 0 /\ Len(z) = n
      BY <2>2, <2>5
    <3> HIDE DEF Wrong
    <3> QED BY <3>1, FrontAndLast
  <2>7. FlattenSeq(Singles(front)) = front
    BY <2>3, <2>4, <2>5, <2>6
  <2> HIDE DEF Wrong
  <2>8. Singles(front) \in Seq(Seq(S)) /\ <<last>> \in Seq(S)
        /\ Singles(z) = Append(Singles(front), <<last>>)
    BY <2>6, SinglesMore
  <2>10. FlattenSeq(Singles(z)) = front \o <<last>>
    BY <2>7, <2>8, FlattenSeqAppend
  <2> QED BY <2>2, <2>6, <2>10
<1> HIDE DEF Wrong
<1>2. Wrong = {}
  BY <1>1
<1>3. Len(x) \in Nat /\ Len(x) \notin Wrong
  BY <1>2
<1> QED BY <1>3 DEF Wrong

\* Nothing, n times, is flattened to nothing.
Nothings(n) == [i \in 1..n |-> <<>>]

\* However often, nothing is flattened to nothing.
LEMMA FlattenNothing ==
    ASSUME NEW n \in Nat
    PROVE  FlattenSeq(Nothings(n)) = <<>>
<1> DEFINE Wrong == {m \in Nat : FlattenSeq(Nothings(m)) # <<>>}
<1>1. ASSUME Wrong # {} PROVE FALSE
  <2>1. PICK m \in Wrong : \A k \in Wrong : m <= k
    <3>1. Wrong \subseteq Nat
      OBVIOUS
    <3> HIDE DEF Wrong
    <3> QED BY <1>1, <3>1, Least
  <2>2. m \in Nat /\ FlattenSeq(Nothings(m)) # <<>>
    OBVIOUS
  <2>3. m # 0
    <3>1. Nothings(0) = <<>>
      BY DEF Nothings
    <3> QED BY <2>2, <3>1, FlattenEmpty
  <2>4. m - 1 \in Nat /\ FlattenSeq(Nothings(m - 1)) = <<>>
    <3>1. m - 1 \in Nat /\ m - 1 \notin Wrong
      <4> HIDE DEF Wrong
      <4> QED BY <2>1, <2>2, <2>3
    <3> QED BY <3>1
  <2> HIDE DEF Wrong
  <2>5. Nothings(m - 1) \in Seq(Seq({})) /\ <<>> \in Seq({}) /\ Len(Nothings(m - 1)) = m - 1
    <3>1. <<>> \in Seq({})
      OBVIOUS
    <3> DEFINE e == <<>>
               R == Seq({})
    <3> HIDE DEF e, R
    <3>2. Nothings(m - 1) = [i \in 1..m - 1 |-> e] /\ e \in R
      BY <3>1 DEF Nothings, e, R
    <3>3. Nothings(m - 1) \in Seq(R) /\ Len(Nothings(m - 1)) = m - 1
      BY <2>4, <3>2
    <3> QED BY <3>1, <3>3 DEF R
  <2>6. Nothings(m) = Append(Nothings(m - 1), <<>>)
    BY <2>2, <2>4, <2>5 DEF Nothings
  <2>7. FlattenSeq(Nothings(m)) = <<>> \o <<>>
    BY <2>4, <2>5, <2>6, FlattenSeqAppend
  <2> QED BY <2>2, <2>7
<1> QED BY <1>1

-----------------------------------------------------------------------------
\* What is left of bytes when repeats of those of S are dropped, and prev came
\* before them.
Prior(prev, x, i) == IF i = 1 THEN prev ELSE x[i - 1]
Unrepeated(S, prev, x) ==
    [i \in 1..Len(x) |-> IF x[i] \in S /\ x[i] = Prior(prev, x, i) THEN <<>> ELSE <<x[i]>>]
Deduped(S, prev, x) == FlattenSeq(Unrepeated(S, prev, x))
LastOf(prev, x) == IF x = <<>> THEN prev ELSE x[Len(x)]

\* Types of what is left.
LEMMA UnrepeatedTyped ==
    ASSUME NEW B, NEW x \in Seq(B), NEW S, NEW prev
    PROVE  /\ Unrepeated(S, prev, x) \in Seq(Seq(B)) /\ Len(Unrepeated(S, prev, x)) = Len(x)
           /\ Deduped(S, prev, x) \in Seq(B)
<1>1. \A i \in 1..Len(x) : <<>> \in Seq(B) /\ <<x[i]>> \in Seq(B)
  OBVIOUS
<1>2. \A i \in 1..Len(x) :
         (IF x[i] \in S /\ x[i] = Prior(prev, x, i) THEN <<>> ELSE <<x[i]>>) \in Seq(B)
  BY <1>1
<1>3. Unrepeated(S, prev, x) \in Seq(Seq(B)) /\ Len(Unrepeated(S, prev, x)) = Len(x)
  BY <1>2 DEF Unrepeated
<1> QED BY <1>3, FlattenTyped DEF Deduped

\* \o, which the provers look into only where it is expanded.
Joined(x, y) == x \o y

\* The elements of a concatenation.
LEMMA JoinAt ==
    ASSUME NEW T, NEW x \in Seq(T), NEW y \in Seq(T)
    PROVE  /\ x \o y \in Seq(T) /\ Len(x \o y) = Len(x) + Len(y)
           /\ \A i \in 1..Len(x) : (x \o y)[i] = x[i]
           /\ \A i \in 1..Len(y) : (x \o y)[Len(x) + i] = y[i]
OBVIOUS

\* Sequences with the same elements are the same.
LEMMA SameSeq ==
    ASSUME NEW T, NEW x \in Seq(T), NEW y \in Seq(T), Len(x) = Len(y),
           \A i \in 1..Len(x) : x[i] = y[i]
    PROVE  x = y
OBVIOUS

\* Two sequences agree when they do on two parts.
LEMMA SameJoined ==
    ASSUME NEW T, NEW x \in Seq(T), NEW y \in Seq(T), NEW z \in Seq(T),
           Len(z) = Len(x) + Len(y),
           \A i \in 1..Len(x) : z[i] = x[i],
           \A i \in 1..Len(y) : z[Len(x) + i] = y[i]
    PROVE  z = x \o y
<1>1. \A i \in 1..Len(z) : z[i] = (x \o y)[i]
  <2> SUFFICES ASSUME NEW i \in 1..Len(z) PROVE z[i] = (x \o y)[i]
    OBVIOUS
  <2>1. CASE i <= Len(x)
    BY <2>1
  <2>2. CASE i > Len(x)
    <3>1. i - Len(x) \in 1..Len(y) /\ Len(x) + (i - Len(x)) = i
      BY <2>2
    <3>2. z[i] = y[i - Len(x)]
      BY <3>1
    <3> QED BY <2>2, <3>1, <3>2
  <2> QED BY <2>1, <2>2
<1> QED BY <1>1, SameSeq, JoinAt

\* A sequence of the elements of two is their concatenation.
LEMMA SameIsJoined ==
    ASSUME NEW T, NEW x \in Seq(T), NEW y \in Seq(T), NEW z \in Seq(T),
           Len(z) = Len(x) + Len(y),
           \A i \in 1..Len(x) : z[i] = x[i],
           \A i \in 1..Len(y) : z[Len(x) + i] = y[i]
    PROVE  z = Joined(x, y)
BY SameJoined DEF Joined

\* The bytes of y come after the last of those of x.
LEMMA DedupedParts ==
    ASSUME NEW B, NEW x \in Seq(B), NEW y \in Seq(B), NEW S, NEW prev
    PROVE  \A z : z = x \o y =>
             Deduped(S, prev, z) = Deduped(S, prev, x) \o Deduped(S, LastOf(prev, x), y)
<1> DEFINE u == Unrepeated(S, prev, x)
           v == Unrepeated(S, LastOf(prev, x), y)
           w == Unrepeated(S, prev, x \o y)
<1>1. /\ x \o y \in Seq(B) /\ Len(x \o y) = Len(x) + Len(y)
      /\ \A i \in 1..Len(x) : (x \o y)[i] = x[i]
      /\ \A i \in 1..Len(y) : (x \o y)[Len(x) + i] = y[i]
  BY JoinAt
<1>2. /\ u \in Seq(Seq(B)) /\ Len(u) = Len(x) /\ v \in Seq(Seq(B)) /\ Len(v) = Len(y)
      /\ w \in Seq(Seq(B)) /\ Len(w) = Len(x) + Len(y)
  BY <1>1, UnrepeatedTyped
<1>3. \A i \in 1..Len(x) : w[i] = u[i]
  <2> SUFFICES ASSUME NEW i \in 1..Len(x) PROVE w[i] = u[i]
    OBVIOUS
  <2>1. i \in 1..Len(x \o y) /\ (x \o y)[i] = x[i]
    BY <1>1
  <2>2. Prior(prev, x \o y, i) = Prior(prev, x, i)
    <3>1. i # 1 => i - 1 \in 1..Len(x)
      OBVIOUS
    <3> QED BY <1>1, <3>1 DEF Prior
  <2> QED BY <2>1, <2>2 DEF Unrepeated
<1>4. \A i \in 1..Len(y) : w[Len(x) + i] = v[i]
  <2> SUFFICES ASSUME NEW i \in 1..Len(y) PROVE w[Len(x) + i] = v[i]
    OBVIOUS
  <2>1. Len(x) + i \in 1..Len(x \o y) /\ (x \o y)[Len(x) + i] = y[i]
    BY <1>1
  <2>2. Prior(prev, x \o y, Len(x) + i) = Prior(LastOf(prev, x), y, i)
    <3>1. CASE i # 1
      <4>1. i - 1 \in 1..Len(y) /\ Len(x) + i # 1 /\ (Len(x) + i) - 1 = Len(x) + (i - 1)
        BY <3>1
      <4> QED BY <1>1, <3>1, <4>1 DEF Prior
    <3>2. CASE i = 1 /\ x = <<>>
      BY <3>2 DEF Prior, LastOf
    <3>3. CASE i = 1 /\ x # <<>>
      <4>1. Len(x) \in 1..Len(x) /\ Len(x) + i # 1 /\ (Len(x) + i) - 1 = Len(x)
        BY <3>3
      <4> QED BY <1>1, <3>3, <4>1 DEF Prior, LastOf
    <3> QED BY <3>1, <3>2, <3>3
  <2> QED BY <2>1, <2>2 DEF Unrepeated
<1> HIDE DEF u, v, w
<1> DEFINE T == Seq(B)
<1>5. /\ u \in Seq(T) /\ v \in Seq(T) /\ w \in Seq(T) /\ Len(w) = Len(u) + Len(v)
      /\ \A i \in 1..Len(u) : w[i] = u[i]
      /\ \A i \in 1..Len(v) : w[Len(u) + i] = v[i]
  BY <1>2, <1>3, <1>4
<1> HIDE DEF T
<1>6. w = u \o v
  BY <1>5, SameJoined
<1>7. FlattenSeq(w) = FlattenSeq(u) \o FlattenSeq(v)
  BY <1>2, <1>6, FlattenConcat
<1> QED BY <1>7 DEF Deduped, u, v, w

\* Dropping repeats piece by piece drops those of the whole.
LEMMA DedupedConcat ==
    ASSUME NEW B, NEW x \in Seq(B), NEW y \in Seq(B), NEW S, NEW prev
    PROVE  \A z : z = Joined(x, y) =>
             /\ Deduped(S, prev, z) = Joined(Deduped(S, prev, x), Deduped(S, LastOf(prev, x), y))
             /\ LastOf(prev, z) = LastOf(LastOf(prev, x), y)
<1>2. LastOf(prev, x \o y) = LastOf(LastOf(prev, x), y)
  <2>1. CASE y = <<>>
    <3>1. x \o y = x
      BY <2>1
    <3> QED BY <2>1, <3>1 DEF LastOf
  <2>2. CASE y # <<>>
    <3>1. Len(y) \in 1..Len(y) /\ Len(x \o y) = Len(x) + Len(y) /\ Len(x \o y) # 0
      BY <2>2
    <3>2. (x \o y)[Len(x) + Len(y)] = y[Len(y)]
      BY <3>1, JoinAt
    <3>3. x \o y # <<>>
      BY <3>1
    <3> QED BY <2>2, <3>1, <3>2, <3>3 DEF LastOf
  <2> QED BY <2>1, <2>2
<1>3. \A z : z = x \o y =>
        Deduped(S, prev, z) = Deduped(S, prev, x) \o Deduped(S, LastOf(prev, x), y)
  BY DedupedParts
<1> QED BY <1>2, <1>3 DEF Joined

\* Nothing is dropped when nothing is to be.
LEMMA DedupedNone ==
    ASSUME NEW B, NEW x \in Seq(B), NEW prev
    PROVE  Deduped({}, prev, x) = x
<1>1. Unrepeated({}, prev, x) = Singles(x)
  BY DEF Unrepeated, Singles
<1> QED BY <1>1, FlattenSingles DEF Deduped

\* Of nothing, nothing is left.
LEMMA DedupedEmpty ==
    ASSUME NEW S, NEW prev
    PROVE  Deduped(S, prev, <<>>) = <<>> /\ LastOf(prev, <<>>) = prev
<1>1. Unrepeated(S, prev, <<>>) = <<>>
  BY DEF Unrepeated
<1> QED BY <1>1, FlattenEmpty DEF Deduped, LastOf

\* Of one byte, it or nothing is left.
LEMMA DedupedOne ==
    ASSUME NEW B, NEW e \in B, NEW S, NEW prev
    PROVE  /\ Deduped(S, prev, <<e>>) = IF e \in S /\ e = prev THEN <<>> ELSE <<e>>
           /\ LastOf(prev, <<e>>) = e
<1> DEFINE u == IF e \in S /\ e = prev THEN <<>> ELSE <<e>>
<1>1. Unrepeated(S, prev, <<e>>) = <<u>>
  BY DEF Unrepeated, Prior
<1>2. u \in Seq(B)
  <2>1. <<>> \in Seq(B) /\ <<e>> \in Seq(B)
    OBVIOUS
  <2> QED BY <2>1
<1>3. LastOf(prev, <<e>>) = e
  BY DEF LastOf
<1> HIDE DEF u
<1>4. Deduped(S, prev, <<e>>) = u
  BY <1>1, <1>2, FlattenOne DEF Deduped
<1> QED BY <1>3, <1>4 DEF u

\* A part in which no byte repeats one of S stays as it is; one that repeats a
\* byte of S throughout is dropped.
LEMMA DedupedKeeps ==
    ASSUME NEW B, NEW x \in Seq(B), NEW S, NEW prev,
           \A i \in 1..Len(x) : ~(x[i] \in S /\ x[i] = Prior(prev, x, i))
    PROVE  Deduped(S, prev, x) = x
<1>1. Unrepeated(S, prev, x) = Singles(x)
  BY DEF Unrepeated, Singles
<1> QED BY <1>1, FlattenSingles DEF Deduped

\* Of a run of one byte of S after that byte nothing is left.
LEMMA DedupedDrops ==
    ASSUME NEW B, NEW x \in Seq(B), NEW S, NEW prev,
           \A i \in 1..Len(x) : x[i] \in S /\ x[i] = Prior(prev, x, i)
    PROVE  Deduped(S, prev, x) = <<>>
<1>1. Unrepeated(S, prev, x) = Nothings(Len(x))
  BY DEF Unrepeated, Nothings
<1>2. Len(x) \in Nat
  OBVIOUS
<1> QED BY <1>1, <1>2, FlattenNothing DEF Deduped

-----------------------------------------------------------------------------
\* Removed, of one more and of two parts.
Singly(x, S) == [i \in DOMAIN x |-> IF x[i] \in S THEN <<>> ELSE <<x[i]>>]

\* Removed flattens a sequence of sequences.
LEMMA SinglyTyped ==
    ASSUME NEW B, NEW x \in Seq(B), NEW S
    PROVE  /\ Singly(x, S) \in Seq(Seq(B)) /\ Len(Singly(x, S)) = Len(x)
           /\ Removed(x, S) \in Seq(B) /\ Removed(x, S) = FlattenSeq(Singly(x, S))
           /\ \A i \in 1..Len(x) : Singly(x, S)[i] = IF x[i] \in S THEN <<>> ELSE <<x[i]>>
<1>1. \A i \in 1..Len(x) : <<>> \in Seq(B) /\ <<x[i]>> \in Seq(B)
  OBVIOUS
<1>2. \A i \in 1..Len(x) : (IF x[i] \in S THEN <<>> ELSE <<x[i]>>) \in Seq(B)
  BY <1>1
<1>3. DOMAIN x = 1..Len(x) /\ Len(x) \in Nat
  OBVIOUS
<1>4. Singly(x, S) \in Seq(Seq(B)) /\ Len(Singly(x, S)) = Len(x)
  BY <1>2, <1>3 DEF Singly
<1>5. Removed(x, S) = FlattenSeq(Singly(x, S))
  BY DEF Removed, Singly
<1>6. \A i \in 1..Len(x) : Singly(x, S)[i] = IF x[i] \in S THEN <<>> ELSE <<x[i]>>
  BY <1>3 DEF Singly
<1> QED BY <1>4, <1>5, <1>6, FlattenTyped

\* Bytes are removed piece by piece.
LEMMA RemovedConcat ==
    ASSUME NEW B, NEW x \in Seq(B), NEW y \in Seq(B), NEW S
    PROVE  \A z : z = Joined(x, y) => Removed(z, S) = Joined(Removed(x, S), Removed(y, S))
<1> DEFINE z == x \o y
           T == Seq(B)
           u == Singly(x, S)
           v == Singly(y, S)
           w == Singly(z, S)
<1>1. /\ z \in Seq(B) /\ Len(z) = Len(x) + Len(y)
      /\ \A i \in 1..Len(x) : z[i] = x[i]
      /\ \A i \in 1..Len(y) : z[Len(x) + i] = y[i]
  BY JoinAt
<1> HIDE DEF z
<1>2. /\ u \in Seq(T) /\ Len(u) = Len(x) /\ Removed(x, S) = FlattenSeq(u)
      /\ \A i \in 1..Len(x) : u[i] = IF x[i] \in S THEN <<>> ELSE <<x[i]>>
  BY SinglyTyped
<1>3. /\ v \in Seq(T) /\ Len(v) = Len(y) /\ Removed(y, S) = FlattenSeq(v)
      /\ \A i \in 1..Len(y) : v[i] = IF y[i] \in S THEN <<>> ELSE <<y[i]>>
  BY SinglyTyped
<1>4. /\ w \in Seq(T) /\ Len(w) = Len(z) /\ Removed(z, S) = FlattenSeq(w)
      /\ Removed(z, S) \in Seq(B)
      /\ \A i \in 1..Len(z) : w[i] = IF z[i] \in S THEN <<>> ELSE <<z[i]>>
  <2> HIDE DEF u, v
  <2>1. z \in Seq(B)
    BY <1>1
  <2>2. /\ Singly(z, S) \in Seq(Seq(B)) /\ Len(Singly(z, S)) = Len(z)
        /\ Removed(z, S) \in Seq(B) /\ Removed(z, S) = FlattenSeq(Singly(z, S))
        /\ \A i \in 1..Len(z) : Singly(z, S)[i] = IF z[i] \in S THEN <<>> ELSE <<z[i]>>
    BY <2>1, SinglyTyped
  <2> QED BY <2>2, Zenon
<1> HIDE DEF u, v, w
<1>5. \A i \in 1..Len(u) : w[i] = u[i]
  <2> SUFFICES ASSUME NEW i \in 1..Len(u) PROVE w[i] = u[i]
    OBVIOUS
  <2>1. i \in 1..Len(x) /\ i \in 1..Len(z) /\ z[i] = x[i]
    BY <1>1, <1>2
  <2> QED BY <1>2, <1>4, <2>1
<1>6. \A i \in 1..Len(v) : w[Len(u) + i] = v[i]
  <2> SUFFICES ASSUME NEW i \in 1..Len(v) PROVE w[Len(u) + i] = v[i]
    OBVIOUS
  <2>1. i \in 1..Len(y) /\ Len(x) + i \in 1..Len(z) /\ z[Len(x) + i] = y[i]
    BY <1>1, <1>3
  <2> QED BY <1>2, <1>3, <1>4, <2>1
<1>7. w = u \o v
  <2>1. Len(w) = Len(u) + Len(v)
    BY <1>1, <1>2, <1>3, <1>4
  <2> HIDE DEF T
  <2> QED BY <1>2, <1>3, <1>4, <1>5, <1>6, <2>1, SameJoined
<1>8. FlattenSeq(w) = FlattenSeq(u) \o FlattenSeq(v)
  BY <1>2, <1>3, <1>7, FlattenConcat
<1>9. Removed(z, S) = Joined(Removed(x, S), Removed(y, S))
  BY <1>2, <1>3, <1>4, <1>8 DEF Joined
<1> QED BY <1>9 DEF z, Joined

\* Of one byte, it or nothing is left.
LEMMA RemovedOne ==
    ASSUME NEW B, NEW e \in B, NEW S
    PROVE  Removed(<<e>>, S) = IF e \in S THEN <<>> ELSE <<e>>
<1> DEFINE u == IF e \in S THEN <<>> ELSE <<e>>
<1>1. Singly(<<e>>, S) = <<u>>
  BY DEF Singly
<1>2. u \in Seq(B) /\ <<e>> \in Seq(B)
  <2>1. <<>> \in Seq(B) /\ <<e>> \in Seq(B)
    OBVIOUS
  <2> QED BY <2>1
<1> HIDE DEF u
<1> DEFINE z == <<e>>
<1>3. Removed(z, S) = FlattenSeq(<<u>>)
  <2>1. z \in Seq(B) /\ Singly(z, S) = <<u>>
    BY <1>1, <1>2
  <2> HIDE DEF z
  <2> QED BY <2>1, SinglyTyped
<1>4. FlattenSeq(<<u>>) = u
  BY <1>2, FlattenOne
<1> QED BY <1>3, <1>4 DEF u

\* Nothing of S is in x.
LEMMA RemovedNone ==
    ASSUME NEW B, NEW x \in Seq(B), NEW S, \A i \in 1..Len(x) : x[i] \notin S
    PROVE  Removed(x, S) = x
<1>1. Singly(x, S) \in Seq(Seq(B)) /\ Removed(x, S) = FlattenSeq(Singly(x, S))
  BY SinglyTyped
<1>2. Singly(x, S) = Singles(x)
  <2>1. DOMAIN x = 1..Len(x)
    OBVIOUS
  <2> QED BY <2>1 DEF Singly, Singles
<1> QED BY <1>1, <1>2, FlattenSingles

\* All of x is in S.
LEMMA RemovedAll ==
    ASSUME NEW B, NEW x \in Seq(B), NEW S, \A i \in 1..Len(x) : x[i] \in S
    PROVE  Removed(x, S) = <<>>
<1>1. Removed(x, S) = FlattenSeq(Singly(x, S))
  BY SinglyTyped
<1>2. Singly(x, S) = Nothings(Len(x)) /\ Len(x) \in Nat
  <2>1. DOMAIN x = 1..Len(x)
    OBVIOUS
  <2> QED BY <2>1 DEF Singly, Nothings
<1> QED BY <1>1, <1>2, FlattenNothing

-----------------------------------------------------------------------------
\* What is left of a part of a buffer.
PartOf(S, prev, buf, b, e) == Deduped(S, Prior(prev, buf, b), SubSeq(buf, b, e))

\* The elements of a part.
LEMMA PartIs ==
    ASSUME NEW B, NEW buf \in Seq(B), NEW b \in Nat \ {0}, NEW e \in Nat,
           b <= e + 1, e <= Len(buf)
    PROVE  /\ SubSeq(buf, b, e) \in Seq(B) /\ Len(SubSeq(buf, b, e)) = e - b + 1
           /\ \A k \in 1..e - b + 1 : SubSeq(buf, b, e)[k] = buf[b + k - 1]
OBVIOUS

\* The byte before each of a part is the one before it in the buffer.
LEMMA PartPrior ==
    ASSUME NEW B, NEW buf \in Seq(B), NEW b \in Nat \ {0}, NEW e \in Nat,
           b <= e + 1, e <= Len(buf), NEW prev
    PROVE  /\ \A k \in 1..e - b + 1 :
                 Prior(Prior(prev, buf, b), SubSeq(buf, b, e), k) = Prior(prev, buf, b + k - 1)
           /\ LastOf(Prior(prev, buf, b), SubSeq(buf, b, e)) = Prior(prev, buf, e + 1)
<1> DEFINE s == SubSeq(buf, b, e)
           m == e - b + 1
<1>1. /\ s \in Seq(B) /\ Len(s) = m /\ m \in Nat
      /\ \A k \in 1..m : s[k] = buf[b + k - 1]
  BY PartIs
<1> HIDE DEF s
<1>2. \A k \in 1..m : Prior(Prior(prev, buf, b), s, k) = Prior(prev, buf, b + k - 1)
  <2> SUFFICES ASSUME NEW k \in 1..m
               PROVE  Prior(Prior(prev, buf, b), s, k) = Prior(prev, buf, b + k - 1)
    OBVIOUS
  <2>1. CASE k = 1
    <3>1. b + k - 1 = b
      BY <2>1
    <3> QED BY <2>1, <3>1 DEF Prior
  <2>2. CASE k # 1
    <3>1. k - 1 \in 1..m /\ b + k - 1 # 1 /\ (b + k - 1) - 1 = b + (k - 1) - 1
      BY <2>2
    <3> QED BY <1>1, <2>2, <3>1 DEF Prior
  <2> QED BY <2>1, <2>2
<1>3. LastOf(Prior(prev, buf, b), s) = Prior(prev, buf, e + 1)
  <2>1. CASE m = 0
    <3>1. s = <<>> /\ b = e + 1
      BY <1>1, <2>1
    <3> QED BY <3>1 DEF LastOf
  <2>2. CASE m # 0
    <3>1. s # <<>> /\ m \in 1..m /\ b + m - 1 = e /\ e + 1 # 1 /\ (e + 1) - 1 = e
      BY <1>1, <2>2
    <3>2. s[Len(s)] = buf[e]
      BY <1>1, <3>1
    <3> QED BY <3>1, <3>2 DEF LastOf, Prior
  <2> QED BY <2>1, <2>2
<1> QED BY <1>2, <1>3 DEF s

\* What is left of a part is what is left of its two halves.
LEMMA PartSplit ==
    ASSUME NEW B, NEW buf \in Seq(B), NEW b \in Nat \ {0}, NEW m \in Nat, NEW e \in Nat,
           b <= m + 1, m <= e, e <= Len(buf), NEW S, NEW prev
    PROVE  /\ PartOf(S, prev, buf, b, e)
                = Joined(PartOf(S, prev, buf, b, m), PartOf(S, prev, buf, m + 1, e))
           /\ PartOf(S, prev, buf, b, m) \in Seq(B)
           /\ PartOf(S, prev, buf, m + 1, e) \in Seq(B)
<1> DEFINE x == SubSeq(buf, b, m)
           y == SubSeq(buf, m + 1, e)
           z == SubSeq(buf, b, e)
           p == Prior(prev, buf, b)
           q == Prior(prev, buf, m + 1)
<1>1. /\ x \in Seq(B) /\ Len(x) = m - b + 1
      /\ \A k \in 1..m - b + 1 : x[k] = buf[b + k - 1]
  BY PartIs
<1>2. /\ y \in Seq(B) /\ Len(y) = e - m
      /\ \A k \in 1..e - m : y[k] = buf[m + k]
  <2>1. /\ y \in Seq(B) /\ Len(y) = e - (m + 1) + 1
        /\ \A k \in 1..e - (m + 1) + 1 : y[k] = buf[(m + 1) + k - 1]
    BY PartIs
  <2> QED BY <2>1
<1>3. /\ z \in Seq(B) /\ Len(z) = e - b + 1
      /\ \A k \in 1..e - b + 1 : z[k] = buf[b + k - 1]
  <2>1. b <= e + 1
    OBVIOUS
  <2> QED BY <2>1, PartIs
<1>4. LastOf(p, x) = q
  <2>1. m <= Len(buf)
    OBVIOUS
  <2> QED BY <2>1, PartPrior
<1> HIDE DEF x, y, z, p, q
<1>5. z = x \o y
  <2>1. Len(z) = Len(x) + Len(y)
    BY <1>1, <1>2, <1>3
  <2>2. \A k \in 1..Len(x) : z[k] = x[k]
    BY <1>1, <1>3
  <2>3. \A k \in 1..Len(y) : z[Len(x) + k] = y[k]
    <3> SUFFICES ASSUME NEW k \in 1..Len(y) PROVE z[Len(x) + k] = y[k]
      OBVIOUS
    <3>1. /\ k \in 1..e - m /\ Len(x) + k \in 1..e - b + 1
          /\ b + (Len(x) + k) - 1 = m + k
      BY <1>1, <1>2
    <3> QED BY <1>2, <1>3, <3>1
  <2> QED BY <1>1, <1>2, <1>3, <2>1, <2>2, <2>3, SameJoined
<1>6. Deduped(S, p, z) = Deduped(S, p, x) \o Deduped(S, LastOf(p, x), y)
  <2>1. \A w : w = x \o y =>
           Deduped(S, p, w) = Deduped(S, p, x) \o Deduped(S, LastOf(p, x), y)
    BY <1>1, <1>2, DedupedParts
  <2> QED BY <1>5, <2>1
<1>7. Deduped(S, p, x) \in Seq(B) /\ Deduped(S, q, y) \in Seq(B)
  BY <1>1, <1>2, UnrepeatedTyped
<1>8. Deduped(S, p, z) = Joined(Deduped(S, p, x), Deduped(S, q, y))
  BY <1>4, <1>6 DEF Joined
<1> QED BY <1>7, <1>8 DEF PartOf, x, y, z, p, q

\* A part whose bytes of S repeat none is kept.
LEMMA PartKept ==
    ASSUME NEW B, NEW buf \in Seq(B), NEW b \in Nat \ {0}, NEW e \in Nat,
           b <= e + 1, e <= Len(buf), NEW S, NEW prev,
           \A j \in b..e : ~(buf[j] \in S /\ buf[j] = Prior(prev, buf, j))
    PROVE  PartOf(S, prev, buf, b, e) = SubSeq(buf, b, e)
<1> DEFINE s == SubSeq(buf, b, e)
           p == Prior(prev, buf, b)
<1>1. /\ s \in Seq(B) /\ Len(s) = e - b + 1
      /\ \A k \in 1..e - b + 1 : s[k] = buf[b + k - 1]
  BY PartIs
<1>2. \A k \in 1..e - b + 1 : Prior(p, s, k) = Prior(prev, buf, b + k - 1)
  BY PartPrior
<1> HIDE DEF s, p
<1>3. \A k \in 1..Len(s) : ~(s[k] \in S /\ s[k] = Prior(p, s, k))
  <2> SUFFICES ASSUME NEW k \in 1..Len(s) PROVE ~(s[k] \in S /\ s[k] = Prior(p, s, k))
    OBVIOUS
  <2>1. k \in 1..e - b + 1 /\ b + k - 1 \in b..e
    BY <1>1
  <2> QED BY <1>1, <1>2, <2>1
<1>4. Deduped(S, p, s) = s
  BY <1>1, <1>3, DedupedKeeps
<1> QED BY <1>4 DEF PartOf, s, p

\* A part that repeats the byte of S before it is dropped.
LEMMA PartDropped ==
    ASSUME NEW B, NEW buf \in Seq(B), NEW b \in Nat \ {0}, NEW e \in Nat,
           b <= e + 1, e <= Len(buf), NEW S, NEW prev,
           \A j \in b..e : buf[j] \in S /\ buf[j] = Prior(prev, buf, j)
    PROVE  PartOf(S, prev, buf, b, e) = <<>>
<1> DEFINE s == SubSeq(buf, b, e)
           p == Prior(prev, buf, b)
<1>1. /\ s \in Seq(B) /\ Len(s) = e - b + 1
      /\ \A k \in 1..e - b + 1 : s[k] = buf[b + k - 1]
  BY PartIs
<1>2. \A k \in 1..e - b + 1 : Prior(p, s, k) = Prior(prev, buf, b + k - 1)
  BY PartPrior
<1> HIDE DEF s, p
<1>3. \A k \in 1..Len(s) : s[k] \in S /\ s[k] = Prior(p, s, k)
  <2> SUFFICES ASSUME NEW k \in 1..Len(s) PROVE s[k] \in S /\ s[k] = Prior(p, s, k)
    OBVIOUS
  <2>1. k \in 1..e - b + 1 /\ b + k - 1 \in b..e
    BY <1>1
  <2> QED BY <1>1, <1>2, <2>1
<1>4. Deduped(S, p, s) = <<>>
  BY <1>1, <1>3, DedupedDrops
<1> QED BY <1>4 DEF PartOf, s, p

\* The part that is the whole buffer.
LEMMA WholePart ==
    ASSUME NEW B, NEW buf \in Seq(B), NEW S, NEW prev
    PROVE  PartOf(S, prev, buf, 1, Len(buf)) = Deduped(S, prev, buf)
<1>1. SubSeq(buf, 1, Len(buf)) = buf
  OBVIOUS
<1> QED BY <1>1 DEF PartOf, Prior

\* What came before a part matters at its first place only.
LEMMA PartAnyPrior ==
    ASSUME NEW B, NEW buf \in Seq(B), NEW b \in 1..Len(buf), NEW S, NEW prev, NEW none,
           b = 1 => /\ ~(buf[1] \in S /\ buf[1] = prev)
                    /\ ~(buf[1] \in S /\ buf[1] = none)
    PROVE  PartOf(S, prev, buf, b, Len(buf)) = PartOf(S, none, buf, b, Len(buf))
<1>1. CASE b # 1
  BY <1>1 DEF PartOf, Prior
<1>2. CASE b = 1
  <2>1. \A i \in 1..Len(buf) :
           buf[i] \in S /\ buf[i] = Prior(prev, buf, i)
           <=> buf[i] \in S /\ buf[i] = Prior(none, buf, i)
    BY <1>2 DEF Prior
  <2>2. Unrepeated(S, prev, buf) = Unrepeated(S, none, buf)
    BY <2>1 DEF Unrepeated
  <2>3. Deduped(S, prev, buf) = Deduped(S, none, buf)
    BY <2>2 DEF Deduped
  <2> QED BY <1>2, <2>3, WholePart
<1> QED BY <1>1, <1>2

-----------------------------------------------------------------------------
\* The search of squeeze_filter, and what it skips.
LEMMA LeastOf ==
    ASSUME NEW T, T \subseteq Nat, T # {}
    PROVE  Min(T) \in T /\ \A t \in T : Min(T) <= t
<1>1. \E i \in T : \A j \in T : i <= j
  BY Least
<1> QED BY <1>1 DEF Min

\* The search by twos ends at a byte of S, or past a last byte that is none, and
\* has passed no byte of S that repeats the one before it (tr.c:1540-1565).
LEMMA SearchIs ==
    ASSUME NEW B, NEW buf \in Seq(B), NEW b \in 1..Len(buf), NEW S
    PROVE  LET i == SearchFrom(buf, S, b)
           IN  /\ i \in Nat /\ i >= b
               /\ i <= Len(buf) => buf[i] \in S
               /\ i > Len(buf) => buf[Len(buf)] \notin S
               /\ \A j \in b..Len(buf) :
                     j < i => buf[j] \notin S \/ (j > b /\ buf[j] # buf[j - 1])
<1> DEFINE n == Len(buf)
           found == {i \in DOMAIN buf : i >= b /\ (i - b) % 2 = 0 /\ buf[i] \in S}
           over == b + 2 * ((n - b + 2) \div 2)
           s == IF found = {} THEN over ELSE Min(found)
           i == SearchFrom(buf, S, b)
<1>n. n \in Nat /\ b \in 1..n /\ b \in Nat /\ DOMAIN buf = 1..n
  OBVIOUS
<1>1. i = LookBack(buf, S, s)
  BY DEF SearchFrom
<1> HIDE DEF i
<1>2. /\ over \in Nat /\ (over = n + 1 \/ over = n + 2)
      /\ over = n + 2 => (n - b) % 2 = 0
  <2> HIDE DEF n
  <2> QED BY <1>n
<1>3. \A j \in 1..n : j \in found <=> (j >= b /\ (j - b) % 2 = 0 /\ buf[j] \in S)
  BY <1>n
<1>4. found \subseteq 1..n /\ found \subseteq Nat
  BY <1>n
<1>5. found # {} => s \in found /\ \A j \in found : s <= j
  <2> SUFFICES ASSUME found # {} PROVE Min(found) \in found /\ \A j \in found : Min(found) <= j
    OBVIOUS
  <2> HIDE DEF found
  <2> QED BY <1>4, LeastOf
<1>6. found = {} => s = over
  OBVIOUS
<1> HIDE DEF n, found, over, s
<1>s. s \in Nat
  <2>1. CASE found = {}
    BY <1>2, <1>6, <2>1
  <2>2. CASE found # {}
    BY <1>4, <1>5, <2>2
  <2> QED BY <2>1, <2>2
<1>7. \A j \in 1..n : j >= b /\ j < s /\ (j - b) % 2 = 0 => buf[j] \notin S
  <2> SUFFICES ASSUME NEW j \in 1..n, j >= b, j < s, (j - b) % 2 = 0, buf[j] \in S
               PROVE  FALSE
    OBVIOUS
  <2>1. j \in found
    BY <1>3
  <2>2. s <= j
    BY <1>5, <2>1
  <2> QED BY <1>n, <1>s, <2>2
<1>8. /\ i \in Nat /\ i >= b /\ i <= s
      /\ i <= n => buf[i] \in S
      /\ i > n => buf[n] \notin S
  <2>1. CASE found # {}
    <3>1. s \in 1..n /\ s >= b /\ buf[s] \in S
      BY <1>3, <1>4, <1>5, <2>1
    <3>2. i = s
      BY <1>1, <1>n, <3>1 DEF LookBack, n
    <3> QED BY <1>n, <3>1, <3>2
  <2>2. CASE found = {} /\ over = n + 2
    <3>1. i = s /\ s = n + 2
      <4>1. s # n + 1
        BY <1>n, <1>6, <2>2
      <4> QED BY <1>1, <1>6, <2>2, <4>1 DEF LookBack, n
    <3>2. n \notin found
      BY <2>2
    <3>3. buf[n] \notin S
      <4>1. n \in 1..n /\ n >= b
        BY <1>n
      <4> QED BY <1>2, <1>3, <2>2, <3>2, <4>1
    <3> QED BY <1>n, <3>1, <3>3
  <2>3. CASE found = {} /\ over = n + 1
    <3>1. s = n + 1 /\ (n + 1) - 1 = n
      BY <1>n, <1>6, <2>3
    <3>2. i = IF buf[n] \in S THEN n ELSE n + 1
      BY <1>1, <3>1 DEF LookBack, n
    <3> QED BY <1>n, <3>1, <3>2
  <2> QED BY <1>2, <2>1, <2>2, <2>3
<1>9. \A j \in b..n : j < i => buf[j] \notin S \/ (j > b /\ buf[j] # buf[j - 1])
  <2> SUFFICES ASSUME NEW j \in b..n, j < i, buf[j] \in S
               PROVE  j > b /\ buf[j] # buf[j - 1]
    OBVIOUS
  <2>1. j \in 1..n /\ j >= b /\ j < s
    <3>1. j < s
      BY <1>n, <1>s, <1>8
    <3> QED BY <1>n, <3>1
  <2>2. (j - b) % 2 # 0
    BY <1>7, <2>1
  <2>3. j > b /\ j - 1 \in 1..n /\ j - 1 >= b /\ ((j - 1) - b) % 2 = 0
    BY <1>n, <2>1, <2>2
  <2>4. j - 1 < s
    BY <1>n, <1>s, <2>1
  <2>5. buf[j - 1] \notin S
    BY <1>7, <2>3, <2>4
  <2> QED BY <2>3, <2>5
<1> QED BY <1>8, <1>9 DEF i, n

\* The repeats of a byte end at the first that is not it (tr.c:1580-1590).
LEMMA SkipIs ==
    ASSUME NEW B, NEW buf \in Seq(B), NEW i \in 1..Len(buf) + 1, NEW e
    PROVE  LET next == SkipRepeats(buf, i, e)
           IN  /\ next \in i..Len(buf) + 1
               /\ \A j \in i..next - 1 : buf[j] = e
               /\ next <= Len(buf) => buf[next] # e
<1> DEFINE n == Len(buf)
           T == {n + 1} \cup {j \in DOMAIN buf : j >= i /\ buf[j] # e}
           next == SkipRepeats(buf, i, e)
<1>n. n \in Nat /\ i \in 1..n + 1 /\ DOMAIN buf = 1..n
  OBVIOUS
<1>1. next = Min(T)
  BY DEF SkipRepeats
<1> HIDE DEF next
<1>2. T \subseteq Nat /\ n + 1 \in T
  BY <1>n
<1>3. /\ \A j \in T : j = n + 1 \/ (j \in 1..n /\ j >= i /\ buf[j] # e)
      /\ \A j \in 1..n : j >= i /\ buf[j] # e => j \in T
  BY <1>n
<1> HIDE DEF T, n
<1>4. next \in T /\ \A t \in T : next <= t
  BY <1>1, <1>2, LeastOf
<1>5. next \in i..n + 1 /\ (next <= n => buf[next] # e)
  BY <1>n, <1>2, <1>3, <1>4
<1>6. \A j \in i..next - 1 : buf[j] = e
  <2> SUFFICES ASSUME NEW j \in i..next - 1, buf[j] # e PROVE FALSE
    OBVIOUS
  <2>1. j \in 1..n /\ j >= i /\ j < next
    BY <1>n, <1>5
  <2>2. j \in T
    BY <1>3, <2>1
  <2> QED BY <1>4, <1>n, <1>5, <2>1, <2>2
<1> QED BY <1>5, <1>6 DEF n, next

-----------------------------------------------------------------------------
\* One turn of squeeze_filter writes what is left of the part it passes.
LEMMA TurnEnds ==
    ASSUME NEW buf \in Seq(0..MaxByte), NEW b \in 1..Len(buf), NEW S,
           SearchFrom(buf, S, b) > Len(buf)
    PROVE  /\ PartOf(S, NotAChar, buf, b, Len(buf)) = SubSeq(buf, b, Len(buf))
           /\ buf[Len(buf)] \notin S
<1> DEFINE B == 0..MaxByte
           n == Len(buf)
           i == SearchFrom(buf, S, b)
<1>1. /\ i \in Nat /\ i > n /\ buf[n] \notin S
      /\ \A j \in b..n : j < i => buf[j] \notin S \/ (j > b /\ buf[j] # buf[j - 1])
  BY SearchIs
<1>2. n \in Nat /\ b \in 1..n
  OBVIOUS
<1> HIDE DEF i, n
<1>3. \A j \in b..n : ~(buf[j] \in S /\ buf[j] = Prior(NotAChar, buf, j))
  <2> SUFFICES ASSUME NEW j \in b..n, buf[j] \in S
               PROVE  buf[j] # Prior(NotAChar, buf, j)
    OBVIOUS
  <2>1. j < i /\ j \in b..n
    BY <1>1, <1>2
  <2>2. j > b /\ buf[j] # buf[j - 1]
    BY <1>1, <2>1
  <2>3. j # 1
    BY <1>2, <2>2
  <2> QED BY <2>2, <2>3 DEF Prior
<1>4. b \in Nat \ {0} /\ b <= n + 1 /\ n <= Len(buf)
  BY <1>2 DEF n
<1>5. PartOf(S, NotAChar, buf, b, n) = SubSeq(buf, b, n)
  BY <1>2, <1>3, <1>4, PartKept
<1> QED BY <1>1, <1>5 DEF n

\* When the search ends at a byte of S, what it passed is written with it, and
\* the repeats that follow are dropped.
LEMMA TurnGoesOn ==
    ASSUME NEW buf \in Seq(0..MaxByte), NEW b \in 1..Len(buf), NEW S,
           SearchFrom(buf, S, b) <= Len(buf)
    PROVE  LET n == Len(buf)
               i == SearchFrom(buf, S, b)
               next == SkipRepeats(buf, i + 1, buf[i])
               last == IF i > 1 /\ buf[i - 1] = buf[i] THEN i - 1 ELSE i
               rest == PartOf(S, NotAChar, buf, next, n)
           IN  /\ next \in b + 1..n + 1
               /\ next = n + 1 => buf[n] = buf[i] /\ buf[n] \in S
               /\ PartOf(S, NotAChar, buf, b, n)
                     = IF next = n + 1 THEN SubSeq(buf, b, last)
                       ELSE SubSeq(buf, b, last) \o rest
<1> DEFINE n == Len(buf)
           B == 0..MaxByte
           i == SearchFrom(buf, S, b)
           next == SkipRepeats(buf, i + 1, buf[i])
           last == IF i > 1 /\ buf[i - 1] = buf[i] THEN i - 1 ELSE i
           Part(x, y) == PartOf(S, NotAChar, buf, x, y)
<1>1. /\ i \in Nat /\ i >= b /\ i <= n /\ buf[i] \in S
      /\ \A j \in b..n : j < i => buf[j] \notin S \/ (j > b /\ buf[j] # buf[j - 1])
  BY SearchIs
<1>2. n \in Nat /\ b \in 1..n /\ n = Len(buf) /\ buf \in Seq(B)
  OBVIOUS
<1> HIDE DEF i
<1>3. i + 1 \in 1..Len(buf) + 1
  BY <1>1, <1>2
<1>4. /\ next \in i + 1..n + 1 /\ \A j \in i + 1..next - 1 : buf[j] = buf[i]
  BY <1>3, SkipIs
<1> HIDE DEF n, next, B
<1>5. last \in Nat /\ last \in b - 1..n /\ last <= i /\ last >= i - 1
      /\ (last = i \/ (i > 1 /\ buf[i - 1] = buf[i] /\ last = i - 1))
  BY <1>1, <1>2
<1>6. last = i => i = 1 \/ buf[i - 1] # buf[i]
  BY <1>1, <1>2
<1> HIDE DEF last
<1>7. Part(b, last) = SubSeq(buf, b, last)
  <2>1. \A j \in b..last : ~(buf[j] \in S /\ buf[j] = Prior(NotAChar, buf, j))
    <3> SUFFICES ASSUME NEW j \in b..last, buf[j] \in S
                 PROVE  buf[j] # Prior(NotAChar, buf, j)
      OBVIOUS
    <3>1. j \in b..n /\ j <= i /\ j \in Nat
      BY <1>1, <1>2, <1>5
    <3>2. CASE j < i
      <4>1. j > b /\ buf[j] # buf[j - 1]
        BY <1>1, <3>1, <3>2
      <4>2. j # 1
        BY <1>2, <4>1
      <4> QED BY <4>1, <4>2 DEF Prior
    <3>3. CASE j = i
      <4>1. last = i
        BY <1>1, <1>5, <3>3
      <4>2. CASE i = 1
        <5>1. buf[1] \in B
          BY <1>2
        <5>2. buf[1] # NotAChar
          BY <5>1, TrAssumption DEF NotAChar, B
        <5> QED BY <3>3, <4>2, <5>2 DEF Prior
      <4>3. CASE i # 1
        BY <1>6, <3>3, <4>1, <4>3 DEF Prior
      <4> QED BY <4>2, <4>3
    <3> QED BY <1>1, <3>1, <3>2, <3>3
  <2>2. b \in Nat \ {0} /\ b <= last + 1 /\ last <= Len(buf)
    BY <1>2, <1>5
  <2> QED BY <1>2, <1>5, <2>1, <2>2, PartKept
<1>9. next \in Nat /\ next - 1 \in Nat /\ last <= next - 1 /\ next - 1 <= n
  BY <1>1, <1>2, <1>4, <1>5
<1>8. \A j \in last + 1..next - 1 : buf[j] \in S /\ buf[j] = Prior(NotAChar, buf, j)
  <2> SUFFICES ASSUME NEW j \in last + 1..next - 1
               PROVE  buf[j] \in S /\ buf[j] = Prior(NotAChar, buf, j)
    OBVIOUS
  <2>1. j \in Nat /\ j >= i /\ j <= next - 1
    BY <1>1, <1>4, <1>5
  <2>2. CASE j = i
    <3>1. i > 1 /\ buf[i - 1] = buf[i]
      BY <1>1, <1>5, <2>2
    <3> QED BY <1>1, <2>2, <3>1 DEF Prior
  <2>3. CASE j > i
    <3>1. buf[j] = buf[i] /\ j # 1
      BY <1>1, <1>4, <2>1, <2>3
    <3>2. buf[j - 1] = buf[i]
      <4>1. j - 1 = i \/ j - 1 \in i + 1..next - 1
        BY <1>1, <1>9, <2>1, <2>3
      <4> QED BY <1>4, <4>1
    <3> QED BY <1>1, <3>1, <3>2 DEF Prior
  <2> QED BY <1>1, <2>1, <2>2, <2>3
<1>10. Part(last + 1, next - 1) = <<>>
  <2>1. last + 1 \in Nat \ {0} /\ last + 1 <= (next - 1) + 1 /\ next - 1 <= Len(buf)
    BY <1>2, <1>5, <1>9
  <2> QED BY <1>2, <1>8, <1>9, <2>1, PartDropped
<1>11. Part(b, next - 1) = SubSeq(buf, b, last)
  <2>1. /\ b \in Nat \ {0} /\ b <= last + 1 /\ last <= next - 1 /\ next - 1 <= Len(buf)
        /\ last \in Nat /\ next - 1 \in Nat /\ buf \in Seq(B)
    BY <1>2, <1>5, <1>9
  <2>2. /\ PartOf(S, NotAChar, buf, b, next - 1)
              = Joined(PartOf(S, NotAChar, buf, b, last),
                       PartOf(S, NotAChar, buf, last + 1, next - 1))
        /\ PartOf(S, NotAChar, buf, b, last) \in Seq(B)
    BY <2>1, PartSplit
  <2>3. Part(b, next - 1) = Part(b, last) \o <<>> /\ Part(b, last) \in Seq(B)
    BY <1>10, <2>2 DEF Joined
  <2>4. \A s \in Seq(B) : s \o <<>> = s
    OBVIOUS
  <2>5. Part(b, next - 1) = Part(b, last)
    BY <2>3, <2>4
  <2> QED BY <1>7, <2>5
<1>12. next = n + 1 => buf[n] = buf[i] /\ buf[n] \in S
  <2> SUFFICES ASSUME next = n + 1 PROVE buf[n] = buf[i]
    BY <1>1
  <2>1. n = i \/ n \in i + 1..next - 1
    BY <1>1, <1>2
  <2> QED BY <1>4, <2>1
<1>13. CASE next = n + 1
  <2>1. Part(b, n) = SubSeq(buf, b, last)
    <3>1. next - 1 = n
      BY <1>2, <1>13
    <3> QED BY <1>11, <3>1
  <2>2. next \in b + 1..n + 1
    BY <1>1, <1>2, <1>4
  <2> QED BY <1>12, <1>13, <2>1, <2>2 DEF n, next, last, i
<1>14. CASE next # n + 1
  <2>1. b <= (next - 1) + 1 /\ next - 1 <= n /\ n <= Len(buf) /\ b \in Nat \ {0}
    BY <1>1, <1>2, <1>4
  <2>2. PartOf(S, NotAChar, buf, b, n)
          = Joined(PartOf(S, NotAChar, buf, b, next - 1),
                   PartOf(S, NotAChar, buf, (next - 1) + 1, n))
    BY <1>2, <1>9, <2>1, PartSplit, SMTT(60)
  <2>3. (next - 1) + 1 = next
    BY <1>9
  <2>4. Part(b, n) = SubSeq(buf, b, last) \o Part(next, n)
    BY <1>11, <2>2, <2>3 DEF Joined
  <2>5. next \in b + 1..n + 1
    BY <1>1, <1>2, <1>4
  <2> HIDE DEF Part
  <2> QED BY <1>14, <2>4, <2>5 DEF n, next, last, i, Part
<1> QED BY <1>13, <1>14

-----------------------------------------------------------------------------
\* squeeze_filter from begin on, when it goes on by f, and what it comes to.
FilterAt(f, buf, S, begin) ==
    LET i == SearchFrom(buf, S, begin)
        next == SkipRepeats(buf, i + 1, buf[i])
        last == IF i > 1 /\ buf[i - 1] = buf[i] THEN i - 1 ELSE i
        now == SubSeq(buf, begin, last)
    IN  IF i >= Len(buf) + 1
        THEN [c |-> NotAChar, out |-> SubSeq(buf, begin, Len(buf))]
        ELSE IF next = Len(buf) + 1 THEN [c |-> buf[i], out |-> now]
        ELSE [c |-> f[next].c, out |-> now \o f[next].out]
IsFilter(f, buf, S) == f = [begin \in DOMAIN buf |-> FilterAt(f, buf, S, begin)]

\* char_to_squeeze after prev, and what filter comes to from b on.
CharOf(S, prev) == IF prev \in S THEN prev ELSE NotAChar
Filtered(buf, S, b) == [c |-> CharOf(S, buf[Len(buf)]),
                        out |-> PartOf(S, NotAChar, buf, b, Len(buf))]

\* A turn comes to this when what it goes on with does.
LEMMA FilterTurn ==
    ASSUME NEW buf \in Seq(0..MaxByte), NEW b \in 1..Len(buf), NEW S, NEW f,
           \A j \in b + 1..Len(buf) : f[j] = Filtered(buf, S, j)
    PROVE  FilterAt(f, buf, S, b) = Filtered(buf, S, b)
<1> DEFINE n == Len(buf)
           i == SearchFrom(buf, S, b)
           next == SkipRepeats(buf, i + 1, buf[i])
           last == IF i > 1 /\ buf[i - 1] = buf[i] THEN i - 1 ELSE i
           whole == PartOf(S, NotAChar, buf, b, n)
           rest == PartOf(S, NotAChar, buf, next, n)
           all == SubSeq(buf, b, n)
           now == SubSeq(buf, b, last)
<1>1. n \in Nat /\ b \in 1..n
  OBVIOUS
<1>2. i \in Nat
  BY SearchIs
<1>3. FilterAt(f, buf, S, b) =
         IF i >= n + 1 THEN [c |-> NotAChar, out |-> all]
         ELSE IF next = n + 1 THEN [c |-> buf[i], out |-> now]
         ELSE [c |-> f[next].c, out |-> Joined(now, f[next].out)]
  BY DEF FilterAt, Joined
<1>4. Filtered(buf, S, b) = [c |-> CharOf(S, buf[n]), out |-> whole]
  BY DEF Filtered
<1>5. CASE i > n
  <2>1. whole = all /\ buf[n] \notin S
    BY <1>5, TurnEnds
  <2>2. i >= n + 1
    BY <1>1, <1>2, <1>5
  <2> HIDE DEF i, n, next, last, whole, rest, all, now
  <2> QED BY <1>3, <1>4, <2>1, <2>2 DEF CharOf
<1>6. CASE i <= n
  <2>1. /\ next \in b + 1..n + 1
        /\ next = n + 1 => buf[n] = buf[i] /\ buf[n] \in S
        /\ whole = IF next = n + 1 THEN now ELSE Joined(now, rest)
    BY <1>6, TurnGoesOn DEF Joined
  <2>2. ~(i >= n + 1)
    BY <1>1, <1>2, <1>6
  <2>3. CASE next = n + 1
    <3> HIDE DEF i, n, next, last, whole, rest, all, now
    <3> QED BY <1>3, <1>4, <2>1, <2>2, <2>3 DEF CharOf
  <2>4. CASE next # n + 1
    <3>1. f[next] = [c |-> CharOf(S, buf[n]), out |-> rest]
      <4>1. next \in b + 1..Len(buf)
        <5> HIDE DEF i, next
        <5> QED BY <1>1, <2>1, <2>4
      <4>2. f[next] = Filtered(buf, S, next)
        <5> HIDE DEF next
        <5> QED BY <4>1
      <4> QED BY <4>2 DEF Filtered
    <3> HIDE DEF i, n, next, last, whole, rest, all, now
    <3> QED BY <1>3, <1>4, <2>1, <2>2, <2>4, <3>1
  <2> QED BY <2>3, <2>4
<1> QED BY <1>1, <1>2, <1>5, <1>6

\* From anywhere in a buffer, by the turns that are left to its end.
LEMMA FilterSolved ==
    ASSUME NEW buf \in Seq(0..MaxByte), NEW S
    PROVE  LET f == CHOOSE h : IsFilter(h, buf, S)
           IN  \A b \in 1..Len(buf) : f[b] = Filtered(buf, S, b)
<1> DEFINE n == Len(buf)
           g == [b \in DOMAIN buf |-> Filtered(buf, S, b)]
           f == CHOOSE h : IsFilter(h, buf, S)
<1>1. n \in Nat /\ n = Len(buf) /\ DOMAIN buf = 1..n
  OBVIOUS
<1> HIDE DEF n
<1>2. \A b \in 1..n : g[b] = Filtered(buf, S, b)
  BY <1>1
<1>3. IsFilter(g, buf, S)
  <2>1. \A b \in DOMAIN buf : FilterAt(g, buf, S, b) = Filtered(buf, S, b)
    <3> SUFFICES ASSUME NEW b \in DOMAIN buf
                 PROVE  FilterAt(g, buf, S, b) = Filtered(buf, S, b)
      OBVIOUS
    <3>1. b \in 1..Len(buf) /\ \A j \in b + 1..Len(buf) : j \in 1..n
      BY <1>1
    <3>2. \A j \in b + 1..Len(buf) : g[j] = Filtered(buf, S, j)
      <4> HIDE DEF g
      <4> QED BY <1>2, <3>1
    <3> HIDE DEF g
    <3> QED BY <3>1, <3>2, FilterTurn
  <2>2. g = [b \in DOMAIN buf |-> FilterAt(g, buf, S, b)]
    BY <2>1
  <2> QED BY <2>2 DEF IsFilter
<1>4. IsFilter(f, buf, S)
  BY <1>3
<1> HIDE DEF f, g
<1>5. \A b \in 1..n : f[b] = FilterAt(f, buf, S, b)
  BY <1>1, <1>4 DEF IsFilter
<1>6. \A b \in 1..n : f[b] = Filtered(buf, S, b)
  <2> DEFINE Wrong == {k \in Nat : n - k \in 1..n /\ f[n - k] # Filtered(buf, S, n - k)}
  <2>1. Wrong = {}
    <3> SUFFICES ASSUME Wrong # {} PROVE FALSE
      OBVIOUS
    <3>1. PICK k \in Wrong : \A m \in Wrong : k <= m
      <4>1. Wrong \subseteq Nat
        OBVIOUS
      <4> HIDE DEF Wrong
      <4> QED BY <4>1, Least
    <3> DEFINE b == n - k
    <3>2. k \in Nat /\ b \in 1..n /\ f[b] # Filtered(buf, S, b)
      OBVIOUS
    <3>3. \A j \in b + 1..n : f[j] = Filtered(buf, S, j)
      <4> SUFFICES ASSUME NEW j \in b + 1..n, f[j] # Filtered(buf, S, j) PROVE FALSE
        OBVIOUS
      <4>1. n - j \in Nat /\ n - (n - j) = j /\ j \in 1..n /\ n - j < k
        BY <1>1, <3>2
      <4>2. n - j \in Wrong
        BY <4>1
      <4> HIDE DEF Wrong
      <4>3. k <= n - j
        BY <3>1, <4>2
      <4> QED BY <1>1, <3>2, <4>1, <4>3
    <3> HIDE DEF b, Wrong
    <3>4. FilterAt(f, buf, S, b) = Filtered(buf, S, b)
      BY <1>1, <3>2, <3>3, FilterTurn
    <3> QED BY <1>5, <3>2, <3>4
  <2> SUFFICES ASSUME NEW b \in 1..n, f[b] # Filtered(buf, S, b) PROVE FALSE
    OBVIOUS
  <2>2. n - b \in Nat /\ n - (n - b) = b
    BY <1>1
  <2>3. n - b \in Wrong
    BY <2>2
  <2> QED BY <2>1, <2>3
<1> QED BY <1>1, <1>6 DEF f

\* squeeze_filter, of any buffer after prev.
LEMMA SqueezeFilterIs ==
    ASSUME NEW buf \in Seq(0..MaxByte), NEW S \in SUBSET (0..MaxByte),
           NEW prev, NEW written
    PROVE  SqueezeFilter(buf, S, CharOf(S, prev), written)
             = [c |-> CharOf(S, LastOf(prev, buf)),
                out |-> Joined(written, Deduped(S, prev, buf))]
<1> DEFINE n == Len(buf)
           ch == CharOf(S, prev)
           f == CHOOSE h : IsFilter(h, buf, S)
           begin == IF ch = NotAChar THEN 1 ELSE SkipRepeats(buf, 1, ch)
           turn == IF begin = n + 1 THEN [c |-> ch, out |-> <<>>] ELSE f[begin]
           skipped == PartOf(S, prev, buf, 1, begin - 1)
           rest == PartOf(S, prev, buf, begin, n)
<1>1. SqueezeFilter(buf, S, ch, written) = [c |-> turn.c, out |-> Joined(written, turn.out)]
  <2> HIDE DEF ch
  <2> QED BY DEF SqueezeFilter, IsFilter, FilterAt, Joined
<1>2. \A b \in 1..n : f[b] = Filtered(buf, S, b)
  BY FilterSolved
<1>3. n \in Nat /\ n = Len(buf)
  OBVIOUS
<1>4. NotAChar \notin S
  BY TrAssumption DEF NotAChar
<1> HIDE DEF f
<1>5. /\ begin \in 1..n + 1
      /\ \A j \in 1..begin - 1 : buf[j] \in S /\ buf[j] = prev
      /\ begin <= n => ~(buf[begin] \in S /\ buf[begin] = prev)
  <2>1. CASE prev \in S
    <3>1. ch = prev /\ ch # NotAChar
      BY <1>4, <2>1 DEF CharOf
    <3>2. begin = SkipRepeats(buf, 1, prev)
      BY <3>1
    <3>3. 1 \in 1..Len(buf) + 1
      BY <1>3
    <3>4. /\ begin \in 1..Len(buf) + 1
          /\ \A j \in 1..begin - 1 : buf[j] = prev
          /\ begin <= Len(buf) => buf[begin] # prev
      <4> HIDE DEF n, begin
      <4> QED BY <3>2, <3>3, SkipIs
    <3> HIDE DEF begin
    <3> QED BY <1>3, <2>1, <3>4
  <2>2. CASE prev \notin S
    <3>1. begin = 1
      BY <2>2 DEF CharOf
    <3> HIDE DEF begin
    <3> QED BY <1>3, <2>2, <3>1
  <2> QED BY <2>1, <2>2
<1> HIDE DEF n, begin
<1>6. skipped = <<>>
  <2>1. \A j \in 1..begin - 1 : buf[j] \in S /\ buf[j] = Prior(prev, buf, j)
    <3> SUFFICES ASSUME NEW j \in 1..begin - 1
                 PROVE  buf[j] \in S /\ buf[j] = Prior(prev, buf, j)
      OBVIOUS
    <3>1. j # 1 => j - 1 \in 1..begin - 1
      BY <1>3, <1>5
    <3> QED BY <1>5, <3>1 DEF Prior
  <2>2. 1 \in Nat \ {0} /\ begin - 1 \in Nat /\ 1 <= (begin - 1) + 1 /\ begin - 1 <= Len(buf)
    BY <1>3, <1>5
  <2> QED BY <2>1, <2>2, PartDropped
<1>7. Deduped(S, prev, buf) = Joined(skipped, rest) /\ rest \in Seq(0..MaxByte)
  <2>1. /\ 1 \in Nat \ {0} /\ begin - 1 \in Nat /\ n \in Nat /\ 1 <= (begin - 1) + 1
        /\ begin - 1 <= n /\ n <= Len(buf) /\ (begin - 1) + 1 = begin
    BY <1>3, <1>5
  <2>2. /\ PartOf(S, prev, buf, 1, n)
             = Joined(PartOf(S, prev, buf, 1, begin - 1),
                      PartOf(S, prev, buf, (begin - 1) + 1, n))
        /\ PartOf(S, prev, buf, (begin - 1) + 1, n) \in Seq(0..MaxByte)
    BY <2>1, PartSplit
  <2>3. PartOf(S, prev, buf, 1, n) = Deduped(S, prev, buf)
    BY <1>3, WholePart
  <2> QED BY <2>1, <2>2, <2>3
<1> HIDE DEF skipped, rest
<1>8. Deduped(S, prev, buf) = rest
  BY <1>6, <1>7 DEF Joined
<1>9. turn = [c |-> CharOf(S, LastOf(prev, buf)), out |-> Deduped(S, prev, buf)]
  <2>1. CASE begin = n + 1
    <3>1. rest = <<>>
      <4>1. SubSeq(buf, n + 1, n) = <<>>
        BY <1>3
      <4> QED BY <2>1, <4>1, DedupedEmpty DEF rest, PartOf
    <3>2. CharOf(S, LastOf(prev, buf)) = ch
      <4>1. CASE n = 0
        <5>1. Len(buf) = 0 => buf = <<>>
          OBVIOUS
        <5> QED BY <1>3, <4>1, <5>1 DEF LastOf
      <4>2. CASE n # 0
        <5>1. n \in 1..begin - 1 /\ buf # <<>>
          BY <1>3, <2>1, <4>2
        <5>2. LastOf(prev, buf) = buf[n] /\ buf[n] = prev
          BY <1>3, <1>5, <5>1 DEF LastOf
        <5> QED BY <5>2
      <4> QED BY <4>1, <4>2
    <3> HIDE DEF ch
    <3> QED BY <1>8, <2>1, <3>1, <3>2
  <2>2. CASE begin # n + 1
    <3>1. begin \in 1..Len(buf) /\ begin \in 1..n /\ buf # <<>>
      BY <1>3, <1>5, <2>2
    <3>2. begin = 1 => /\ ~(buf[1] \in S /\ buf[1] = prev)
                       /\ ~(buf[1] \in S /\ buf[1] = NotAChar)
      BY <1>4, <1>5, <3>1
    <3>3. rest = PartOf(S, NotAChar, buf, begin, Len(buf))
      BY <1>3, <3>1, <3>2, PartAnyPrior DEF rest
    <3>4. f[begin] = [c |-> CharOf(S, buf[Len(buf)]), out |-> rest]
      BY <1>2, <3>1, <3>3 DEF Filtered
    <3>5. LastOf(prev, buf) = buf[Len(buf)]
      BY <3>1 DEF LastOf
    <3> HIDE DEF ch
    <3> QED BY <1>8, <2>2, <3>4, <3>5
  <2> QED BY <2>1, <2>2
<1> HIDE DEF turn, ch
<1> QED BY <1>1, <1>9 DEF ch

-----------------------------------------------------------------------------
\* What the filters work with, of the operations once they are built.
AnyByte == 0..MaxByte
Ready == /\ Table \in [AnyByte -> AnyByte]
         /\ SqueezeSet \in SUBSET AnyByte
         /\ Deleted \in SUBSET AnyByte
         /\ ~job.delete => Deleted = {}
         /\ ~Translating => Table = [b \in AnyByte |-> b]
Moved(b) == IF Translating THEN Table[b] ELSE b
ReadOne(b) == IF b \in Deleted THEN <<>> ELSE <<Moved(b)>>

\* A function is mapped over a sequence piece by piece.
LEMMA MapParts ==
    ASSUME NEW x \in Seq(AnyByte), NEW y \in Seq(AnyByte), NEW t \in [AnyByte -> AnyByte]
    PROVE  \A z : z = Joined(x, y) =>
             [i \in DOMAIN z |-> t[z[i]]]
             = Joined([i \in DOMAIN x |-> t[x[i]]], [i \in DOMAIN y |-> t[y[i]]])
<1> SUFFICES ASSUME NEW z, z = Joined(x, y)
             PROVE  [i \in DOMAIN z |-> t[z[i]]]
                    = Joined([i \in DOMAIN x |-> t[x[i]]], [i \in DOMAIN y |-> t[y[i]]])
  OBVIOUS
<1> DEFINE u == [i \in DOMAIN x |-> t[x[i]]]
           v == [i \in DOMAIN y |-> t[y[i]]]
           w == [i \in DOMAIN z |-> t[z[i]]]
<1>1. /\ z \in Seq(AnyByte) /\ Len(z) = Len(x) + Len(y)
      /\ \A i \in 1..Len(x) : z[i] = x[i]
      /\ \A i \in 1..Len(y) : z[Len(x) + i] = y[i]
  BY JoinAt DEF Joined
<1> HIDE DEF AnyByte
<1>2. \A s \in Seq(AnyByte) : LET m == [i \in DOMAIN s |-> t[s[i]]]
                           IN  /\ m \in Seq(AnyByte) /\ Len(m) = Len(s)
                               /\ \A i \in 1..Len(s) : m[i] = t[s[i]]
  <2> TAKE s \in Seq(AnyByte)
  <2>1. DOMAIN s = 1..Len(s) /\ Len(s) \in Nat /\ \A i \in 1..Len(s) : s[i] \in AnyByte
    OBVIOUS
  <2>2. \A i \in 1..Len(s) : t[s[i]] \in AnyByte
    BY <2>1
  <2> DEFINE m == [i \in 1..Len(s) |-> t[s[i]]]
  <2>3. m \in Seq(AnyByte) /\ Len(m) = Len(s)
    BY <2>1, <2>2
  <2>4. \A i \in 1..Len(s) : m[i] = t[s[i]]
    OBVIOUS
  <2>5. m = [i \in DOMAIN s |-> t[s[i]]]
    BY <2>1
  <2> HIDE DEF m
  <2> QED BY <2>3, <2>4, <2>5
<1>3. /\ u \in Seq(AnyByte) /\ Len(u) = Len(x) /\ \A i \in 1..Len(x) : u[i] = t[x[i]]
      /\ v \in Seq(AnyByte) /\ Len(v) = Len(y) /\ \A i \in 1..Len(y) : v[i] = t[y[i]]
      /\ w \in Seq(AnyByte) /\ Len(w) = Len(z) /\ \A i \in 1..Len(z) : w[i] = t[z[i]]
  BY <1>1, <1>2
<1> HIDE DEF u, v, w
<1>4. \A i \in 1..Len(u) : w[i] = u[i]
  <2>1. \A i \in 1..Len(x) : i \in 1..Len(z)
    BY <1>1
  <2> QED BY <1>1, <1>3, <2>1
<1>5. \A i \in 1..Len(v) : w[Len(u) + i] = v[i]
  <2> SUFFICES ASSUME NEW i \in 1..Len(v) PROVE w[Len(u) + i] = v[i]
    OBVIOUS
  <2>1. i \in 1..Len(y) /\ Len(x) + i \in 1..Len(z) /\ Len(u) = Len(x)
    BY <1>1, <1>3
  <2>2. w[Len(x) + i] = t[z[Len(x) + i]] /\ v[i] = t[y[i]]
    BY <1>3, <2>1
  <2> QED BY <1>1, <2>1, <2>2
<1>6. Len(w) = Len(u) + Len(v)
  BY <1>1, <1>3
<1>7. w = Joined(u, v)
  <2>1. u \in Seq(AnyByte) /\ v \in Seq(AnyByte) /\ w \in Seq(AnyByte)
    BY <1>3
  <2> QED BY <1>4, <1>5, <1>6, <2>1, SameIsJoined, SMTT(90)
<1> QED BY <1>7 DEF u, v, w

\* read_and_delete, read_and_xlate and plain_read work byte by byte.
LEMMA ReaderParts ==
    ASSUME Ready, NEW x \in Seq(AnyByte), NEW y \in Seq(AnyByte)
    PROVE  \A z : z = Joined(x, y) => Reader(z) = Joined(Reader(x), Reader(y))
<1>1. \A z : z = Joined(x, y) => Removed(z, Deleted) = Joined(Removed(x, Deleted), Removed(y, Deleted))
  BY RemovedConcat
<1>2. Table \in [AnyByte -> AnyByte]
  BY DEF Ready
<1>3. \A z : z = Joined(x, y) =>
             [i \in DOMAIN z |-> Table[z[i]]]
             = Joined([i \in DOMAIN x |-> Table[x[i]]], [i \in DOMAIN y |-> Table[y[i]]])
  BY <1>2, MapParts
<1>4. \A z : z = Joined(x, y) => z = Joined(x, y)
  OBVIOUS
<1> QED BY <1>1, <1>3, <1>4 DEF Reader

\* What they make of bytes is bytes.
LEMMA ReaderTyped ==
    ASSUME Ready, NEW x \in Seq(AnyByte)
    PROVE  Reader(x) \in Seq(AnyByte)
<1>1. Removed(x, Deleted) \in Seq(AnyByte)
  BY SinglyTyped
<1>2. [i \in DOMAIN x |-> Table[x[i]]] \in Seq(AnyByte)
  <2>1. Table \in [AnyByte -> AnyByte]
    BY DEF Ready
  <2> QED BY <2>1
<1> QED BY <1>1, <1>2 DEF Reader

\* What they make of one byte.
LEMMA ReaderOne ==
    ASSUME Ready, NEW b \in AnyByte
    PROVE  Reader(<<b>>) = ReadOne(b) /\ Reader(<<>>) = <<>>
<1>1. Reader(<<>>) = <<>>
  <2>1. <<>> \in Seq(AnyByte)
    OBVIOUS
  <2>2. Removed(<<>>, Deleted) = <<>>
    <3> DEFINE none == <<>>
    <3>1. none \in Seq(AnyByte) /\ \A i \in 1..Len(none) : none[i] \notin Deleted
      OBVIOUS
    <3> HIDE DEF none
    <3>2. Removed(none, Deleted) = none
      BY <3>1, RemovedNone
    <3> QED BY <3>2 DEF none
  <2>3. [i \in DOMAIN <<>> |-> Table[<<>>[i]]] = <<>>
    OBVIOUS
  <2> QED BY <2>2, <2>3 DEF Reader
<1>2. Reader(<<b>>) = ReadOne(b)
  <2>1. Removed(<<b>>, Deleted) = IF b \in Deleted THEN <<>> ELSE <<b>>
    BY RemovedOne
  <2>2. [i \in DOMAIN <<b>> |-> Table[<<b>>[i]]] = <<Table[b]>>
    OBVIOUS
  <2>3. CASE job.delete
    BY <2>1, <2>3 DEF Reader, ReadOne, Moved, Translating
  <2>4. CASE ~job.delete
    <3>1. b \notin Deleted
      BY <2>4 DEF Ready
    <3> QED BY <2>2, <2>4, <3>1 DEF Reader, ReadOne, Moved
  <2> QED BY <2>3, <2>4
<1> QED BY <1>1, <1>2

-----------------------------------------------------------------------------
\* translate_input after the first i bytes of a piece, when it is at f before
\* the last of them, and what that is.
TranslatedAt(f, was, piece, i) == IF i = 0 THEN was ELSE Translate(f[i - 1], piece[i])
IsTranslated(f, was, piece) == f = [i \in 0..Len(piece) |-> TranslatedAt(f, was, piece, i)]
Written(was, read) == [out |-> Joined(was.out, Deduped(SqueezeSet, was.previous, read)),
                     previous |-> LastOf(was.previous, read)]
States == [out : Seq(AnyByte), previous : 0..MaxByte + 1]

\* One byte more, through the stages of translate_input.
LEMMA WrittenMore ==
    ASSUME Ready, NEW was \in States, NEW x \in Seq(AnyByte), NEW b \in AnyByte
    PROVE  /\ Written(was, Reader(<<>>)) = was
           /\ Translate(Written(was, Reader(x)), b) = Written(was, Reader(Joined(x, <<b>>)))
<1> DEFINE prev == was.previous
           read == Reader(x)
           last == LastOf(prev, read)
           old == Deduped(SqueezeSet, prev, read)
           more == ReadOne(b)
<1>r. was.out \in Seq(AnyByte) /\ was = [out |-> was.out, previous |-> prev]
  BY DEF States
<1>1. Written(was, Reader(<<>>)) = was
  <2>1. \A s \in Seq(AnyByte) : s \o <<>> = s
    OBVIOUS
  <2> QED BY <1>r, <2>1, ReaderOne, DedupedEmpty DEF Written, Joined
<1>2. read \in Seq(AnyByte) /\ more \in Seq(AnyByte) /\ <<b>> \in Seq(AnyByte) /\ Moved(b) \in AnyByte
  <2>1. read \in Seq(AnyByte) /\ <<b>> \in Seq(AnyByte)
    BY ReaderTyped
  <2>2. Moved(b) \in AnyByte
    BY DEF Moved, Ready
  <2>3. more \in Seq(AnyByte)
    BY <2>2 DEF ReadOne
  <2> QED BY <2>1, <2>2, <2>3
<1>3. Reader(Joined(x, <<b>>)) = Joined(read, more)
  <2> DEFINE y == <<b>>
  <2>1. y \in Seq(AnyByte) /\ Reader(y) = more
    BY <1>2, ReaderOne
  <2> HIDE DEF y
  <2>2. \A z : z = Joined(x, y) => Reader(z) = Joined(Reader(x), Reader(y))
    BY <2>1, ReaderParts
  <2>3. Reader(Joined(x, y)) = Joined(read, more)
    BY <2>1, <2>2 DEF read
  <2> QED BY <2>3 DEF y
<1>4. old \in Seq(AnyByte)
  BY <1>2, UnrepeatedTyped
<1> HIDE DEF prev, read, more
<1>5. /\ Deduped(SqueezeSet, prev, Reader(Joined(x, <<b>>))) = Joined(old, Deduped(SqueezeSet, last, more))
      /\ LastOf(prev, Reader(Joined(x, <<b>>))) = LastOf(last, more)
  <2>1. \A z : z = Joined(read, more) =>
           /\ Deduped(SqueezeSet, prev, z) = Joined(old, Deduped(SqueezeSet, last, more))
           /\ LastOf(prev, z) = LastOf(last, more)
    <3>1. read \in Seq(AnyByte) /\ more \in Seq(AnyByte)
      BY <1>2
    <3> HIDE DEF AnyByte
    <3> QED BY <3>1, DedupedConcat
  <2> QED BY <1>3, <2>1
<1>6. Written(was, Reader(Joined(x, <<b>>)))
        = [out |-> Joined(was.out, Joined(old, Deduped(SqueezeSet, last, more))),
           previous |-> LastOf(last, more)]
  BY <1>5 DEF Written, prev
<1>7. Written(was, read) = [out |-> Joined(was.out, old), previous |-> last]
  BY DEF Written, prev
<1> HIDE DEF old, last
<1>8. CASE b \in Deleted
  <2>1. more = <<>>
    BY <1>8 DEF more, ReadOne
  <2>2. Deduped(SqueezeSet, last, more) = <<>> /\ LastOf(last, more) = last
    BY <2>1, DedupedEmpty
  <2>3. Joined(old, <<>>) = old
    BY <1>4 DEF Joined
  <2>4. Translate(Written(was, read), b) = Written(was, read)
    BY <1>8 DEF Translate
  <2> QED BY <1>1, <1>6, <1>7, <2>2, <2>3, <2>4 DEF read
<1>9. CASE b \notin Deleted
  <2> DEFINE e == Moved(b)
             kept == IF e \in SqueezeSet /\ e = last THEN <<>> ELSE <<e>>
  <2>1. more = <<e>>
    BY <1>9 DEF more, ReadOne
  <2>2. Deduped(SqueezeSet, last, more) = kept /\ LastOf(last, more) = e
    BY <1>2, <2>1, DedupedOne
  <2>3. Translate(Written(was, read), b)
          = [out |-> IF e \in SqueezeSet /\ last = e THEN Joined(was.out, old)
                     ELSE Append(Joined(was.out, old), e),
             previous |-> e]
    BY <1>7, <1>9 DEF Translate, Moved
  <2> HIDE DEF e
  <2>4. /\ Joined(was.out, Joined(old, <<>>)) = Joined(was.out, old)
        /\ Joined(was.out, Joined(old, <<e>>)) = Append(Joined(was.out, old), e)
    <3>1. Joined(old, <<>>) = old
      BY <1>4 DEF Joined
    <3>2. old \o <<e>> = Append(old, e) /\ e \in AnyByte
      BY <1>2, <1>4 DEF e
    <3>3. was.out \o Append(old, e) = Append(was.out \o old, e)
      BY <1>r, <1>4, <3>2, AppendAfter
    <3> QED BY <3>1, <3>2, <3>3 DEF Joined
  <2> QED BY <1>1, <1>6, <2>2, <2>3, <2>4 DEF read
<1> QED BY <1>8, <1>9

\* The same of TranslateAll.
LEMMA TranslateTurn ==
    ASSUME Ready, NEW was \in States, NEW piece \in Seq(AnyByte), NEW f, NEW i \in 0..Len(piece),
           i # 0 => f[i - 1] = Written(was, Reader(SubSeq(piece, 1, i - 1)))
    PROVE  TranslatedAt(f, was, piece, i) = Written(was, Reader(SubSeq(piece, 1, i)))
<1>1. CASE i = 0
  <2>1. SubSeq(piece, 1, 0) = <<>> /\ <<>> \in Seq(AnyByte) /\ 0 \in AnyByte
    BY TrAssumption DEF AnyByte
  <2> QED BY <1>1, <2>1, WrittenMore DEF TranslatedAt
<1>2. CASE i # 0
  <2> DEFINE x == SubSeq(piece, 1, i - 1)
  <2>1. /\ x \in Seq(AnyByte) /\ piece[i] \in AnyByte
        /\ SubSeq(piece, 1, i) = Joined(x, <<piece[i]>>)
    <3>1. i \in 1..Len(piece)
      BY <1>2
    <3> HIDE DEF AnyByte
    <3>2. /\ x \in Seq(AnyByte) /\ Len(x) = i - 1 /\ piece[i] \in AnyByte
          /\ \A k \in 1..i - 1 : x[k] = piece[k]
      BY <3>1
    <3> HIDE DEF x
    <3>3. /\ SubSeq(piece, 1, i) \in Seq(AnyByte) /\ Len(SubSeq(piece, 1, i)) = i
          /\ \A k \in 1..i : SubSeq(piece, 1, i)[k] = piece[k]
      BY <3>1
    <3>4. x \o <<piece[i]>> \in Seq(AnyByte) /\ Len(x \o <<piece[i]>>) = i
      BY <3>1, <3>2
    <3>5. \A k \in 1..i : (x \o <<piece[i]>>)[k] = piece[k]
      BY <3>1, <3>2
    <3> DEFINE y == x \o <<piece[i]>>
    <3> HIDE DEF y
    <3>6. SubSeq(piece, 1, i) = y
      BY <3>1, <3>3, <3>4, <3>5, SameSeq DEF y
    <3> QED BY <3>2, <3>6 DEF y, Joined
  <2> HIDE DEF x
  <2>2. Translate(Written(was, Reader(x)), piece[i]) = Written(was, Reader(Joined(x, <<piece[i]>>)))
    BY <2>1, WrittenMore
  <2> QED BY <1>2, <2>1, <2>2 DEF TranslatedAt, x
<1> QED BY <1>1, <1>2

\* With -s the Rust writes what is left of what is translated
\* (operation.rs:722-756).
LEMMA TranslateAllIs ==
    ASSUME Ready, NEW was \in States, NEW piece \in Seq(AnyByte)
    PROVE  TranslateAll(was, piece) = Written(was, Reader(piece))
<1> DEFINE n == Len(piece)
           Sol(i) == Written(was, Reader(SubSeq(piece, 1, i)))
           g == [i \in 0..n |-> Sol(i)]
           f == CHOOSE h : IsTranslated(h, was, piece)
<1>1. TranslateAll(was, piece) = f[n]
  BY DEF TranslateAll, IsTranslated, TranslatedAt
<1>2. n \in Nat /\ n = Len(piece)
  OBVIOUS
<1> HIDE DEF n, Sol
<1>3. IsTranslated(g, was, piece)
  <2>1. \A i \in 0..n : g[i] = TranslatedAt(g, was, piece, i)
    <3> SUFFICES ASSUME NEW i \in 0..n PROVE g[i] = TranslatedAt(g, was, piece, i)
      OBVIOUS
    <3>1. g[i] = Sol(i) /\ (i # 0 => i - 1 \in 0..n)
      BY <1>2
    <3>2. i # 0 => g[i - 1] = Sol(i - 1)
      BY <3>1
    <3> HIDE DEF g
    <3> QED BY <1>2, <3>1, <3>2, TranslateTurn DEF Sol
  <2> QED BY <1>2, <2>1 DEF IsTranslated
<1>4. IsTranslated(f, was, piece)
  BY <1>3
<1> HIDE DEF f, g
<1>5. \A i \in 0..n : f[i] = TranslatedAt(f, was, piece, i)
  BY <1>2, <1>4 DEF IsTranslated
<1> DEFINE Wrong == {i \in 0..n : f[i] # Sol(i)}
<1>6. ASSUME Wrong # {} PROVE FALSE
  <2>1. PICK i \in Wrong : \A j \in Wrong : i <= j
    <3>1. Wrong \subseteq Nat
      OBVIOUS
    <3> HIDE DEF Wrong
    <3> QED BY <1>6, <3>1, Least
  <2>2. i \in 0..n /\ f[i] # Sol(i)
    OBVIOUS
  <2>3. i # 0 => i - 1 \in 0..n /\ f[i - 1] = Sol(i - 1)
    BY <1>2, <2>1, <2>2
  <2> HIDE DEF Wrong
  <2>4. TranslatedAt(f, was, piece, i) = Sol(i)
    BY <1>2, <2>2, <2>3, TranslateTurn DEF Sol
  <2> QED BY <1>5, <2>2, <2>4
<1>7. n \in 0..n /\ SubSeq(piece, 1, n) = piece
  BY <1>2
<1>8. f[n] = Sol(n)
  BY <1>6, <1>7
<1> QED BY <1>1, <1>7, <1>8 DEF Sol

-----------------------------------------------------------------------------
\* Without -s: the shortcuts for a single byte change nothing.
LEMMA CountIs ==
    ASSUME NEW piece \in Seq(AnyByte), NEW b
    PROVE  LET count == Cardinality({i \in DOMAIN piece : piece[i] = b})
           IN  /\ count = 0 <=> \A i \in 1..Len(piece) : piece[i] # b
               /\ count = Len(piece) <=> \A i \in 1..Len(piece) : piece[i] = b
<1> DEFINE I == {i \in DOMAIN piece : piece[i] = b}
           n == Len(piece)
<1>1. n \in Nat /\ DOMAIN piece = 1..n /\ n = Len(piece)
  OBVIOUS
<1>2. I \subseteq 1..n /\ \A i \in 1..n : i \in I <=> piece[i] = b
  BY <1>1
<1> HIDE DEF n
<1>3. IsFiniteSet(1..n) /\ Cardinality(1..n) = n
  <2>1. n \in Int /\ 1 \in Int /\ (IF 1 > n THEN 0 ELSE n - 1 + 1) = n
    BY <1>1
  <2>2. /\ IsFiniteSet(1..n)
        /\ Cardinality(1..n) = IF 1 > n THEN 0 ELSE n - 1 + 1
    BY <2>1, FS_Interval
  <2> QED BY <2>1, <2>2
<1> HIDE DEF I
<1>4. IsFiniteSet(I) /\ (Cardinality(I) = n <=> I = 1..n)
  BY <1>2, <1>3, FS_Subset
<1>5. Cardinality(I) = 0 <=> I = {}
  BY <1>4, FS_EmptySet
<1>6. I = {} <=> \A i \in 1..n : piece[i] # b
  BY <1>2
<1>7. I = 1..n <=> \A i \in 1..n : piece[i] = b
  BY <1>2
<1> QED BY <1>1, <1>4, <1>5, <1>6, <1>7 DEF I

\* Counting a single byte first deletes the same (operation.rs:203-319).
LEMMA DeleteShortcut ==
    ASSUME NEW piece \in Seq(AnyByte), NEW b
    PROVE  ProcessDelete(piece, b) = Removed(piece, {b})
<1> DEFINE count == Cardinality({i \in DOMAIN piece : piece[i] = b})
<1>1. /\ count = 0 <=> \A i \in 1..Len(piece) : piece[i] # b
      /\ count = Len(piece) <=> \A i \in 1..Len(piece) : piece[i] = b
  BY CountIs
<1>2. ProcessDelete(piece, b) = IF count = 0 THEN piece
                                ELSE IF count = Len(piece) THEN <<>> ELSE Removed(piece, {b})
  BY DEF ProcessDelete
<1> HIDE DEF count
<1>3. ASSUME count = 0 PROVE Removed(piece, {b}) = piece
  <2>1. \A i \in 1..Len(piece) : piece[i] \notin {b}
    BY <1>1, <1>3
  <2> QED BY <2>1, RemovedNone
<1>4. ASSUME count = Len(piece) PROVE Removed(piece, {b}) = <<>>
  <2>1. \A i \in 1..Len(piece) : piece[i] \in {b}
    BY <1>1, <1>4
  <2> QED BY <2>1, RemovedAll
<1> QED BY <1>2, <1>3, <1>4

\* Counting a single byte first replaces the same.
LEMMA ReplaceShortcut ==
    ASSUME NEW piece \in Seq(AnyByte), NEW t \in [AnyByte -> AnyByte], NEW b \in AnyByte,
           \A e \in AnyByte : e # b => t[e] = e
    PROVE  ProcessReplace(piece, b, t[b]) = [i \in DOMAIN piece |-> t[piece[i]]]
<1> DEFINE count == Cardinality({i \in DOMAIN piece : piece[i] = b})
           n == Len(piece)
           mapped == [i \in DOMAIN piece |-> t[piece[i]]]
<1>1. /\ count = 0 <=> \A i \in 1..Len(piece) : piece[i] # b
      /\ count = Len(piece) <=> \A i \in 1..Len(piece) : piece[i] = b
  BY CountIs
<1>2. ProcessReplace(piece, b, t[b])
         = IF count = 0 THEN piece
           ELSE IF count = n THEN Repeated(t[b], n)
           ELSE [i \in DOMAIN piece |-> IF piece[i] = b THEN t[b] ELSE piece[i]]
  BY DEF ProcessReplace
<1>3. /\ n \in Nat /\ DOMAIN piece = 1..n /\ piece = [i \in 1..n |-> piece[i]]
      /\ \A i \in 1..n : piece[i] \in AnyByte
  OBVIOUS
<1> HIDE DEF count, AnyByte
<1>4. mapped = [i \in DOMAIN piece |-> IF piece[i] = b THEN t[b] ELSE piece[i]]
  BY <1>3
<1>5. ASSUME count = 0 PROVE mapped = piece
  <2>1. \A i \in 1..n : t[piece[i]] = piece[i]
    BY <1>1, <1>3, <1>5
  <2> HIDE DEF n
  <2> QED BY <1>3, <2>1
<1>6. ASSUME count = n PROVE mapped = Repeated(t[b], n)
  <2>1. \A i \in 1..n : t[piece[i]] = t[b]
    BY <1>1, <1>6
  <2>2. Max({0, n}) = n
    <3> HIDE DEF n
    <3> QED BY <1>3 DEF Max
  <2> HIDE DEF n
  <2> QED BY <1>3, <2>1, <2>2 DEF Repeated
<1> HIDE DEF n, mapped
<1> QED BY <1>2, <1>4, <1>5, <1>6 DEF mapped

\* Without -s the Rust makes of a piece what the readers of the C make of it.
LEMMA ProcessChunkIs ==
    ASSUME Ready, NEW piece \in Seq(AnyByte)
    PROVE  ProcessChunk(piece) = Reader(piece)
<1>1. IsFiniteSet(AnyByte)
  BY TrAssumption, FS_Interval DEF AnyByte
<1>2. \A S : S \subseteq AnyByte /\ Single(S) # {} => \E b : S = {b}
  <2> SUFFICES ASSUME NEW S, S \subseteq AnyByte, Single(S) # {} PROVE \E b : S = {b}
    OBVIOUS
  <2>1. IsFiniteSet(S) /\ Cardinality(S) = 1
    BY <1>1, FS_Subset DEF Single
  <2> QED BY <2>1, FS_Singleton
<1>3. CASE job.delete
  <2>1. ASSUME Single(Deleted) # {}
        PROVE  ProcessDelete(piece, CHOOSE b \in Deleted : TRUE) = Removed(piece, Deleted)
    <3>1. PICK b : Deleted = {b}
      BY <1>2, <2>1 DEF Ready
    <3>2. (CHOOSE e \in Deleted : TRUE) = b
      BY <3>1
    <3>3. ProcessDelete(piece, b) = Removed(piece, {b})
      BY DeleteShortcut
    <3> QED BY <3>1, <3>2, <3>3
  <2> QED BY <1>3, <2>1 DEF ProcessChunk, Reader
<1>4. CASE ~job.delete
  <2> DEFINE changed == {b \in 0..MaxByte : Table[b] # b}
             mapped == [i \in DOMAIN piece |-> Table[piece[i]]]
             b == CHOOSE e \in changed : TRUE
  <2>1. ProcessChunk(piece) = IF Single(changed) # {}
                              THEN ProcessReplace(piece, b, Table[b]) ELSE mapped
    BY <1>4 DEF ProcessChunk
  <2>2. ASSUME Single(changed) # {}
        PROVE  ProcessReplace(piece, b, Table[b]) = mapped
    <3>1. changed \subseteq AnyByte
      BY DEF AnyByte
    <3>2. \A e \in AnyByte : e \notin changed => Table[e] = e
      BY DEF AnyByte
    <3> HIDE DEF changed
    <3>3. PICK e : changed = {e}
      BY <1>2, <2>2, <3>1
    <3>4. b = e /\ e \in AnyByte
      BY <3>1, <3>3
    <3>5. \A d \in AnyByte : d # b => Table[d] = d
      BY <3>2, <3>3, <3>4
    <3>6. Table \in [AnyByte -> AnyByte]
      BY DEF Ready
    <3> HIDE DEF b
    <3> QED BY <3>4, <3>5, <3>6, ReplaceShortcut
  <2>3. Reader(piece) = mapped
    <3>1. CASE Translating
      BY <1>4, <3>1 DEF Reader
    <3>2. CASE ~Translating
      <4>1. Table = [d \in AnyByte |-> d]
        BY <3>2 DEF Ready
      <4>2. mapped = piece
        <5>1. piece = [i \in DOMAIN piece |-> piece[i]] /\ \A i \in DOMAIN piece : piece[i] \in AnyByte
          OBVIOUS
        <5>2. \A i \in DOMAIN piece : Table[piece[i]] = piece[i]
          BY <4>1, <5>1
        <5> HIDE DEF AnyByte
        <5> QED BY <5>1, <5>2
      <4> QED BY <1>4, <3>2, <4>2 DEF Reader
    <3> QED BY <3>1, <3>2
  <2> HIDE DEF changed, mapped, b
  <2> QED BY <2>1, <2>2, <2>3
<1> QED BY <1>3, <1>4

-----------------------------------------------------------------------------
\* What the operations of a job are built from.
JobTyped == /\ job.tool = "tr"
            /\ job.delete \in BOOLEAN /\ job.squeeze \in BOOLEAN
            /\ job.complement \in BOOLEAN /\ job.truncate \in BOOLEAN
            /\ job.set1 \in Seq(Items)
            /\ \E items \in Seq(Items) : job.set2 \in {{}, {items}}
            /\ job.input \in Seq(AnyByte)

IsStar(item) == item.kind = "star"
Stars(items) == {i \in DOMAIN items : IsStar(items[i])}
FinitePieces(items) ==
    [i \in DOMAIN items |-> IF IsStar(items[i]) THEN <<>> ELSE Flatten(items[i])]
FirstOf(set1, complement) ==
    IF complement THEN Without(ToSet(FlattenAll(set1))) ELSE FlattenAll(set1)
First == FirstOf(job.set1, job.complement)
Given == FlattenFinite(Set2)
FilledOf(set2, first) ==
    [i \in DOMAIN set2 |->
        IF ~IsStar(set2[i]) THEN set2[i]
        ELSE Item("repeat", set2[i].c,
                  IF set2[i].c = 0 THEN 0 ELSE Max({0, Len(first) - Len(FlattenFinite(set2))}))]
Filled == FilledOf(Set2, First)
Second == FlattenAll(Filled)
CutTo(first, second, truncate) ==
    IF truncate THEN SubSeq(first, 1, Min({Len(first), Len(second)})) ELSE first
Cut == CutTo(First, Second, job.truncate /\ Translating)
Pair(first, set2, truncate) ==
    <<CutTo(first, FlattenAll(FilledOf(set2, first)), truncate),
      FlattenAll(FilledOf(set2, first))>>

\* Solve, told in these names.
LEMMA SolveIs ==
    ASSUME NEW set1, NEW set2, NEW complement, NEW truncate, NEW translating
    PROVE  \/ Solve(set1, set2, complement, truncate, translating) = {}
           \/ /\ Stars(set1) = {}
              /\ ~(Cardinality(Stars(set2)) > 1)
              /\ Solve(set1, set2, complement, truncate, translating)
                   = {Pair(FirstOf(set1, complement), set2, truncate)}
BY DEF Solve, Stars, IsStar, FirstOf, FilledOf, Pair, CutTo

\* The sets of a job that is accepted.
LEMMA SetsAre ==
    ASSUME JobTyped, Sets # {}
    PROVE  /\ Usage /\ Stars(job.set1) = {} /\ ~(Cardinality(Stars(Set2)) > 1)
           /\ Sets = {<<Cut, Second>>}
           /\ Translating => Second # <<>> \/ Cut = <<>>
<1> DEFINE solved == Solve(job.set1, Set2, job.complement, job.truncate /\ Translating, Translating)
<1>1. Usage /\ Sets = {s \in solved : Translating => s[2] # <<>> \/ s[1] = <<>>}
  BY DEF Sets, Set2
<1>2. solved # {}
  BY <1>1
<1>3. /\ Stars(job.set1) = {} /\ ~(Cardinality(Stars(Set2)) > 1)
      /\ solved = {<<Cut, Second>>}
  <2>1. \A truncating, translating :
           \/ Solve(job.set1, Set2, job.complement, truncating, translating) = {}
           \/ /\ Stars(job.set1) = {}
              /\ ~(Cardinality(Stars(Set2)) > 1)
              /\ Solve(job.set1, Set2, job.complement, truncating, translating)
                   = {Pair(First, Set2, truncating)}
    BY SolveIs DEF First
  <2>2. \/ solved = {}
        \/ /\ Stars(job.set1) = {}
           /\ ~(Cardinality(Stars(Set2)) > 1)
           /\ solved = {Pair(First, Set2, job.truncate /\ Translating)}
    BY <2>1, Zenon
  <2> HIDE DEF solved
  <2>3. Pair(First, Set2, job.truncate /\ Translating) = <<Cut, Second>>
    BY DEF Pair, Cut, Second, Filled
  <2> QED BY <1>2, <2>2, <2>3
<1> HIDE DEF solved
<1> QED BY <1>1, <1>2, <1>3

\* The fields of an item, by its kind.
LEMMA ItemKinds ==
    ASSUME NEW item \in Items
    PROVE  \/ item.kind = "byte" /\ item.c \in AnyByte
           \/ item.kind = "range" /\ item.c \in AnyByte /\ item.d \in AnyByte
           \/ item.kind = "repeat" /\ item.c \in AnyByte /\ item.d \in Nat
           \/ item.kind = "star" /\ item.c \in AnyByte
           \/ /\ item.kind \in Classes
              /\ item.kind \notin {"byte", "range", "repeat", "star"}
BY TrAssumption DEF Items, Item, AnyByte

\* A byte repeated n times.
LEMMA RepeatedTyped ==
    ASSUME NEW b \in AnyByte, NEW n \in Int
    PROVE  /\ Repeated(b, n) \in Seq(AnyByte)
           /\ Len(Repeated(b, n)) = (IF n > 0 THEN n ELSE 0)
           /\ \A i \in 1..Len(Repeated(b, n)) : Repeated(b, n)[i] = b
<1>1. Max({0, n}) = IF n > 0 THEN n ELSE 0
  BY DEF Max
<1> DEFINE m == IF n > 0 THEN n ELSE 0
<1>2. m \in Nat /\ Repeated(b, n) = [i \in 1..m |-> b]
  BY <1>1 DEF Repeated
<1> HIDE DEF m, AnyByte
<1> QED BY <1>2 DEF m

\* What a finite item stands for is bytes.
LEMMA FlattenItem ==
    ASSUME NEW item \in Items, ~IsStar(item)
    PROVE  Flatten(item) \in Seq(AnyByte)
<1>k. item.kind \in {"byte", "range", "repeat", "star"} => ~Class(item)
  BY TrAssumption DEF Class
<1>1. CASE item.kind = "byte" /\ item.c \in AnyByte
  <2>1. Flatten(item) = <<item.c>>
    BY <1>k, <1>1 DEF Flatten
  <2> QED BY <1>1, <2>1
<1>2. CASE item.kind = "range" /\ item.c \in AnyByte /\ item.d \in AnyByte
  <2>1. Flatten(item) = [i \in 1..(item.d - item.c + 1) |-> item.c + i - 1]
    BY <1>k, <1>2 DEF Flatten
  <2>2. \A i \in 1..(item.d - item.c + 1) : item.c + i - 1 \in AnyByte
    BY <1>2, TrAssumption DEF AnyByte
  <2>3. item.d - item.c + 1 \in Int
    BY <1>2, TrAssumption DEF AnyByte
  <2> DEFINE n == item.d - item.c + 1
             F(i) == item.c + i - 1
  <2>4. \A i \in 1..n : F(i) \in AnyByte
    BY <2>2
  <2> HIDE DEF n, F
  <2>5. [i \in 1..n |-> F(i)] \in Seq(AnyByte)
    <3>1. CASE n \in Nat
      BY <2>4, <3>1
    <3>2. CASE n \notin Nat
      <4>1. 1..n = {} /\ 1..n = 1..0
        BY <2>3, <3>2 DEF n
      <4>2. [i \in 1..n |-> F(i)] = <<>>
        BY <4>1
      <4>3. <<>> \in Seq(AnyByte)
        OBVIOUS
      <4> QED BY <4>2, <4>3
    <3> QED BY <3>1, <3>2
  <2> QED BY <2>1, <2>5 DEF n, F
<1>3. CASE item.kind = "repeat" /\ item.c \in AnyByte /\ item.d \in Nat
  <2>1. Flatten(item) = Repeated(item.c, item.d)
    BY <1>k, <1>3 DEF Flatten
  <2>2. item.d \in Int
    BY <1>3
  <2> QED BY <1>3, <2>1, <2>2, RepeatedTyped
<1>4. CASE item.kind \in Classes /\ item.kind \notin {"byte", "range", "repeat", "star"}
  <2>1. Flatten(item) = Members[item.kind]
    BY <1>4 DEF Flatten, Class
  <2> QED BY <1>4, <2>1, TrAssumption DEF AnyByte
<1> QED BY <1>1, <1>2, <1>3, <1>4, ItemKinds DEF IsStar

\* So is what the finite items stand for.
LEMMA FiniteTyped ==
    ASSUME NEW items \in Seq(Items)
    PROVE  /\ FinitePieces(items) \in Seq(Seq(AnyByte))
           /\ Len(FinitePieces(items)) = Len(items)
           /\ \A i \in 1..Len(items) :
                 FinitePieces(items)[i] = IF IsStar(items[i]) THEN <<>> ELSE Flatten(items[i])
           /\ FlattenFinite(items) = FlattenSeq(FinitePieces(items))
           /\ FlattenFinite(items) \in Seq(AnyByte)
<1>1. \A i \in 1..Len(items) :
         (IF IsStar(items[i]) THEN <<>> ELSE Flatten(items[i])) \in Seq(AnyByte)
  <2> SUFFICES ASSUME NEW i \in 1..Len(items)
               PROVE  (IF IsStar(items[i]) THEN <<>> ELSE Flatten(items[i])) \in Seq(AnyByte)
    OBVIOUS
  <2>1. items[i] \in Items
    OBVIOUS
  <2>2. ~IsStar(items[i]) => Flatten(items[i]) \in Seq(AnyByte)
    BY <2>1, FlattenItem
  <2>3. <<>> \in Seq(AnyByte)
    OBVIOUS
  <2> QED BY <2>2, <2>3
<1> DEFINE T == Seq(AnyByte)
           F(i) == IF IsStar(items[i]) THEN <<>> ELSE Flatten(items[i])
<1>2. FinitePieces(items) = [i \in 1..Len(items) |-> F(i)]
  BY DEF FinitePieces
<1>3. \A i \in 1..Len(items) : F(i) \in T
  BY <1>1
<1>4. \A i \in 1..Len(items) : FinitePieces(items)[i] = F(i)
  BY <1>2
<1>5. FinitePieces(items) \in Seq(T) /\ Len(FinitePieces(items)) = Len(items)
  <2> HIDE DEF T, F
  <2> QED BY <1>2, <1>3
<1>6. FlattenFinite(items) = FlattenSeq(FinitePieces(items))
  BY DEF FlattenFinite, FinitePieces, IsStar
<1>7. FlattenSeq(FinitePieces(items)) \in Seq(AnyByte)
  BY <1>5, FlattenTyped
<1> QED BY <1>4, <1>5, <1>6, <1>7

\* Without a star the finite items are all.
LEMMA AllFinite ==
    ASSUME NEW items \in Seq(Items), Stars(items) = {}
    PROVE  FlattenAll(items) = FlattenFinite(items)
<1>1. \A i \in DOMAIN items : ~(items[i].kind = "star")
  BY DEF Stars, IsStar
<1>2. [i \in DOMAIN items |-> Flatten(items[i])]
      = [i \in DOMAIN items |-> IF items[i].kind = "star" THEN <<>> ELSE Flatten(items[i])]
  BY <1>1
<1> QED BY <1>2 DEF FlattenAll, FlattenFinite

\* The sets are sequences of bytes.
LEMMA FirstTyped ==
    ASSUME JobTyped, Stars(job.set1) = {}
    PROVE  First \in Seq(AnyByte)
<1>1. FlattenAll(job.set1) \in Seq(AnyByte)
  BY AllFinite, FiniteTyped DEF JobTyped
<1>2. AllBytes \in Seq(AnyByte)
  BY TrAssumption DEF AllBytes, AnyByte
<1>3. \A S : Without(S) \in Seq(AnyByte)
  BY <1>2, SinglyTyped DEF Without
<1> QED BY <1>1, <1>3 DEF First, FirstOf

\* The second set is a sequence of items.
LEMMA Set2Typed ==
    ASSUME JobTyped
    PROVE  /\ Set2 \in Seq(Items)
           /\ job.set2 # {} => (CHOOSE items \in job.set2 : TRUE) = Set2
<1>1. PICK items \in Seq(Items) : job.set2 \in {{}, {items}}
  BY DEF JobTyped
<1>2. (CHOOSE s \in {items} : TRUE) = items
  OBVIOUS
<1>3. <<>> \in Seq(Items)
  OBVIOUS
<1> QED BY <1>1, <1>2, <1>3 DEF Set2

-----------------------------------------------------------------------------
\* A sequence of sequences, split at one of them.
LEMMA FlattenSplit ==
    ASSUME NEW B, NEW seqs \in Seq(Seq(B)), NEW j \in 1..Len(seqs)
    PROVE  LET before == FlattenSeq(SubSeq(seqs, 1, j - 1))
               after == FlattenSeq(SubSeq(seqs, j + 1, Len(seqs)))
           IN  /\ FlattenSeq(SubSeq(seqs, 1, j)) = Joined(before, seqs[j])
               /\ FlattenSeq(seqs) = Joined(Joined(before, seqs[j]), after)
               /\ before \in Seq(B) /\ after \in Seq(B) /\ seqs[j] \in Seq(B)
<1> DEFINE T == Seq(B)
           n == Len(seqs)
           x == SubSeq(seqs, 1, j - 1)
           y == SubSeq(seqs, 1, j)
           z == SubSeq(seqs, j + 1, n)
<1>1. n \in Nat /\ j \in 1..n /\ n = Len(seqs) /\ seqs \in Seq(T) /\ seqs[j] \in T
  OBVIOUS
<1> HIDE DEF T, n
<1>2. /\ x \in Seq(T) /\ Len(x) = j - 1 /\ \A i \in 1..j - 1 : x[i] = seqs[i]
      /\ y \in Seq(T) /\ Len(y) = j /\ \A i \in 1..j : y[i] = seqs[i]
      /\ z \in Seq(T) /\ Len(z) = n - j /\ \A i \in 1..n - j : z[i] = seqs[j + i]
  <2>1. /\ x \in Seq(T) /\ Len(x) = j - 1 /\ \A i \in 1..j - 1 : x[i] = seqs[i]
    BY <1>1
  <2>2. /\ y \in Seq(T) /\ Len(y) = j /\ \A i \in 1..j : y[i] = seqs[i]
    BY <1>1
  <2>3. /\ z \in Seq(T) /\ Len(z) = n - j /\ \A i \in 1..n - j : z[i] = seqs[j + i]
    BY <1>1
  <2> QED BY <2>1, <2>2, <2>3
<1> HIDE DEF x, y, z
<1>3. y = Append(x, seqs[j])
  <2>1. Append(x, seqs[j]) \in Seq(T) /\ Len(Append(x, seqs[j])) = j
    BY <1>1, <1>2
  <2>2. \A i \in 1..j : Append(x, seqs[j])[i] = y[i]
    BY <1>1, <1>2
  <2> DEFINE more == Append(x, seqs[j])
  <2> HIDE DEF more
  <2> QED BY <1>2, <2>1, <2>2, SameSeq DEF more
<1>4. seqs = y \o z
  <2>1. \A i \in 1..Len(y) : seqs[i] = y[i]
    BY <1>2
  <2>2. \A i \in 1..Len(z) : seqs[Len(y) + i] = z[i]
    BY <1>2
  <2>3. Len(seqs) = Len(y) + Len(z)
    BY <1>1, <1>2
  <2> QED BY <1>1, <1>2, <2>1, <2>2, <2>3, SameJoined
<1>5. /\ FlattenSeq(x) \in Seq(B) /\ FlattenSeq(y) = Joined(FlattenSeq(x), seqs[j])
  <2>1. FlattenSeq(Append(x, seqs[j])) = FlattenSeq(x) \o seqs[j] /\ FlattenSeq(x) \in Seq(B)
    BY <1>1, <1>2, FlattenSeqAppend DEF T
  <2> QED BY <1>3, <2>1 DEF Joined
<1>6. FlattenSeq(seqs) = Joined(FlattenSeq(y), FlattenSeq(z))
  <2>1. FlattenSeq(y \o z) = FlattenSeq(y) \o FlattenSeq(z)
    BY <1>2, FlattenConcat DEF T
  <2> QED BY <1>4, <2>1 DEF Joined
<1>7. FlattenSeq(z) \in Seq(B) /\ seqs[j] \in Seq(B)
  BY <1>1, <1>2, FlattenTyped DEF T
<1> QED BY <1>5, <1>6, <1>7 DEF x, y, z, n

\* The finite items around one of them.
LEMMA FiniteParts ==
    ASSUME NEW items \in Seq(Items), NEW a \in 1..Len(items) + 1, NEW b \in 0..Len(items)
    PROVE  FlattenFinite(SubSeq(items, a, b)) = FlattenSeq(SubSeq(FinitePieces(items), a, b))
<1> DEFINE part == SubSeq(items, a, b)
           F == FinitePieces(items)
           G == FinitePieces(part)
           T == Seq(AnyByte)
<1>1. F \in Seq(T) /\ Len(F) = Len(items)
      /\ \A i \in 1..Len(items) : F[i] = IF IsStar(items[i]) THEN <<>> ELSE Flatten(items[i])
  BY FiniteTyped
<1>2. CASE a <= b
  <2>1. /\ part \in Seq(Items) /\ Len(part) = b - a + 1
        /\ \A i \in 1..b - a + 1 : part[i] = items[a + i - 1]
    BY <1>2
  <2> HIDE DEF part, F
  <2>2. G \in Seq(T) /\ Len(G) = Len(part) /\ FlattenFinite(part) = FlattenSeq(G)
        /\ \A i \in 1..Len(part) : G[i] = IF IsStar(part[i]) THEN <<>> ELSE Flatten(part[i])
    BY <2>1, FiniteTyped
  <2> HIDE DEF G, T
  <2>3. /\ SubSeq(F, a, b) \in Seq(T) /\ Len(SubSeq(F, a, b)) = b - a + 1
        /\ \A i \in 1..b - a + 1 : SubSeq(F, a, b)[i] = F[a + i - 1]
    BY <1>1, <1>2
  <2>4. \A i \in 1..b - a + 1 : G[i] = SubSeq(F, a, b)[i]
    <3> SUFFICES ASSUME NEW i \in 1..b - a + 1 PROVE G[i] = SubSeq(F, a, b)[i]
      OBVIOUS
    <3>1. a + i - 1 \in 1..Len(items)
      BY <1>2
    <3> QED BY <1>1, <2>1, <2>2, <2>3, <3>1
  <2> DEFINE H == SubSeq(F, a, b)
  <2>5. H \in Seq(T) /\ Len(H) = Len(G) /\ \A i \in 1..Len(G) : G[i] = H[i]
    BY <2>1, <2>2, <2>3, <2>4
  <2> HIDE DEF H
  <2>6. G = H
    BY <2>2, <2>5, SameSeq
  <2> QED BY <2>2, <2>6 DEF H, F, part
<1>3. CASE a > b
  <2>1. part = <<>> /\ SubSeq(F, a, b) = <<>>
    <3>1. part = <<>>
      BY <1>3
    <3> HIDE DEF F
    <3>2. SubSeq(F, a, b) = <<>>
      BY <1>1, <1>3
    <3> QED BY <3>1, <3>2
  <2>2. FlattenFinite(<<>>) = FlattenSeq(<<>>)
    BY DEF FlattenFinite
  <2> QED BY <2>1, <2>2
<1> QED BY <1>2, <1>3

-----------------------------------------------------------------------------
\* Set 2, with its star filled.
RealStars == {i \in DOMAIN Set2 : IsStar(Set2[i]) /\ Set2[i].c # 0}
Filler(i) == Repeated(Set2[i].c, IF Set2[i].c = 0 THEN 0 ELSE Max({0, Len(First) - Len(Given)}))

\* With its star filled, set2 is a sequence of finite items.
LEMMA FilledTyped ==
    ASSUME JobTyped, Stars(job.set1) = {}
    PROVE  /\ Second \in Seq(AnyByte) /\ Given \in Seq(AnyByte)
           /\ FinitePieces(Filled) \in Seq(Seq(AnyByte))
           /\ Len(FinitePieces(Filled)) = Len(Set2)
           /\ Second = FlattenSeq(FinitePieces(Filled))
           /\ \A i \in 1..Len(Set2) :
                 FinitePieces(Filled)[i] = IF IsStar(Set2[i]) THEN Filler(i) ELSE Flatten(Set2[i])
           /\ \A i \in 1..Len(Set2) : IsStar(Set2[i]) => Set2[i].c \in AnyByte
           /\ Len(First) \in Nat /\ Len(Given) \in Nat
<1>1. Set2 \in Seq(Items) /\ DOMAIN Set2 = 1..Len(Set2) /\ Len(Set2) \in Nat
      /\ \A i \in 1..Len(Set2) : Set2[i] \in Items
  <2>1. Set2 \in Seq(Items)
    BY Set2Typed
  <2> QED BY <2>1
<1>2. Given \in Seq(AnyByte) /\ First \in Seq(AnyByte)
  BY <1>1, FiniteTyped, FirstTyped DEF Given
<1>3. Len(First) \in Nat /\ Len(Given) \in Nat
  BY <1>2
<1>4. \A i \in 1..Len(Set2) : IsStar(Set2[i]) => Set2[i].c \in AnyByte
  <2> SUFFICES ASSUME NEW i \in 1..Len(Set2), IsStar(Set2[i]) PROVE Set2[i].c \in AnyByte
    OBVIOUS
  <2>1. Set2[i] \in Items /\ Set2[i].kind = "star"
    BY <1>1 DEF IsStar
  <2> QED BY <2>1, ItemKinds, TrAssumption
<1> DEFINE n(i) == IF Set2[i].c = 0 THEN 0 ELSE Max({0, Len(First) - Len(Given)})
           F(i) == IF ~IsStar(Set2[i]) THEN Set2[i] ELSE Item("repeat", Set2[i].c, n(i))
<1>5. Max({0, Len(First) - Len(Given)}) \in Nat
  BY <1>3 DEF Max
<1>6. Filled = [i \in 1..Len(Set2) |-> F(i)]
  BY <1>1 DEF Filled, FilledOf, Given
<1>7. \A i \in 1..Len(Set2) : F(i) \in Items /\ ~IsStar(F(i))
  <2> SUFFICES ASSUME NEW i \in 1..Len(Set2) PROVE F(i) \in Items /\ ~IsStar(F(i))
    OBVIOUS
  <2>1. CASE IsStar(Set2[i])
    <3>1. Set2[i].c \in 0..MaxByte /\ n(i) \in Nat
      BY <1>4, <1>5, <2>1 DEF AnyByte
    <3> HIDE DEF n
    <3>2. F(i) = Item("repeat", Set2[i].c, n(i))
      BY <2>1
    <3>3. Item("repeat", Set2[i].c, n(i)) \in Items
      BY <3>1 DEF Items
    <3> QED BY <3>2, <3>3 DEF IsStar, Item
  <2>2. CASE ~IsStar(Set2[i])
    BY <1>1, <2>2
  <2> QED BY <2>1, <2>2
<1>8. \A i \in 1..Len(Set2) :
         Flatten(F(i)) = IF IsStar(Set2[i]) THEN Filler(i) ELSE Flatten(Set2[i])
  <2> SUFFICES ASSUME NEW i \in 1..Len(Set2), IsStar(Set2[i])
               PROVE  Flatten(F(i)) = Filler(i)
    OBVIOUS
  <2>1. F(i) = Item("repeat", Set2[i].c, n(i))
    OBVIOUS
  <2>2. "repeat" \notin Classes
    BY TrAssumption
  <2> HIDE DEF n, F
  <2>3. Flatten(F(i)) = Repeated(Set2[i].c, n(i))
    BY <2>1, <2>2 DEF Flatten, Item, Class
  <2> QED BY <2>3 DEF Filler, n
<1> HIDE DEF n, F
<1>9. /\ Filled \in Seq(Items) /\ Len(Filled) = Len(Set2) /\ DOMAIN Filled = 1..Len(Set2)
      /\ \A i \in 1..Len(Set2) : Filled[i] = F(i)
  BY <1>1, <1>6, <1>7
<1>10. Stars(Filled) = {}
  BY <1>7, <1>9 DEF Stars
<1>11. /\ FinitePieces(Filled) \in Seq(Seq(AnyByte)) /\ Len(FinitePieces(Filled)) = Len(Set2)
       /\ Second = FlattenSeq(FinitePieces(Filled)) /\ Second \in Seq(AnyByte)
       /\ \A i \in 1..Len(Set2) :
            FinitePieces(Filled)[i] = IF IsStar(Filled[i]) THEN <<>> ELSE Flatten(Filled[i])
  BY <1>9, <1>10, AllFinite, FiniteTyped DEF Second
<1>12. \A i \in 1..Len(Set2) :
          FinitePieces(Filled)[i] = IF IsStar(Set2[i]) THEN Filler(i) ELSE Flatten(Set2[i])
  BY <1>7, <1>8, <1>9, <1>11
<1> QED BY <1>2, <1>3, <1>4, <1>11, <1>12

\* The larger of zero and a number.
LEMMA MaxWithZero ==
    ASSUME NEW x \in Int
    PROVE  /\ Max({0, x}) = IF x > 0 THEN x ELSE 0
           /\ Max({0, x}) \in Int
           /\ Max({0, Max({0, x})}) = Max({0, x})
<1>1. \A y \in Int : Max({0, y}) = IF y > 0 THEN y ELSE 0
  BY DEF Max
<1> DEFINE m == Max({0, x})
<1>2. m = (IF x > 0 THEN x ELSE 0) /\ m \in Int
  BY <1>1
<1> HIDE DEF m
<1>3. Max({0, m}) = m
  BY <1>1, <1>2
<1> QED BY <1>2, <1>3 DEF m

\* The smaller of two numbers.
LEMMA MinOfTwo ==
    ASSUME NEW x \in Nat, NEW y \in Nat
    PROVE  Min({x, y}) = IF x <= y THEN x ELSE y
BY DEF Min

\* Nothing to fill: the set is what its finite items are.
LEMMA SecondNoStar ==
    ASSUME JobTyped, Stars(job.set1) = {}, RealStars = {}
    PROVE  Second = Given
<1> DEFINE F == FinitePieces(Set2)
           Q == FinitePieces(Filled)
           n == Len(Set2)
           T == Seq(AnyByte)
<1>1. Set2 \in Seq(Items)
  BY Set2Typed
<1>2. /\ F \in Seq(T) /\ Len(F) = n /\ Given = FlattenSeq(F)
      /\ \A i \in 1..n : F[i] = IF IsStar(Set2[i]) THEN <<>> ELSE Flatten(Set2[i])
  BY <1>1, FiniteTyped DEF Given
<1>3. /\ Q \in Seq(T) /\ Len(Q) = n /\ Second = FlattenSeq(Q)
      /\ \A i \in 1..n : Q[i] = IF IsStar(Set2[i]) THEN Filler(i) ELSE Flatten(Set2[i])
  BY FilledTyped
<1>4. \A i \in 1..n : IsStar(Set2[i]) => Filler(i) = <<>>
  <2> SUFFICES ASSUME NEW i \in 1..n, IsStar(Set2[i]) PROVE Filler(i) = <<>>
    OBVIOUS
  <2>1. Set2[i].c = 0
    BY <1>1 DEF RealStars
  <2>2. Max({0, 0}) = 0
    <3>1. \A x \in Int : Max({0, x}) = IF x > 0 THEN x ELSE 0
      BY MaxWithZero
    <3> QED BY <3>1
  <2> QED BY <2>1, <2>2 DEF Filler, Repeated
<1> HIDE DEF F, Q, T, n
<1>5. \A i \in 1..Len(F) : F[i] = Q[i]
  BY <1>2, <1>3, <1>4
<1>6. F = Q
  BY <1>2, <1>3, <1>5, SameSeq
<1> QED BY <1>2, <1>3, <1>6

\* A star that is kept is the only one.
LEMMA OneStar ==
    ASSUME JobTyped, ~(Cardinality(Stars(Set2)) > 1), NEW j \in RealStars
    PROVE  Stars(Set2) = {j} /\ RealStars = {j} /\ j \in 1..Len(Set2) /\ Min({j}) = j
<1>1. Set2 \in Seq(Items) /\ DOMAIN Set2 = 1..Len(Set2) /\ Len(Set2) \in Nat
  <2>1. Set2 \in Seq(Items)
    BY Set2Typed
  <2> QED BY <2>1
<1>2. IsFiniteSet(1..Len(Set2))
  BY <1>1, FS_Interval
<1>3. Stars(Set2) \subseteq 1..Len(Set2) /\ j \in Stars(Set2) /\ RealStars \subseteq Stars(Set2)
  BY <1>1 DEF Stars, RealStars
<1>4. IsFiniteSet(Stars(Set2)) /\ Cardinality(Stars(Set2)) \in Nat
  BY <1>2, <1>3, FS_Subset, FS_CardinalityType
<1>5. Cardinality({j}) = 1
  BY FS_Singleton
<1>6. Cardinality({j}) <= Cardinality(Stars(Set2))
  BY <1>3, <1>4, FS_Subset
<1>7. Cardinality(Stars(Set2)) = 1
  BY <1>4, <1>5, <1>6
<1>8. PICK i : Stars(Set2) = {i}
  BY <1>4, <1>7, FS_Singleton
<1>9. j \in Nat
  BY <1>1, <1>3
<1>10. Min({j}) = j
  BY <1>9 DEF Min
<1> QED BY <1>1, <1>3, <1>8, <1>10

\* With a star, set2 is what is before it, its byte as often as set1 needs, and
\* what is after it.
LEMMA SecondStar ==
    ASSUME JobTyped, Stars(job.set1) = {}, ~(Cardinality(Stars(Set2)) > 1), NEW j \in RealStars
    PROVE  LET before == FlattenFinite(SubSeq(Set2, 1, j))
               after == FlattenFinite(SubSeq(Set2, j + 1, Len(Set2)))
           IN  /\ Given = Joined(before, after)
               /\ Second = Joined(Joined(before, Filler(j)), after)
               /\ before \in Seq(AnyByte) /\ after \in Seq(AnyByte)
<1> DEFINE F == FinitePieces(Set2)
           Q == FinitePieces(Filled)
           n == Len(Set2)
           T == Seq(AnyByte)
<1>1. Set2 \in Seq(Items) /\ n \in Nat /\ n = Len(Set2)
  <2>1. Set2 \in Seq(Items)
    BY Set2Typed
  <2> QED BY <2>1
<1>2. /\ F \in Seq(T) /\ Len(F) = n /\ Given = FlattenSeq(F)
      /\ \A i \in 1..n : F[i] = IF IsStar(Set2[i]) THEN <<>> ELSE Flatten(Set2[i])
  BY <1>1, FiniteTyped DEF Given
<1>3. /\ Q \in Seq(T) /\ Len(Q) = n /\ Second = FlattenSeq(Q)
      /\ \A i \in 1..n : Q[i] = IF IsStar(Set2[i]) THEN Filler(i) ELSE Flatten(Set2[i])
  BY FilledTyped
<1>4. Stars(Set2) = {j} /\ j \in 1..n
  BY OneStar
<1>5. \A i \in 1..n : IsStar(Set2[i]) <=> i = j
  BY <1>1, <1>4 DEF Stars
<1>6. /\ FlattenFinite(SubSeq(Set2, 1, j)) = FlattenSeq(SubSeq(F, 1, j))
      /\ FlattenFinite(SubSeq(Set2, j + 1, n)) = FlattenSeq(SubSeq(F, j + 1, n))
  <2>1. 1 \in 1..Len(Set2) + 1 /\ j \in 0..Len(Set2)
        /\ j + 1 \in 1..Len(Set2) + 1 /\ n \in 0..Len(Set2)
    BY <1>1, <1>4
  <2>2. FlattenFinite(SubSeq(Set2, 1, j)) = FlattenSeq(SubSeq(F, 1, j))
    BY <1>1, <2>1, FiniteParts
  <2>3. FlattenFinite(SubSeq(Set2, j + 1, n)) = FlattenSeq(SubSeq(F, j + 1, n))
    BY <1>1, <2>1, FiniteParts
  <2> QED BY <2>2, <2>3
<1> HIDE DEF F, Q, n
<1> DEFINE A == FlattenSeq(SubSeq(F, 1, j - 1))
           D == FlattenSeq(SubSeq(F, j + 1, n))
<1>7. /\ FlattenSeq(SubSeq(F, 1, j)) = Joined(A, F[j])
      /\ FlattenSeq(F) = Joined(Joined(A, F[j]), D)
      /\ A \in Seq(AnyByte) /\ D \in Seq(AnyByte)
  <2>1. F \in Seq(Seq(AnyByte)) /\ j \in 1..Len(F) /\ Len(F) = n
    BY <1>2, <1>4
  <2> QED BY <2>1, FlattenSplit
<1>8. FlattenSeq(Q) = Joined(Joined(FlattenSeq(SubSeq(Q, 1, j - 1)), Q[j]),
                             FlattenSeq(SubSeq(Q, j + 1, n)))
  <2>1. Q \in Seq(Seq(AnyByte)) /\ j \in 1..Len(Q) /\ Len(Q) = n
    BY <1>3, <1>4
  <2> QED BY <2>1, FlattenSplit
<1> HIDE DEF T
<1>9. \A i \in 1..n : i # j => Q[i] = F[i]
  BY <1>2, <1>3, <1>5
<1>10. SubSeq(Q, 1, j - 1) = SubSeq(F, 1, j - 1)
  <2>1. \A i \in 1..j - 1 : Q[i] = F[i]
    BY <1>1, <1>4, <1>9
  <2> QED BY <1>1, <1>2, <1>3, <1>4, <2>1
<1>11. SubSeq(Q, j + 1, n) = SubSeq(F, j + 1, n)
  <2>1. \A i \in j + 1..n : Q[i] = F[i]
    BY <1>1, <1>4, <1>9
  <2> QED BY <1>1, <1>2, <1>3, <1>4, <2>1
<1>12. F[j] = <<>> /\ Q[j] = Filler(j)
  BY <1>2, <1>3, <1>4, <1>5
<1>13. Joined(A, <<>>) = A
  BY <1>7 DEF Joined
<1> HIDE DEF A, D
<1>14. FlattenSeq(SubSeq(F, 1, j)) = A
  BY <1>7, <1>12, <1>13
<1>15. Given = Joined(A, D) /\ Second = Joined(Joined(A, Filler(j)), D)
  BY <1>2, <1>3, <1>7, <1>8, <1>10, <1>11, <1>12, <1>13 DEF A, D
<1>16. FlattenFinite(SubSeq(Set2, 1, j)) = A /\ FlattenFinite(SubSeq(Set2, j + 1, n)) = D
  BY <1>6, <1>14 DEF D
<1> QED BY <1>1, <1>7, <1>15, <1>16

\* The places of set1 that are mapped.
Places == IF job.truncate /\ RealStars = {} THEN Min({Len(First), Len(Given)}) ELSE Len(First)

\* The elements of a concatenation, and the places in it.
LEMMA JoinedAt ==
    ASSUME NEW T, NEW x \in Seq(T), NEW y \in Seq(T)
    PROVE  /\ Joined(x, y) \in Seq(T) /\ Len(Joined(x, y)) = Len(x) + Len(y)
           /\ \A i \in 1..Len(x) : Joined(x, y)[i] = x[i]
           /\ \A i \in 1..Len(y) : Joined(x, y)[Len(x) + i] = y[i]
BY JoinAt DEF Joined

\* A place in a concatenation is in one of its sequences.
LEMMA JoinedPlaces ==
    ASSUME NEW T, NEW x \in Seq(T), NEW y \in Seq(T)
    PROVE  \A z : z = Joined(x, y) => /\ \A i \in 1..Len(x) : z[i] = x[i]
                                     /\ \A i \in 1..Len(y) : z[Len(x) + i] = y[i]
BY JoinAt DEF Joined

\* Without a star the last byte of set2 stands at the places after it.
LEMMA ExtendedNoStar ==
    ASSUME Set2 \in Seq(Items), RealStars = {}, NEW n
    PROVE  Extended(Set2, n) = Joined(Given, Repeated(Last(Given), n - Len(Given)))
<1> DEFINE R == Repeated(Last(Given), n - Len(Given))
           N == Len(Set2)
<1>1. SubSeq(Set2, 1, N) = Set2 /\ SubSeq(Set2, N + 1, N) = <<>>
  OBVIOUS
<1>2. FlattenFinite(<<>>) = <<>>
  BY FlattenEmpty DEF FlattenFinite
<1>3. Extended(Set2, n) = (FlattenFinite(SubSeq(Set2, 1, N)) \o R)
                             \o FlattenFinite(SubSeq(Set2, N + 1, N))
  BY DEF Extended, RealStars, IsStar, Given
<1>4. Given \in Seq(AnyByte)
  BY FiniteTyped DEF Given
<1>5. R = [i \in 1..Max({0, n - Len(Given)}) |-> Last(Given)]
  BY DEF Repeated
<1> HIDE DEF R, N
<1>6. Extended(Set2, n) = (Given \o R) \o <<>>
  BY <1>1, <1>2, <1>3 DEF Given
<1> QED BY <1>6 DEF Joined, R

\* With one, it is set2 with the star filled.
LEMMA ExtendedStar ==
    ASSUME JobTyped, Stars(job.set1) = {}, ~(Cardinality(Stars(Set2)) > 1), RealStars # {}
    PROVE  Extended(Set2, Len(First)) = Second
<1>1. PICK j : j \in RealStars
  OBVIOUS
<1>2. RealStars = {j} /\ Min({j}) = j
  BY <1>1, OneStar
<1> DEFINE before == FlattenFinite(SubSeq(Set2, 1, j))
           after == FlattenFinite(SubSeq(Set2, j + 1, Len(Set2)))
           R == Repeated(Set2[j].c, Len(First) - Len(Given))
<1>3. Extended(Set2, Len(First)) = Joined(Joined(before, R), after)
  <2> DEFINE k == Min(RealStars)
  <2>1. Extended(Set2, Len(First))
        = (FlattenFinite(SubSeq(Set2, 1, k)) \o Repeated(Set2[k].c, Len(First) - Len(Given)))
            \o FlattenFinite(SubSeq(Set2, k + 1, Len(Set2)))
    <3> HIDE DEF k
    <3> QED BY DEF Extended, RealStars, IsStar, Given, k
  <2>2. k = j
    BY <1>2
  <2> HIDE DEF k
  <2> QED BY <2>1, <2>2 DEF Joined
<1>4. Second = Joined(Joined(before, Filler(j)), after)
  BY <1>1, SecondStar
<1>5. R = Filler(j)
  <2> DEFINE x == Len(First) - Len(Given)
  <2>1. x \in Int
    BY FilledTyped
  <2>2. Set2[j].c # 0
    BY <1>1 DEF RealStars
  <2> HIDE DEF x
  <2>3. Max({0, Max({0, x})}) = Max({0, x})
    BY <2>1, MaxWithZero
  <2> QED BY <2>2, <2>3 DEF Filler, Repeated, x
<1> HIDE DEF before, after, R
<1> QED BY <1>3, <1>4, <1>5

\* Where set 2 has a star it is no shorter than the first.
LEMMA StarFills ==
    ASSUME JobTyped, Stars(job.set1) = {}, ~(Cardinality(Stars(Set2)) > 1), RealStars # {}
    PROVE  Len(First) <= Len(Second)
<1>1. PICK j : j \in RealStars
  OBVIOUS
<1>2. j \in 1..Len(Set2)
  BY <1>1, OneStar
<1> DEFINE before == FlattenFinite(SubSeq(Set2, 1, j))
           after == FlattenFinite(SubSeq(Set2, j + 1, Len(Set2)))
           x == Len(First) - Len(Given)
           m == Max({0, x})
<1>3. /\ Given = Joined(before, after) /\ Second = Joined(Joined(before, Filler(j)), after)
      /\ before \in Seq(AnyByte) /\ after \in Seq(AnyByte)
  BY <1>1, SecondStar
<1>4. x \in Int /\ Len(First) \in Nat /\ Len(Given) \in Nat
  BY FilledTyped
<1>5. Set2[j].c \in AnyByte /\ Set2[j].c # 0
  BY <1>1, <1>2, FilledTyped DEF RealStars
<1> HIDE DEF before, after, x
<1>6. m = (IF x > 0 THEN x ELSE 0) /\ m \in Int
  BY <1>4, MaxWithZero
<1>7. Filler(j) = Repeated(Set2[j].c, m)
  BY <1>5 DEF Filler, x
<1> HIDE DEF m
<1>8. Filler(j) \in Seq(AnyByte) /\ Len(Filler(j)) = m
  <2>1. Filler(j) \in Seq(AnyByte) /\ Len(Filler(j)) = IF m > 0 THEN m ELSE 0
    BY <1>5, <1>6, <1>7, RepeatedTyped
  <2> QED BY <1>4, <1>6, <2>1
<1>9. Len(Given) = Len(before) + Len(after)
  BY <1>3, JoinedAt
<1>10. Len(Second) = Len(before) + m + Len(after)
  <2>1. Joined(before, Filler(j)) \in Seq(AnyByte)
        /\ Len(Joined(before, Filler(j))) = Len(before) + m
    BY <1>3, <1>8, JoinedAt
  <2> DEFINE y == Joined(before, Filler(j))
  <2> HIDE DEF y
  <2>2. Len(Joined(y, after)) = Len(y) + Len(after)
    BY <1>3, <2>1, JoinedAt DEF y
  <2> QED BY <1>3, <2>1, <2>2 DEF y
<1>11. Len(before) \in Nat /\ Len(after) \in Nat
  BY <1>3
<1> QED BY <1>4, <1>6, <1>9, <1>10, <1>11 DEF x

\* What is left of the first set, and what its places stand for.
LEMMA PlacesAre ==
    ASSUME JobTyped, Sets # {}, Translating
    PROVE  /\ Places \in 0..Len(First) /\ Cut = SubSeq(First, 1, Places)
           /\ Cut \in Seq(AnyByte) /\ Len(Cut) = Places
           /\ \A i \in 1..Places : Cut[i] = First[i]
           /\ \A i \in 1..Places :
                 /\ Second # <<>>
                 /\ Extended(Set2, Places)[i] = Second[Min({i, Len(Second)})]
<1>1. /\ Stars(job.set1) = {} /\ ~(Cardinality(Stars(Set2)) > 1)
      /\ Second # <<>> \/ Cut = <<>>
  BY SetsAre
<1>2. /\ First \in Seq(AnyByte) /\ Second \in Seq(AnyByte) /\ Given \in Seq(AnyByte)
      /\ Len(First) \in Nat /\ Len(Given) \in Nat /\ Len(Second) \in Nat
  <2>1. First \in Seq(AnyByte) /\ Second \in Seq(AnyByte) /\ Given \in Seq(AnyByte)
    BY <1>1, FirstTyped, FilledTyped
  <2> QED BY <2>1
<1>3. Cut = IF job.truncate THEN SubSeq(First, 1, Min({Len(First), Len(Second)})) ELSE First
  BY DEF Cut, CutTo
<1>4. SubSeq(First, 1, Len(First)) = First
  BY <1>2
<1>5. Places \in 0..Len(First) /\ Cut = SubSeq(First, 1, Places)
  <2>1. CASE RealStars = {}
    <3>1. Second = Given
      BY <1>1, <2>1, SecondNoStar
    <3>2. Min({Len(First), Len(Given)}) \in 0..Len(First)
      BY <1>2, MinOfTwo
    <3>3. CASE job.truncate
      <4>1. Places = Min({Len(First), Len(Given)})
        BY <2>1, <3>3 DEF Places
      <4>2. Cut = SubSeq(First, 1, Min({Len(First), Len(Given)}))
        BY <1>3, <3>1, <3>3
      <4> QED BY <3>2, <4>1, <4>2
    <3>4. CASE ~job.truncate
      <4>1. Places = Len(First) /\ Cut = First
        BY <1>3, <3>4 DEF Places
      <4> QED BY <1>2, <1>4, <4>1
    <3> QED BY <3>3, <3>4
  <2>2. CASE RealStars # {}
    <3>1. Places = Len(First)
      BY <2>2 DEF Places
    <3>2. Min({Len(First), Len(Second)}) = Len(First)
      BY <1>1, <1>2, <2>2, StarFills, MinOfTwo
    <3>3. Cut = First
      BY <1>3, <1>4, <3>2
    <3> QED BY <1>2, <1>4, <3>1, <3>3
  <2> QED BY <2>1, <2>2
<1>6. /\ Cut \in Seq(AnyByte) /\ Len(Cut) = Places
      /\ \A i \in 1..Places : Cut[i] = First[i]
  BY <1>2, <1>5
<1>7. ASSUME NEW i \in 1..Places
      PROVE  /\ Second # <<>>
             /\ Extended(Set2, Places)[i] = Second[Min({i, Len(Second)})]
  <2>0. Places \in Nat /\ i \in Nat /\ i <= Places /\ i >= 1 /\ Places <= Len(First)
    BY <1>2, <1>5
  <2>1. Second # <<>>
    <3>1. Len(Cut) # 0
      BY <1>6, <2>0
    <3>2. Cut # <<>>
      BY <3>1
    <3> QED BY <1>1, <3>2
  <2>2. Len(Second) >= 1
    BY <1>2, <2>1
  <2>3. Min({i, Len(Second)}) = IF i <= Len(Second) THEN i ELSE Len(Second)
    BY <1>2, <2>0, MinOfTwo
  <2>4. CASE RealStars = {}
    <3>1. Second = Given
      BY <1>1, <2>4, SecondNoStar
    <3> DEFINE R == Repeated(Last(Given), Places - Len(Given))
    <3>2. Extended(Set2, Places) = Joined(Given, R)
      <4>1. Set2 \in Seq(Items)
        BY Set2Typed
      <4> QED BY <2>4, <4>1, ExtendedNoStar
    <3>3. Last(Given) = Given[Len(Given)] /\ Last(Given) \in AnyByte
      <4>1. Len(Given) \in 1..Len(Given)
        BY <1>2, <2>2, <3>1
      <4> QED BY <1>2, <4>1 DEF Last
    <3>4. Places - Len(Given) \in Int
      BY <1>2, <2>0
    <3>5. /\ R \in Seq(AnyByte)
          /\ Len(R) = IF Places - Len(Given) > 0 THEN Places - Len(Given) ELSE 0
          /\ \A k \in 1..Len(R) : R[k] = Last(Given)
      BY <3>3, <3>4, RepeatedTyped
    <3> HIDE DEF R
    <3>6. /\ \A k \in 1..Len(Given) : Joined(Given, R)[k] = Given[k]
          /\ \A k \in 1..Len(R) : Joined(Given, R)[Len(Given) + k] = R[k]
      <4>1. Given \in Seq(AnyByte) /\ R \in Seq(AnyByte)
        BY <1>2, <3>5
      <4>2. \A z : z = Joined(Given, R) =>
               /\ \A k \in 1..Len(Given) : z[k] = Given[k]
               /\ \A k \in 1..Len(R) : z[Len(Given) + k] = R[k]
        BY <4>1, JoinedPlaces
      <4> QED BY <4>2
    <3>7. CASE i <= Len(Given)
      <4>1. i \in 1..Len(Given)
        BY <1>2, <2>0, <3>7
      <4> QED BY <2>1, <2>3, <3>1, <3>2, <3>6, <3>7, <4>1
    <3>8. CASE i > Len(Given)
      <4>1. i - Len(Given) \in 1..Len(R) /\ Len(Given) + (i - Len(Given)) = i
        BY <1>2, <2>0, <3>5, <3>8
      <4>2. Joined(Given, R)[i] = Last(Given)
        BY <3>5, <3>6, <4>1
      <4>3. Min({i, Len(Second)}) = Len(Given)
        BY <1>2, <2>0, <2>3, <3>1, <3>8
      <4> QED BY <2>1, <3>1, <3>2, <3>3, <4>2, <4>3
    <3> QED BY <1>2, <2>0, <3>7, <3>8
  <2>5. CASE RealStars # {}
    <3>1. Places = Len(First)
      BY <2>5 DEF Places
    <3>2. Extended(Set2, Places) = Second /\ Len(First) <= Len(Second)
      BY <1>1, <2>5, <3>1, ExtendedStar, StarFills
    <3>3. Min({i, Len(Second)}) = i
      BY <1>2, <2>0, <2>3, <3>1, <3>2
    <3> QED BY <2>1, <3>2, <3>3
  <2> QED BY <2>4, <2>5
<1> QED BY <1>5, <1>6, <1>7

-----------------------------------------------------------------------------
\* The table maps each byte by its last place in the first set.
PlacesOf(set1, i, b) == {k \in 1..i : set1[k] = b}
MappedBy(set1, set2, i, b) ==
    IF PlacesOf(set1, i, b) = {} THEN b
    ELSE set2[Min({Max(PlacesOf(set1, i, b)), Len(set2)})]
TableAt(table, set1, set2, i) ==
    IF i = 0 THEN [b \in 0..MaxByte |-> b]
    ELSE [table[i - 1] EXCEPT ![set1[i]] = set2[Min({i, Len(set2)})]]
IsTable(table, set1, set2) == table = [i \in 0..Len(set1) |-> TableAt(table, set1, set2, i)]
TableSolution(set1, set2, i) == [b \in AnyByte |-> MappedBy(set1, set2, i, b)]

\* One place more.
LEMMA PlacesMore ==
    ASSUME NEW set1 \in Seq(AnyByte), NEW i \in 1..Len(set1), NEW b \in AnyByte
    PROVE  /\ set1[i] # b => PlacesOf(set1, i, b) = PlacesOf(set1, i - 1, b)
           /\ set1[i] = b => PlacesOf(set1, i, b) # {} /\ Max(PlacesOf(set1, i, b)) = i
<1>1. set1[i] # b => PlacesOf(set1, i, b) = PlacesOf(set1, i - 1, b)
  <2> SUFFICES ASSUME set1[i] # b PROVE PlacesOf(set1, i, b) = PlacesOf(set1, i - 1, b)
    OBVIOUS
  <2>1. \A k : k \in 1..i /\ set1[k] = b <=> k \in 1..i - 1 /\ set1[k] = b
    OBVIOUS
  <2> QED BY <2>1 DEF PlacesOf
<1>2. set1[i] = b => PlacesOf(set1, i, b) # {} /\ Max(PlacesOf(set1, i, b)) = i
  <2> SUFFICES ASSUME set1[i] = b
               PROVE  PlacesOf(set1, i, b) # {} /\ Max(PlacesOf(set1, i, b)) = i
    OBVIOUS
  <2> DEFINE K == PlacesOf(set1, i, b)
  <2>1. i \in K /\ \A k \in K : k \in Int /\ k <= i
    BY DEF PlacesOf
  <2> HIDE DEF K
  <2>2. Max(K) = i
    <3>1. \A m \in K : (\A k \in K : m >= k) => m = i
      BY <2>1
    <3>2. \A k \in K : i >= k
      BY <2>1
    <3> QED BY <2>1, <3>1, <3>2 DEF Max
  <2> QED BY <2>1, <2>2 DEF K
<1> QED BY <1>1, <1>2

\* One turn of the loop of TranslateOperation::new.
LEMMA TableTurn ==
    ASSUME NEW set1 \in Seq(AnyByte), NEW set2 \in Seq(AnyByte), NEW table,
           NEW i \in 0..Len(set1), i # 0 => table[i - 1] = TableSolution(set1, set2, i - 1)
    PROVE  TableAt(table, set1, set2, i) = TableSolution(set1, set2, i)
<1>1. CASE i = 0
  <2>1. \A b : PlacesOf(set1, i, b) = {}
    BY <1>1 DEF PlacesOf
  <2>2. \A b : MappedBy(set1, set2, i, b) = b
    BY <2>1 DEF MappedBy
  <2> QED BY <1>1, <2>2 DEF TableAt, TableSolution, AnyByte
<1>2. CASE i # 0
  <2> DEFINE e == set2[Min({i, Len(set2)})]
             before == TableSolution(set1, set2, i - 1)
  <2>1. i \in 1..Len(set1) /\ set1[i] \in AnyByte
    <3>1. i \in 1..Len(set1)
      BY <1>2
    <3> QED BY <3>1
  <2>2. TableAt(table, set1, set2, i) = [before EXCEPT ![set1[i]] = e]
    BY <1>2 DEF TableAt
  <2>3. \A b \in AnyByte : MappedBy(set1, set2, i, b)
                           = IF b = set1[i] THEN e ELSE MappedBy(set1, set2, i - 1, b)
    <3> SUFFICES ASSUME NEW b \in AnyByte
                 PROVE  MappedBy(set1, set2, i, b)
                        = IF b = set1[i] THEN e ELSE MappedBy(set1, set2, i - 1, b)
      OBVIOUS
    <3>1. /\ set1[i] # b => PlacesOf(set1, i, b) = PlacesOf(set1, i - 1, b)
          /\ set1[i] = b => PlacesOf(set1, i, b) # {} /\ Max(PlacesOf(set1, i, b)) = i
      BY <2>1, PlacesMore
    <3> QED BY <3>1 DEF MappedBy
  <2>4. before = [b \in AnyByte |-> MappedBy(set1, set2, i - 1, b)]
    BY DEF TableSolution
  <2> HIDE DEF e, before
  <2>5. [before EXCEPT ![set1[i]] = e]
        = [b \in AnyByte |-> IF b = set1[i] THEN e ELSE MappedBy(set1, set2, i - 1, b)]
    BY <2>1, <2>4
  <2>6. [b \in AnyByte |-> IF b = set1[i] THEN e ELSE MappedBy(set1, set2, i - 1, b)]
        = TableSolution(set1, set2, i)
    BY <2>3 DEF TableSolution
  <2> QED BY <2>2, <2>5, <2>6
<1> QED BY <1>1, <1>2

\* The table is the solution of its loop (operation.rs:641-667).
LEMMA TableIs ==
    ASSUME NEW set1 \in Seq(AnyByte), NEW set2 \in Seq(AnyByte)
    PROVE  TranslationTable(set1, set2) = TableSolution(set1, set2, Len(set1))
<1> DEFINE n == Len(set1)
           Sol(i) == TableSolution(set1, set2, i)
           g == [i \in 0..n |-> Sol(i)]
           f == CHOOSE h : IsTable(h, set1, set2)
<1>1. TranslationTable(set1, set2) = f[n]
  BY DEF TranslationTable, IsTable, TableAt
<1>2. n \in Nat /\ n = Len(set1)
  OBVIOUS
<1> HIDE DEF n, Sol
<1>3. IsTable(g, set1, set2)
  <2>1. \A i \in 0..n : g[i] = TableAt(g, set1, set2, i)
    <3> SUFFICES ASSUME NEW i \in 0..n PROVE g[i] = TableAt(g, set1, set2, i)
      OBVIOUS
    <3>1. g[i] = Sol(i) /\ (i # 0 => i - 1 \in 0..n)
      BY <1>2
    <3>2. i # 0 => g[i - 1] = Sol(i - 1)
      BY <3>1
    <3> HIDE DEF g
    <3> QED BY <1>2, <3>1, <3>2, TableTurn DEF Sol
  <2> QED BY <1>2, <2>1 DEF IsTable
<1>4. IsTable(f, set1, set2)
  BY <1>3
<1> HIDE DEF f, g
<1>5. \A i \in 0..n : f[i] = TableAt(f, set1, set2, i)
  BY <1>2, <1>4 DEF IsTable
<1> DEFINE Wrong == {i \in 0..n : f[i] # Sol(i)}
<1>6. ASSUME Wrong # {} PROVE FALSE
  <2>1. PICK i \in Wrong : \A j \in Wrong : i <= j
    <3>1. Wrong \subseteq Nat
      OBVIOUS
    <3> HIDE DEF Wrong
    <3> QED BY <1>6, <3>1, Least
  <2>2. i \in 0..n /\ f[i] # Sol(i)
    OBVIOUS
  <2>3. i # 0 => i - 1 \in 0..n /\ f[i - 1] = Sol(i - 1)
    BY <1>2, <2>1, <2>2
  <2> HIDE DEF Wrong
  <2>4. TableAt(f, set1, set2, i) = Sol(i)
    BY <1>2, <2>2, <2>3, TableTurn DEF Sol
  <2> QED BY <1>5, <2>2, <2>4
<1>7. n \in 0..n
  BY <1>2
<1>8. f[n] = Sol(n)
  BY <1>6, <1>7
<1> QED BY <1>1, <1>8 DEF Sol, n

\* A set of places that is not empty has a largest.
LEMMA FiniteMax ==
    ASSUME NEW n \in Nat, NEW K \in SUBSET (1..n), K # {}
    PROVE  \E m \in K : \A k \in K : m >= k
<1> DEFINE D == {d \in Nat : n - d \in K}
<1>1. D \subseteq Nat /\ D # {}
  <2>1. PICK k \in K : TRUE
    OBVIOUS
  <2>2. n - k \in Nat /\ n - (n - k) = k
    BY <2>1
  <2>3. n - k \in D
    BY <2>1, <2>2
  <2> QED BY <2>3
<1>2. PICK d \in D : \A e \in D : d <= e
  <2> HIDE DEF D
  <2> QED BY <1>1, Least
<1>3. d \in Nat /\ n - d \in K
  OBVIOUS
<1>4. \A k \in K : n - d >= k
  <2> SUFFICES ASSUME NEW k \in K PROVE n - d >= k
    OBVIOUS
  <2>1. k \in Nat /\ n - k \in Nat /\ n - (n - k) = k
    OBVIOUS
  <2>2. n - k \in D
    BY <2>1
  <2> HIDE DEF D
  <2>3. d <= n - k
    BY <1>2, <2>2
  <2> QED BY <1>3, <2>1, <2>3
<1> QED BY <1>3, <1>4

\* The table maps bytes to bytes.
LEMMA TableTyped ==
    ASSUME NEW set1 \in Seq(AnyByte), NEW set2 \in Seq(AnyByte), set1 = <<>> \/ set2 # <<>>
    PROVE  TranslationTable(set1, set2) \in [AnyByte -> AnyByte]
<1>1. \A b \in AnyByte : MappedBy(set1, set2, Len(set1), b) \in AnyByte
  <2> SUFFICES ASSUME NEW b \in AnyByte, PlacesOf(set1, Len(set1), b) # {}
               PROVE  set2[Min({Max(PlacesOf(set1, Len(set1), b)), Len(set2)})] \in AnyByte
    BY DEF MappedBy
  <2> DEFINE K == PlacesOf(set1, Len(set1), b)
             n == Len(set1)
  <2>1. K \subseteq 1..n /\ n \in Nat /\ K # {}
    BY DEF PlacesOf
  <2> HIDE DEF K, n
  <2>2. Max(K) \in K
    <3>1. \E m \in K : \A k \in K : m >= k
      BY <2>1, FiniteMax
    <3> QED BY <3>1 DEF Max
  <2>k. \A k \in K : k \in Nat /\ k >= 1 /\ n # 0
    BY <2>1
  <2>3. Max(K) \in Nat /\ Max(K) >= 1 /\ n # 0
    BY <2>2, <2>k
  <2>4. set1 # <<>>
    <3> QED BY <2>3 DEF n
  <2>5. Len(set2) \in Nat /\ Len(set2) >= 1
    BY <2>4
  <2> DEFINE m == Max(K)
             i == Min({m, Len(set2)})
  <2>6. i \in 1..Len(set2)
    <3> HIDE DEF m
    <3> QED BY <2>3, <2>5, MinOfTwo DEF m
  <2> HIDE DEF m, i
  <2>7. set2[i] \in AnyByte
    BY <2>6
  <2> QED BY <2>7 DEF i, m, K
<1> QED BY <1>1, TableIs DEF TableSolution

-----------------------------------------------------------------------------
\* What Expected speaks of, and that the operations are built for it.
StarItems == {item \in ToSet(Set2) : item.kind = "star" /\ item.c # 0}
ExpectedPlaces == IF job.truncate /\ StarItems = {} THEN Min({Len(First), Len(Given)})
                                                    ELSE Len(First)
Image(b) == IF ~Translating \/ b \notin ToSet(SubSeq(First, 1, ExpectedPlaces)) THEN b
            ELSE Extended(Set2, ExpectedPlaces)[Max({i \in 1..ExpectedPlaces : First[i] = b})]
ExpectedDeleted == IF job.delete THEN ToSet(First) ELSE {}
ExpectedSqueezed == IF ~job.squeeze THEN {}
                    ELSE IF job.set2 = {} THEN ToSet(First)
                    ELSE ToSet(Given) \cup
                         {s.c : s \in {t \in StarItems : Len(First) > Len(Given)}}
ExpectedMapped(kept) == [i \in DOMAIN kept |-> Image(kept[i])]
ExpectedOf(mapped) ==
    FlattenSeq([i \in DOMAIN mapped |->
        IF i > 1 /\ mapped[i] \in ExpectedSqueezed /\ mapped[i] = mapped[i - 1]
        THEN <<>> ELSE <<mapped[i]>>])

\* Expected, told in these names.
LEMMA ExpectedIs ==
    ASSUME NEW bytes
    PROVE  Expected(bytes) = ExpectedOf(ExpectedMapped(Removed(bytes, ExpectedDeleted)))
BY DEF Expected, ExpectedOf, ExpectedMapped, ExpectedDeleted, ExpectedSqueezed, Image,
       ExpectedPlaces, StarItems, First, FirstOf, Given

\* The stars of set2 as items and as places.
LEMMA StarItemsAre ==
    ASSUME JobTyped
    PROVE  ExpectedPlaces = Places /\ StarItems = {Set2[j] : j \in RealStars}
<1>1. Set2 \in Seq(Items)
  BY Set2Typed
<1>2. ToSet(Set2) = {Set2[j] : j \in DOMAIN Set2}
  BY <1>1 DEF ToSet
<1>3. StarItems = {Set2[j] : j \in RealStars}
  BY <1>2 DEF StarItems, RealStars, IsStar
<1>4. StarItems = {} <=> RealStars = {}
  BY <1>3
<1> QED BY <1>3, <1>4 DEF ExpectedPlaces, Places

\* What the operations of a job that is accepted are.
LEMMA OperationsAre ==
    ASSUME JobTyped, Sets # {}
    PROVE  /\ Operations = [table |-> IF Translating THEN TranslationTable(Cut, Second)
                                      ELSE [b \in 0..MaxByte |-> b],
                            deleted |-> IF job.delete THEN ToSet(Cut) ELSE {},
                            squeezed |-> IF ~job.squeeze THEN {}
                                         ELSE IF job.set2 = {} THEN ToSet(Cut) ELSE ToSet(Second)]
           /\ ~Translating => Cut = First
           /\ Cut \in Seq(AnyByte) /\ Second \in Seq(AnyByte) /\ First \in Seq(AnyByte)
           /\ Translating => Cut = <<>> \/ Second # <<>>
<1> DEFINE pair == <<Cut, Second>>
<1>1. Stars(job.set1) = {} /\ Sets = {pair} /\ (Translating => Cut = <<>> \/ Second # <<>>)
  BY SetsAre
<1>2. pair[1] = Cut /\ pair[2] = Second
  OBVIOUS
<1> HIDE DEF pair
<1>3. (CHOOSE s \in Sets : TRUE) = pair
  BY <1>1
<1>4. Operations = [table |-> IF Translating THEN TranslationTable(Cut, Second)
                              ELSE [b \in 0..MaxByte |-> b],
                    deleted |-> IF job.delete THEN ToSet(Cut) ELSE {},
                    squeezed |-> IF ~job.squeeze THEN {}
                                 ELSE IF job.set2 = {} THEN ToSet(Cut) ELSE ToSet(Second)]
  <2> DEFINE solved == CHOOSE s \in Sets : TRUE
  <2>1. Operations = [table |-> IF Translating THEN TranslationTable(solved[1], solved[2])
                                ELSE [b \in 0..MaxByte |-> b],
                      deleted |-> IF job.delete THEN ToSet(solved[1]) ELSE {},
                      squeezed |-> IF ~job.squeeze THEN {}
                                   ELSE IF job.set2 = {} THEN ToSet(solved[1])
                                   ELSE ToSet(solved[2])]
    BY DEF Operations
  <2>2. solved = pair
    BY <1>3
  <2> HIDE DEF solved
  <2> QED BY <1>2, <2>1, <2>2
<1>5. ~Translating => Cut = First
  BY DEF Cut, CutTo
<1>6. First \in Seq(AnyByte) /\ Second \in Seq(AnyByte)
  BY <1>1, FirstTyped, FilledTyped
<1>7. Cut \in Seq(AnyByte)
  BY <1>5, <1>6, PlacesAre
<1> QED BY <1>1, <1>4, <1>5, <1>6, <1>7

\* The elements of a sequence.
LEMMA ToSetTyped ==
    ASSUME NEW T, NEW x \in Seq(T)
    PROVE  ToSet(x) \in SUBSET T /\ ToSet(x) = {x[i] : i \in 1..Len(x)}
BY DEF ToSet

\* The filters work with bytes.
LEMMA OperationsReady ==
    ASSUME JobTyped, Sets # {}, st.operations = Operations
    PROVE  Ready
<1>1. /\ Table = IF Translating THEN TranslationTable(Cut, Second) ELSE [b \in 0..MaxByte |-> b]
      /\ Deleted = IF job.delete THEN ToSet(Cut) ELSE {}
      /\ SqueezeSet = IF ~job.squeeze THEN {}
                      ELSE IF job.set2 = {} THEN ToSet(Cut) ELSE ToSet(Second)
  <2> DEFINE t == IF Translating THEN TranslationTable(Cut, Second)
                  ELSE [b \in 0..MaxByte |-> b]
             d == IF job.delete THEN ToSet(Cut) ELSE {}
             q == IF ~job.squeeze THEN {}
                  ELSE IF job.set2 = {} THEN ToSet(Cut) ELSE ToSet(Second)
  <2>1. Operations = [table |-> t, deleted |-> d, squeezed |-> q]
    BY OperationsAre
  <2> HIDE DEF t, d, q
  <2>2. Table = t /\ Deleted = d /\ SqueezeSet = q
    BY <2>1 DEF Table, Deleted, SqueezeSet
  <2> QED BY <2>2 DEF t, d, q
<1>2. /\ Cut \in Seq(AnyByte) /\ Second \in Seq(AnyByte)
      /\ Translating => Cut = <<>> \/ Second # <<>>
  BY OperationsAre
<1>3. ToSet(Cut) \in SUBSET AnyByte /\ ToSet(Second) \in SUBSET AnyByte
  BY <1>2, ToSetTyped
<1>4. Translating => TranslationTable(Cut, Second) \in [AnyByte -> AnyByte]
  BY <1>2, TableTyped
<1>5. [b \in 0..MaxByte |-> b] \in [AnyByte -> AnyByte]
      /\ [b \in 0..MaxByte |-> b] = [b \in AnyByte |-> b]
  BY DEF AnyByte
<1>6. Table \in [AnyByte -> AnyByte] /\ (~Translating => Table = [b \in AnyByte |-> b])
  BY <1>1, <1>4, <1>5
<1>7. SqueezeSet \in SUBSET AnyByte /\ Deleted \in SUBSET AnyByte
      /\ (~job.delete => Deleted = {})
  BY <1>1, <1>3
<1> QED BY <1>6, <1>7 DEF Ready

\* A byte is mapped by the table to what it is expected to be.
LEMMA ImageIs ==
    ASSUME JobTyped, Sets # {}, st.operations = Operations, NEW b \in AnyByte
    PROVE  Image(b) = Moved(b)
<1>1. CASE ~Translating
  BY <1>1 DEF Image, Moved
<1>2. CASE Translating
  <2> DEFINE n == Places
             K == {i \in 1..n : First[i] = b}
  <2>1. /\ n \in 0..Len(First) /\ Cut = SubSeq(First, 1, n)
        /\ Cut \in Seq(AnyByte) /\ Len(Cut) = n
        /\ \A i \in 1..n : Cut[i] = First[i]
        /\ \A i \in 1..n : /\ Second # <<>>
                           /\ Extended(Set2, n)[i] = Second[Min({i, Len(Second)})]
    BY <1>2, PlacesAre
  <2>2. ExpectedPlaces = n
    BY StarItemsAre
  <2>3. Image(b) = IF b \notin ToSet(SubSeq(First, 1, n)) THEN b
                   ELSE Extended(Set2, n)[Max(K)]
    <3> HIDE DEF n, K
    <3> QED BY <1>2, <2>2 DEF Image, K
  <2>4. Table = TranslationTable(Cut, Second)
    <3>1. st.operations.table = TranslationTable(Cut, Second)
      BY <1>2, OperationsAre
    <3> QED BY <3>1 DEF Table
  <2>5. TranslationTable(Cut, Second) = TableSolution(Cut, Second, n)
    <3>1. Second \in Seq(AnyByte)
      BY OperationsAre
    <3> QED BY <2>1, <3>1, TableIs
  <2>6. Moved(b) = MappedBy(Cut, Second, n, b)
    BY <1>2, <2>4, <2>5 DEF Moved, TableSolution
  <2> HIDE DEF n
  <2>7. PlacesOf(Cut, n, b) = K
    BY <2>1 DEF PlacesOf
  <2>8. K = {} <=> b \notin ToSet(Cut)
    <3>1. ToSet(Cut) = {Cut[i] : i \in 1..n}
      <4>1. Cut \in Seq(AnyByte) /\ Len(Cut) = n
        BY <2>1
      <4>2. ToSet(Cut) = {Cut[i] : i \in 1..Len(Cut)}
        BY <4>1, ToSetTyped
      <4> QED BY <4>1, <4>2
    <3> QED BY <2>1, <3>1
  <2>9. CASE K = {}
    BY <2>1, <2>3, <2>6, <2>7, <2>8, <2>9 DEF MappedBy
  <2>10. CASE K # {}
    <3>1. K \in SUBSET (1..n) /\ n \in Nat
      <4>1. Len(First) \in Nat
        BY OperationsAre
      <4> QED BY <2>1, <4>1
    <3> HIDE DEF K
    <3>2. \E m \in K : \A k \in K : m >= k
      BY <2>10, <3>1, FiniteMax
    <3>3. Max(K) \in K
      BY <3>2 DEF Max
    <3>4. Max(K) \in 1..n
      BY <3>1, <3>3
    <3> DEFINE m == Max(K)
    <3>5. Extended(Set2, n)[m] = Second[Min({m, Len(Second)})]
      <4> HIDE DEF m
      <4> QED BY <2>1, <3>4 DEF m
    <3>6. Image(b) = Extended(Set2, n)[m]
      BY <2>1, <2>3, <2>8, <2>10
    <3>7. Moved(b) = Second[Min({m, Len(Second)})]
      BY <2>6, <2>7, <2>10 DEF MappedBy
    <3> HIDE DEF m
    <3> QED BY <3>5, <3>6, <3>7
  <2> QED BY <2>9, <2>10
<1> QED BY <1>1, <1>2

\* The elements of a concatenation are those of its sequences.
LEMMA JoinedSet ==
    ASSUME NEW T, NEW x \in Seq(T), NEW y \in Seq(T)
    PROVE  ToSet(Joined(x, y)) = ToSet(x) \cup ToSet(y)
<1> DEFINE z == Joined(x, y)
<1>1. /\ z \in Seq(T) /\ Len(z) = Len(x) + Len(y)
      /\ \A i \in 1..Len(x) : z[i] = x[i]
      /\ \A i \in 1..Len(y) : z[Len(x) + i] = y[i]
  BY JoinAt DEF Joined
<1>2. Len(x) \in Nat /\ Len(y) \in Nat
  OBVIOUS
<1> HIDE DEF z
<1>3. /\ ToSet(z) = {z[i] : i \in 1..Len(z)} /\ ToSet(x) = {x[i] : i \in 1..Len(x)}
      /\ ToSet(y) = {y[i] : i \in 1..Len(y)}
  BY <1>1, ToSetTyped
<1>4. \A e : e \in ToSet(x) => e \in ToSet(z)
  <2>1. \A i \in 1..Len(x) : i \in 1..Len(z)
    BY <1>1, <1>2
  <2> QED BY <1>1, <1>3, <2>1
<1>5. \A e : e \in ToSet(y) => e \in ToSet(z)
  <2>1. \A i \in 1..Len(y) : Len(x) + i \in 1..Len(z)
    BY <1>1, <1>2
  <2> QED BY <1>1, <1>3, <2>1
<1>6. \A e : e \in ToSet(z) => e \in ToSet(x) \/ e \in ToSet(y)
  <2> SUFFICES ASSUME NEW i \in 1..Len(z) PROVE z[i] \in ToSet(x) \/ z[i] \in ToSet(y)
    BY <1>3
  <2>1. CASE i <= Len(x)
    <3>1. i \in 1..Len(x)
      BY <1>2, <2>1
    <3> QED BY <1>1, <1>3, <3>1
  <2>2. CASE i > Len(x)
    <3>1. i - Len(x) \in 1..Len(y) /\ Len(x) + (i - Len(x)) = i
      BY <1>1, <1>2, <2>2
    <3>2. z[i] = y[i - Len(x)]
      BY <1>1, <3>1
    <3> QED BY <1>3, <3>1, <3>2
  <2> QED BY <1>1, <1>2, <2>1, <2>2
<1>7. ToSet(z) = ToSet(x) \cup ToSet(y)
  BY <1>4, <1>5, <1>6
<1> QED BY <1>7 DEF z

\* The bytes of set2, with its star filled.
LEMMA SecondSet ==
    ASSUME JobTyped, Sets # {}
    PROVE  ToSet(Second) = ToSet(Given) \cup {s.c : s \in {t \in StarItems : Len(First) > Len(Given)}}
<1>1. Stars(job.set1) = {} /\ ~(Cardinality(Stars(Set2)) > 1)
  BY SetsAre
<1>2. StarItems = {Set2[j] : j \in RealStars}
  BY StarItemsAre
<1>3. CASE RealStars = {}
  <2>1. Second = Given
    BY <1>1, <1>3, SecondNoStar
  <2>2. StarItems = {}
    BY <1>2, <1>3
  <2> QED BY <2>1, <2>2
<1>4. CASE RealStars # {}
  <2>1. PICK j : j \in RealStars
    BY <1>4
  <2> DEFINE before == FlattenFinite(SubSeq(Set2, 1, j))
             after == FlattenFinite(SubSeq(Set2, j + 1, Len(Set2)))
             e == Set2[j].c
             x == Len(First) - Len(Given)
             m == Max({0, x})
  <2>2. /\ Given = Joined(before, after) /\ Second = Joined(Joined(before, Filler(j)), after)
        /\ before \in Seq(AnyByte) /\ after \in Seq(AnyByte)
    BY <1>1, <2>1, SecondStar
  <2>3. StarItems = {Set2[j]}
    <3>1. RealStars = {j}
      BY <1>1, <2>1, OneStar
    <3> QED BY <1>2, <3>1
  <2>4. x \in Int /\ Len(First) \in Nat /\ Len(Given) \in Nat
    BY <1>1, FilledTyped
  <2>5. e \in AnyByte /\ e # 0
    <3>1. j \in 1..Len(Set2) /\ IsStar(Set2[j]) /\ e # 0
      BY <1>1, <2>1, OneStar DEF RealStars
    <3> QED BY <1>1, <3>1, FilledTyped
  <2>6. (x > 0) <=> Len(First) > Len(Given)
    BY <2>4
  <2> HIDE DEF before, after, x
  <2>7. m = (IF x > 0 THEN x ELSE 0) /\ m \in Int
    BY <2>4, MaxWithZero
  <2>8. Filler(j) = Repeated(e, m)
    BY <2>5 DEF Filler, x
  <2> HIDE DEF m
  <2>9. /\ Filler(j) \in Seq(AnyByte) /\ Len(Filler(j)) = (IF m > 0 THEN m ELSE 0)
        /\ \A i \in 1..Len(Filler(j)) : Filler(j)[i] = e
    <3>1. e \in AnyByte /\ m \in Int
      BY <2>5, <2>7
    <3> HIDE DEF e
    <3>2. /\ Repeated(e, m) \in Seq(AnyByte)
          /\ Len(Repeated(e, m)) = (IF m > 0 THEN m ELSE 0)
          /\ \A i \in 1..Len(Repeated(e, m)) : Repeated(e, m)[i] = e
      BY <3>1, RepeatedTyped
    <3> QED BY <2>8, <3>2
  <2>10. ToSet(Filler(j)) = IF Len(First) > Len(Given) THEN {e} ELSE {}
    <3>1. ToSet(Filler(j)) = {Filler(j)[i] : i \in 1..Len(Filler(j))}
      BY <2>9, ToSetTyped
    <3>2. CASE x > 0
      <4>1. 1 \in 1..Len(Filler(j))
        BY <2>4, <2>7, <2>9, <3>2
      <4> QED BY <2>6, <2>9, <3>1, <3>2, <4>1
    <3>3. CASE ~(x > 0)
      <4>1. 1..Len(Filler(j)) = {}
        BY <2>4, <2>7, <2>9, <3>3
      <4> QED BY <2>6, <3>1, <3>3, <4>1
    <3> QED BY <3>2, <3>3
  <2>11. {s.c : s \in {t \in StarItems : Len(First) > Len(Given)}} = ToSet(Filler(j))
    BY <2>3, <2>10
  <2>12. /\ ToSet(Given) = ToSet(before) \cup ToSet(after)
         /\ ToSet(Second) = (ToSet(before) \cup ToSet(Filler(j))) \cup ToSet(after)
    <3>1. /\ Joined(before, Filler(j)) \in Seq(AnyByte)
      BY <2>2, <2>9, JoinedAt
    <3>2. ToSet(Given) = ToSet(before) \cup ToSet(after)
      BY <2>2, JoinedSet
    <3>3. ToSet(Joined(before, Filler(j))) = ToSet(before) \cup ToSet(Filler(j))
      BY <2>2, <2>9, JoinedSet
    <3> DEFINE y == Joined(before, Filler(j))
    <3> HIDE DEF y
    <3>4. ToSet(Joined(y, after)) = ToSet(y) \cup ToSet(after)
      BY <2>2, <3>1, JoinedSet DEF y
    <3> QED BY <2>2, <3>2, <3>3, <3>4 DEF y
  <2> QED BY <2>11, <2>12
<1> QED BY <1>3, <1>4

\* The bytes that are squeezed are those that are expected to be.
LEMMA SqueezedIs ==
    ASSUME JobTyped, Sets # {}, st.operations = Operations
    PROVE  ExpectedSqueezed = SqueezeSet /\ ExpectedDeleted = Deleted
<1> DEFINE t == IF Translating THEN TranslationTable(Cut, Second) ELSE [b \in 0..MaxByte |-> b]
           d == IF job.delete THEN ToSet(Cut) ELSE {}
           q == IF ~job.squeeze THEN {} ELSE IF job.set2 = {} THEN ToSet(Cut) ELSE ToSet(Second)
<1>1. Operations = [table |-> t, deleted |-> d, squeezed |-> q]
  BY OperationsAre
<1> HIDE DEF t, d, q
<1>2. Deleted = d /\ SqueezeSet = q
  BY <1>1 DEF Deleted, SqueezeSet
<1>3. /\ job.delete => Cut = First
      /\ job.set2 = {} => Cut = First
  BY OperationsAre DEF Translating
<1>4. ExpectedSqueezed = q
  BY <1>3, SecondSet DEF ExpectedSqueezed, q
<1>5. ExpectedDeleted = d
  BY <1>3 DEF ExpectedDeleted, d
<1> QED BY <1>2, <1>4, <1>5

\* What the filters write is what the sets mean.
LEMMA ExpectedWritten ==
    ASSUME JobTyped, Sets # {}, st.operations = Operations, NEW bytes \in Seq(AnyByte)
    PROVE  Expected(bytes) = Deduped(SqueezeSet, NotAChar, Reader(bytes))
<1>r. Ready
  BY OperationsReady
<1> DEFINE kept == Removed(bytes, Deleted)
           mapped == ExpectedMapped(kept)
<1>1. Expected(bytes) = ExpectedOf(mapped) /\ ExpectedSqueezed = SqueezeSet
  BY ExpectedIs, SqueezedIs
<1>2. kept \in Seq(AnyByte)
  BY SinglyTyped
<1>3. \A i \in DOMAIN kept : Image(kept[i]) = Moved(kept[i])
  <2> HIDE DEF kept
  <2>1. \A i \in DOMAIN kept : kept[i] \in AnyByte
    BY <1>2
  <2> QED BY <2>1, ImageIs
<1>4. mapped = [i \in DOMAIN kept |-> Moved(kept[i])]
  <2> HIDE DEF kept
  <2> QED BY <1>3 DEF ExpectedMapped
<1> HIDE DEF mapped
<1>5. mapped = Reader(bytes)
  <2>1. kept = [i \in DOMAIN kept |-> kept[i]]
    <3> HIDE DEF kept
    <3> QED BY <1>2
  <2>2. CASE job.delete
    <3>1. mapped = [i \in DOMAIN kept |-> kept[i]]
      <4> HIDE DEF kept
      <4> QED BY <1>4, <2>2 DEF Moved, Translating
    <3> QED BY <2>1, <2>2, <3>1 DEF Reader
  <2>3. CASE ~job.delete
    <3>1. Deleted = {}
      BY <1>r, <2>3 DEF Ready
    <3>2. kept = bytes
      <4>1. \A i \in 1..Len(bytes) : bytes[i] \notin Deleted
        BY <3>1
      <4> QED BY <4>1, RemovedNone
    <3> HIDE DEF kept
    <3>3. CASE Translating
      BY <1>4, <2>3, <3>2, <3>3 DEF Reader, Moved
    <3>4. CASE ~Translating
      <4>1. mapped = kept
        BY <1>4, <2>1, <3>4 DEF Moved
      <4> QED BY <2>3, <3>2, <3>4, <4>1 DEF Reader
    <3> QED BY <3>3, <3>4
  <2> QED BY <2>2, <2>3
<1>6. mapped \in Seq(AnyByte)
  BY <1>r, <1>5, ReaderTyped
<1>7. ExpectedOf(mapped) = Deduped(SqueezeSet, NotAChar, mapped)
  <2>1. NotAChar \notin SqueezeSet
    BY <1>r, TrAssumption DEF Ready, AnyByte, NotAChar
  <2>2. DOMAIN mapped = 1..Len(mapped)
    BY <1>6
  <2>3. \A i \in 1..Len(mapped) :
           i > 1 /\ mapped[i] \in SqueezeSet /\ mapped[i] = mapped[i - 1]
           <=> mapped[i] \in SqueezeSet /\ mapped[i] = Prior(NotAChar, mapped, i)
    BY <2>1 DEF Prior
  <2>4. [i \in DOMAIN mapped |->
           IF i > 1 /\ mapped[i] \in ExpectedSqueezed /\ mapped[i] = mapped[i - 1]
           THEN <<>> ELSE <<mapped[i]>>] = Unrepeated(SqueezeSet, NotAChar, mapped)
    BY <1>1, <2>2, <2>3 DEF Unrepeated
  <2> QED BY <2>4 DEF ExpectedOf, Deduped
<1> QED BY <1>1, <1>5, <1>7

-----------------------------------------------------------------------------
\* Wherever the reads stop: what was read, and what the filters keep of it.
Read == SubSeq(job.input, 1, Len(job.input) - Len(left))

\* Both filters have written what is left of passed, and remember its last byte.
Kept(passed) ==
    /\ st.rust = [out |-> Deduped(SqueezeSet, NotAChar, passed),
                  previous |-> IF job.squeeze THEN LastOf(NotAChar, passed) ELSE NotAChar]
    /\ st.c = [c |-> IF job.squeeze THEN CharOf(SqueezeSet, LastOf(NotAChar, passed))
                     ELSE NotAChar,
               out |-> Deduped(SqueezeSet, NotAChar, passed)]

\* What is left is the end of the input.
LeftIsSuffix ==
    /\ left \in Seq(AnyByte) /\ Len(left) <= Len(job.input)
    /\ \A i \in 1..Len(left) : left[i] = job.input[Len(job.input) - Len(left) + i]

\* While pieces are read, nothing but what the filters kept has changed.
Filtering == /\ Sets # {}
             /\ st = [pc |-> "chunk", rust |-> st.rust, c |-> st.c, operations |-> Operations]
             /\ Kept(Reader(Read))

\* The invariant of tr.
TrIInv == /\ JobTyped
          /\ LeftIsSuffix
          /\ st.pc \in {"start", "chunk", "done"}
          /\ st.pc = "start" => st = Filters /\ left = job.input
          /\ st.pc = "chunk" => Filtering

\* When k more of y, the end of x, are read, what was read of x is longer by them.
Continued(T, x, y, k) ==
    LET z == SubSeq(y, k + 1, Len(y))
    IN  /\ z \in Seq(T) /\ Len(z) <= Len(x)
        /\ \A i \in 1..Len(z) : z[i] = x[Len(x) - Len(z) + i]
        /\ SubSeq(x, 1, Len(x) - Len(y)) \in Seq(T) /\ SubSeq(y, 1, k) \in Seq(T)
        /\ SubSeq(x, 1, Len(x) - Len(z))
             = Joined(SubSeq(x, 1, Len(x) - Len(y)), SubSeq(y, 1, k))

\* This is so.
LEMMA ReadMore ==
    ASSUME NEW T, NEW x \in Seq(T), NEW y \in Seq(T), NEW k \in 1..Len(y), Len(y) <= Len(x),
           \A i \in 1..Len(y) : y[i] = x[Len(x) - Len(y) + i]
    PROVE  Continued(T, x, y, k)
<1> DEFINE m == Len(x)
           n == Len(y)
           z == SubSeq(y, k + 1, n)
           u == SubSeq(x, 1, m - n)
           v == SubSeq(y, 1, k)
           w == SubSeq(x, 1, m - Len(z))
<1>1. m \in Nat /\ n \in Nat /\ k \in 1..n /\ n <= m /\ m = Len(x) /\ n = Len(y)
  OBVIOUS
<1>2. \A i \in 1..n : y[i] = x[m - n + i]
  OBVIOUS
<1> HIDE DEF m, n
<1>3. z \in Seq(T) /\ Len(z) = n - k /\ \A i \in 1..n - k : z[i] = y[k + i]
  BY <1>1
<1>4. v \in Seq(T) /\ Len(v) = k /\ \A i \in 1..k : v[i] = y[i]
  BY <1>1
<1>5. u \in Seq(T) /\ Len(u) = m - n /\ \A i \in 1..m - n : u[i] = x[i]
  BY <1>1
<1> HIDE DEF z
<1>6. w \in Seq(T) /\ Len(w) = m - n + k /\ \A i \in 1..m - n + k : w[i] = x[i]
  <2> DEFINE e == m - Len(z)
  <2>1. e = m - n + k /\ e \in 0..m
    BY <1>1, <1>3
  <2> HIDE DEF e
  <2>2. /\ SubSeq(x, 1, e) \in Seq(T) /\ Len(SubSeq(x, 1, e)) = e
        /\ \A i \in 1..e : SubSeq(x, 1, e)[i] = x[i]
    BY <1>1, <2>1
  <2> QED BY <2>1, <2>2 DEF e
<1> HIDE DEF u, v, w
<1>7. \A i \in 1..Len(z) : z[i] = x[m - Len(z) + i]
  <2> SUFFICES ASSUME NEW i \in 1..Len(z) PROVE z[i] = x[m - Len(z) + i]
    OBVIOUS
  <2>1. i \in 1..n - k /\ k + i \in 1..n /\ m - n + (k + i) = m - Len(z) + i
    BY <1>1, <1>3
  <2> QED BY <1>2, <1>3, <2>1
<1>8. w = Joined(u, v)
  <2>1. Len(w) = Len(u) + Len(v)
    BY <1>1, <1>4, <1>5, <1>6
  <2>2. \A i \in 1..Len(u) : w[i] = u[i]
    <3>1. \A i \in 1..m - n : i \in 1..m - n + k
      BY <1>1
    <3> QED BY <1>5, <1>6, <3>1
  <2>3. \A i \in 1..Len(v) : w[Len(u) + i] = v[i]
    <3> SUFFICES ASSUME NEW i \in 1..Len(v) PROVE w[Len(u) + i] = v[i]
      OBVIOUS
    <3>1. i \in 1..k /\ i \in 1..n /\ Len(u) + i \in 1..m - n + k /\ Len(u) + i = m - n + i
      BY <1>1, <1>4, <1>5
    <3> QED BY <1>2, <1>4, <1>6, <3>1
  <2> QED BY <1>4, <1>5, <1>6, <2>1, <2>2, <2>3, SameIsJoined
<1>9. Len(z) <= m
  BY <1>1, <1>3
<1> QED BY <1>3, <1>4, <1>5, <1>7, <1>8, <1>9 DEF u, v, w, z, m, n, Continued

\* Without -s nothing is squeezed.
LEMMA WithoutSqueeze ==
    ASSUME JobTyped, Sets # {}, st.operations = Operations, ~job.squeeze
    PROVE  SqueezeSet = {}
<1>1. Operations.squeezed = {}
  BY OperationsAre
<1> QED BY <1>1 DEF SqueezeSet

\* One piece more.
LEMMA PieceKept ==
    ASSUME JobTyped, Sets # {}, st.operations = Operations,
           NEW x \in Seq(AnyByte), NEW piece \in Seq(AnyByte), Kept(Reader(x))
    PROVE  LET all == Reader(Joined(x, piece))
           IN  /\ (IF job.squeeze THEN TranslateAll(st.rust, piece)
                   ELSE [st.rust EXCEPT !.out = @ \o ProcessChunk(piece)])
                    = [out |-> Deduped(SqueezeSet, NotAChar, all),
                       previous |-> IF job.squeeze THEN LastOf(NotAChar, all) ELSE NotAChar]
               /\ (IF job.squeeze
                   THEN SqueezeFilter(Reader(piece), SqueezeSet, st.c.c, st.c.out)
                   ELSE [st.c EXCEPT !.out = @ \o Reader(piece)])
                    = [c |-> IF job.squeeze THEN CharOf(SqueezeSet, LastOf(NotAChar, all))
                             ELSE NotAChar,
                       out |-> Deduped(SqueezeSet, NotAChar, all)]
<1> DEFINE R == Reader(x)
           P == Reader(piece)
           S == SqueezeSet
           all == Reader(Joined(x, piece))
           D == Deduped(S, NotAChar, R)
           L == LastOf(NotAChar, R)
<1>r. Ready /\ S \in SUBSET AnyByte
  BY OperationsReady DEF Ready
<1>1. R \in Seq(AnyByte) /\ P \in Seq(AnyByte)
  BY <1>r, ReaderTyped
<1>2. all = Joined(R, P)
  BY <1>r, ReaderParts DEF Joined
<1>3. D \in Seq(AnyByte)
  BY <1>1, UnrepeatedTyped
<1> HIDE DEF R, P, S, all
<1>4. Deduped(S, NotAChar, all) = Joined(D, Deduped(S, L, P)) /\ LastOf(NotAChar, all) = LastOf(L, P)
  BY <1>1, <1>2, DedupedConcat, SMTT(60)
<1>5. L \in 0..MaxByte + 1
  <2>1. CASE R = <<>>
    BY <2>1, TrAssumption DEF LastOf, NotAChar
  <2>2. CASE R # <<>>
    <3>1. R[Len(R)] \in AnyByte
      BY <1>1, <2>2
    <3> QED BY <2>2, <3>1, TrAssumption DEF LastOf, AnyByte
  <2> QED BY <2>1, <2>2
<1>6. /\ st.rust = [out |-> D, previous |-> IF job.squeeze THEN L ELSE NotAChar]
      /\ st.c = [c |-> IF job.squeeze THEN CharOf(S, L) ELSE NotAChar, out |-> D]
  BY DEF Kept, R, S
<1> HIDE DEF D, L
<1>7. CASE job.squeeze
  <2>1. st.rust = [out |-> D, previous |-> L] /\ st.c = [c |-> CharOf(S, L), out |-> D]
    BY <1>6, <1>7
  <2>2. st.rust \in States /\ st.rust.out = D /\ st.rust.previous = L
    BY <1>3, <1>5, <2>1 DEF States
  <2>3. TranslateAll(st.rust, piece) = [out |-> Joined(D, Deduped(S, L, P)),
                                        previous |-> LastOf(L, P)]
    <3>1. TranslateAll(st.rust, piece) = Written(st.rust, P)
      BY <1>r, <2>2, TranslateAllIs DEF P
    <3> QED BY <2>2, <3>1 DEF Written, S
  <2>4. SqueezeFilter(P, S, st.c.c, st.c.out)
          = [c |-> CharOf(S, LastOf(L, P)), out |-> Joined(D, Deduped(S, L, P))]
    <3>1. P \in Seq(0..MaxByte) /\ S \in SUBSET (0..MaxByte)
      BY <1>r, <1>1 DEF AnyByte
    <3>2. SqueezeFilter(P, S, CharOf(S, L), D)
            = [c |-> CharOf(S, LastOf(L, P)), out |-> Joined(D, Deduped(S, L, P))]
      BY <3>1, SqueezeFilterIs
    <3> QED BY <2>1, <3>2
  <2> QED BY <1>4, <1>7, <2>3, <2>4 DEF P, S, all
<1>8. CASE ~job.squeeze
  <2>1. S = {}
    BY <1>8, WithoutSqueeze DEF S
  <2>2. \A y \in Seq(AnyByte) : Deduped({}, NotAChar, y) = y
    BY DedupedNone
  <2>3. all \in Seq(AnyByte)
    <3>1. Joined(R, P) \in Seq(AnyByte)
      BY <1>1, JoinedAt
    <3> QED BY <1>2, <3>1
  <2>4. D = R /\ Deduped(S, NotAChar, all) = Joined(D, P)
    BY <1>1, <1>2, <2>1, <2>2, <2>3 DEF D
  <2>5. ProcessChunk(piece) = P
    BY <1>r, ProcessChunkIs DEF P
  <2>6. st.rust = [out |-> D, previous |-> NotAChar] /\ st.c = [c |-> NotAChar, out |-> D]
    BY <1>6, <1>8
  <2>7. /\ [st.rust EXCEPT !.out = @ \o ProcessChunk(piece)]
             = [out |-> Joined(D, P), previous |-> NotAChar]
        /\ [st.c EXCEPT !.out = @ \o P] = [c |-> NotAChar, out |-> Joined(D, P)]
    <3>1. /\ [st.rust EXCEPT !.out = Joined(D, P)] = [out |-> Joined(D, P), previous |-> NotAChar]
          /\ [st.c EXCEPT !.out = Joined(D, P)] = [c |-> NotAChar, out |-> Joined(D, P)]
      BY <2>6
    <3>2. st.rust.out = D /\ st.c.out = D
      BY <2>6
    <3>3. /\ [st.rust EXCEPT !.out = @ \o P] = [st.rust EXCEPT !.out = Joined(D, P)]
          /\ [st.c EXCEPT !.out = @ \o P] = [st.c EXCEPT !.out = Joined(D, P)]
      BY <3>2, Zenon DEF Joined
    <3> QED BY <2>5, <3>1, <3>3
  <2> QED BY <1>8, <2>4, <2>7 DEF P, S, all
<1> QED BY <1>7, <1>8

-----------------------------------------------------------------------------
\* The invariant holds at first.
LEMMA TrInit == InitTr => TrIInv
<1> SUFFICES ASSUME InitTr PROVE TrIInv
  OBVIOUS
<1>1. JobTyped
  BY DEF InitTr, JobTyped, AnyByte
<1>2. st = Filters /\ left = job.input /\ job.input \in Seq(AnyByte)
  BY DEF InitTr, AnyByte
<1>3. st.pc = "start"
  BY <1>2 DEF Filters
<1>4. LeftIsSuffix
  <2>1. \A i \in 1..Len(job.input) : Len(job.input) - Len(job.input) + i = i
    BY <1>2
  <2> QED BY <1>2, <2>1 DEF LeftIsSuffix
<1> QED BY <1>1, <1>2, <1>3, <1>4 DEF TrIInv

\* The sets and the operations of a job are its own.
LEMMA SameJob ==
    ASSUME job' = job
    PROVE  /\ Sets' = Sets /\ Operations' = Operations /\ (JobTyped' <=> JobTyped)
           /\ (Translating' <=> Translating)
<1>1. Translating' <=> Translating
  BY DEF Translating
<1>2. Sets' = Sets
  BY DEF Sets, Set2, Usage, Translating
<1>3. Operations' = Operations
  BY <1>2 DEF Operations, Translating
<1>4. JobTyped' <=> JobTyped
  BY DEF JobTyped
<1> QED BY <1>1, <1>2, <1>3, <1>4

\* Every step keeps it.
LEMMA TrNext == TrIInv /\ [NextTr]_vars => TrIInv'
<1> SUFFICES ASSUME TrIInv, [NextTr]_vars PROVE TrIInv'
  OBVIOUS
<1>0. /\ JobTyped /\ LeftIsSuffix /\ st.pc \in {"start", "chunk", "done"}
      /\ st.pc = "start" => st = Filters /\ left = job.input
      /\ st.pc = "chunk" => Filtering
  BY DEF TrIInv
<1>1. CASE Refuse
  <2>1. job' = job /\ left' = left /\ st' = [st EXCEPT !.pc = "done"] /\ st.pc = "start"
    BY <1>1 DEF Refuse, Trs, Stay
  <2>2. st'.pc = "done"
    BY <1>0, <2>1 DEF Filters
  <2>3. JobTyped' /\ LeftIsSuffix'
    BY <1>0, <2>1, SameJob DEF LeftIsSuffix
  <2> QED BY <2>2, <2>3 DEF TrIInv
<1>2. CASE Accept
  <2>1. /\ job' = job /\ left' = left /\ st.pc = "start" /\ Sets # {}
        /\ st' = [st EXCEPT !.pc = "chunk", !.operations = Operations]
    BY <1>2 DEF Accept, Trs, Stay
  <2>2. st' = [pc |-> "chunk", rust |-> [out |-> <<>>, previous |-> NotAChar],
               c |-> [c |-> NotAChar, out |-> <<>>], operations |-> Operations]
    <3> DEFINE ops == Operations
               rust == [out |-> <<>>, previous |-> NotAChar]
               clang == [c |-> NotAChar, out |-> <<>>]
    <3>1. st = [pc |-> "start", rust |-> rust, c |-> clang, operations |-> {}]
      BY <1>0, <2>1 DEF Filters
    <3>2. st' = [st EXCEPT !.pc = "chunk", !.operations = ops]
      BY <2>1
    <3> HIDE DEF ops, rust, clang
    <3>3. st' = [pc |-> "chunk", rust |-> rust, c |-> clang, operations |-> ops]
      BY <3>1, <3>2
    <3> QED BY <3>3 DEF ops, rust, clang
  <2>3. JobTyped' /\ LeftIsSuffix' /\ Sets' # {} /\ Operations' = Operations
    BY <1>0, <2>1, SameJob DEF LeftIsSuffix
  <2>4. Read' = <<>>
    <3>1. left' = job'.input /\ job'.input \in Seq(AnyByte)
      BY <1>0, <2>1 DEF JobTyped
    <3>2. Len(job'.input) - Len(left') = 0
      BY <3>1
    <3>3. SubSeq(job'.input, 1, 0) = <<>>
      BY <3>1
    <3> QED BY <3>2, <3>3 DEF Read
  <2>5. Reader(Read)' = <<>>
    <3>1. \A S : Removed(<<>>, S) = <<>>
      <4> DEFINE none == <<>>
      <4>1. none \in Seq(AnyByte) /\ \A S : \A i \in 1..Len(none) : none[i] \notin S
        OBVIOUS
      <4> HIDE DEF none
      <4>2. \A S : Removed(none, S) = none
        BY <4>1, RemovedNone
      <4> QED BY <4>2 DEF none
    <3>2. \A t : [i \in DOMAIN <<>> |-> t[<<>>[i]]] = <<>>
      OBVIOUS
    <3> QED BY <2>4, <3>1, <3>2 DEF Reader
  <2>6. Kept(Reader(Read))'
    <3>1. /\ \A S : Deduped(S, NotAChar, <<>>) = <<>>
          /\ LastOf(NotAChar, <<>>) = NotAChar
          /\ \A S : CharOf(S, NotAChar) = NotAChar
      BY DedupedEmpty DEF CharOf
    <3>2. st'.rust = [out |-> <<>>, previous |-> NotAChar]
          /\ st'.c = [c |-> NotAChar, out |-> <<>>]
      BY <2>2
    <3>3. Kept(Reader(Read))' <=>
            /\ st'.rust = [out |-> Deduped(SqueezeSet', NotAChar, Reader(Read)'),
                           previous |-> IF job'.squeeze THEN LastOf(NotAChar, Reader(Read)')
                                        ELSE NotAChar]
            /\ st'.c = [c |-> IF job'.squeeze
                              THEN CharOf(SqueezeSet', LastOf(NotAChar, Reader(Read)'))
                              ELSE NotAChar,
                        out |-> Deduped(SqueezeSet', NotAChar, Reader(Read)')]
      BY DEF Kept
    <3> QED BY <2>5, <3>1, <3>2, <3>3
  <2>7. st' = [pc |-> "chunk", rust |-> st'.rust, c |-> st'.c, operations |-> Operations']
    BY <2>2, <2>3
  <2>8. Filtering'
    BY <2>3, <2>6, <2>7 DEF Filtering
  <2>9. st'.pc = "chunk"
    BY <2>2
  <2> QED BY <2>3, <2>8, <2>9 DEF TrIInv
<1>3. ASSUME NEW k \in 1..Len(left), Chunk(k) PROVE TrIInv'
  <2> DEFINE piece == SubSeq(left, 1, k)
             rust == IF job.squeeze THEN TranslateAll(st.rust, piece)
                     ELSE [st.rust EXCEPT !.out = @ \o ProcessChunk(piece)]
             clang == IF job.squeeze
                      THEN SqueezeFilter(Reader(piece), SqueezeSet, st.c.c, st.c.out)
                      ELSE [st.c EXCEPT !.out = @ \o Reader(piece)]
             all == Reader(Joined(Read, piece))
  <2>1. /\ job' = job /\ left' = SubSeq(left, k + 1, Len(left)) /\ st.pc = "chunk"
        /\ st' = [st EXCEPT !.rust = rust, !.c = clang]
    <3>1. job' = job /\ left' = SubSeq(left, k + 1, Len(left)) /\ st.pc = "chunk"
      BY <1>3 DEF Chunk, Consume, Trs
    <3>3. st' = [st EXCEPT !.rust = rust, !.c = clang]
      BY <1>3, Zenon DEF Chunk, Piece
    <3> QED BY <3>1, <3>3
  <2>2. Filtering
    BY <1>0, <2>1
  <2>3. /\ Sets # {} /\ Kept(Reader(Read))
        /\ st = [pc |-> "chunk", rust |-> st.rust, c |-> st.c, operations |-> Operations]
    BY <2>2 DEF Filtering
  <2>4. /\ left' \in Seq(AnyByte) /\ Len(left') <= Len(job.input)
        /\ \A i \in 1..Len(left') : left'[i] = job.input[Len(job.input) - Len(left') + i]
        /\ Read \in Seq(AnyByte) /\ piece \in Seq(AnyByte)
        /\ SubSeq(job.input, 1, Len(job.input) - Len(left')) = Joined(Read, piece)
    <3> DEFINE z == SubSeq(left, k + 1, Len(left))
    <3>1. /\ job.input \in Seq(AnyByte) /\ left \in Seq(AnyByte) /\ Len(left) <= Len(job.input)
          /\ \A i \in 1..Len(left) : left[i] = job.input[Len(job.input) - Len(left) + i]
      BY <1>0 DEF JobTyped, LeftIsSuffix
    <3>2. /\ z \in Seq(AnyByte) /\ Len(z) <= Len(job.input)
          /\ \A i \in 1..Len(z) : z[i] = job.input[Len(job.input) - Len(z) + i]
          /\ Read \in Seq(AnyByte) /\ piece \in Seq(AnyByte)
          /\ SubSeq(job.input, 1, Len(job.input) - Len(z)) = Joined(Read, piece)
      <4> DEFINE x == job.input
                 y == left
      <4>2. /\ x \in Seq(AnyByte) /\ y \in Seq(AnyByte) /\ Len(y) <= Len(x)
            /\ \A i \in 1..Len(y) : y[i] = x[Len(x) - Len(y) + i]
            /\ k \in 1..Len(y)
        BY <3>1
      <4> HIDE DEF x, y
      <4>3. Continued(AnyByte, x, y, k)
        BY <4>2, ReadMore
      <4> QED BY <4>3 DEF x, y, Read, Continued
    <3>3. left' = z
      BY <2>1
    <3> HIDE DEF z, piece
    <3> QED BY <3>2, <3>3
  <2> HIDE DEF piece
  <2>5. JobTyped' /\ Sets' # {} /\ Operations' = Operations /\ (Translating' <=> Translating)
    BY <1>0, <2>1, <2>3, SameJob
  <2>6. LeftIsSuffix' /\ Read' = Joined(Read, piece)
    BY <2>1, <2>4 DEF LeftIsSuffix, Read
  <2>7. st.operations = Operations
    BY <2>3
  <2>8. /\ rust = [out |-> Deduped(SqueezeSet, NotAChar, all),
                   previous |-> IF job.squeeze THEN LastOf(NotAChar, all) ELSE NotAChar]
        /\ clang = [c |-> IF job.squeeze THEN CharOf(SqueezeSet, LastOf(NotAChar, all))
                          ELSE NotAChar,
                    out |-> Deduped(SqueezeSet, NotAChar, all)]
    BY <1>0, <2>3, <2>4, <2>7, PieceKept
  <2> HIDE DEF rust, clang
  <2>9. st' = [pc |-> "chunk", rust |-> rust, c |-> clang, operations |-> Operations]
    <3> DEFINE ops == Operations
               rust0 == st.rust
               clang0 == st.c
    <3>1. st = [pc |-> "chunk", rust |-> rust0, c |-> clang0, operations |-> ops]
      BY <2>3
    <3>2. st' = [st EXCEPT !.rust = rust, !.c = clang]
      BY <2>1
    <3> HIDE DEF ops, rust0, clang0
    <3>3. st' = [pc |-> "chunk", rust |-> rust, c |-> clang, operations |-> ops]
      BY <3>1, <3>2
    <3> QED BY <3>3 DEF ops
  <2>10. st'.rust = rust /\ st'.c = clang /\ st'.operations = st.operations /\ st'.pc = "chunk"
    BY <2>7, <2>9
  <2>11. SqueezeSet' = SqueezeSet /\ Table' = Table /\ Deleted' = Deleted
    BY <2>10 DEF SqueezeSet, Table, Deleted
  <2>12. Reader(Read)' = all
    <3> DEFINE more == Joined(Read, piece)
    <3>1. Read' = more
      BY <2>6
    <3> HIDE DEF more
    <3>2. Reader(Read)' = Reader(more)
      BY <2>1, <2>5, <2>11, <3>1 DEF Reader
    <3> QED BY <3>2 DEF more
  <2> HIDE DEF all
  <2>13. Kept(Reader(Read))'
    <3>1. Kept(Reader(Read))' <=>
            /\ st'.rust = [out |-> Deduped(SqueezeSet', NotAChar, Reader(Read)'),
                           previous |-> IF job'.squeeze THEN LastOf(NotAChar, Reader(Read)')
                                        ELSE NotAChar]
            /\ st'.c = [c |-> IF job'.squeeze
                              THEN CharOf(SqueezeSet', LastOf(NotAChar, Reader(Read)'))
                              ELSE NotAChar,
                        out |-> Deduped(SqueezeSet', NotAChar, Reader(Read)')]
      BY DEF Kept
    <3> QED BY <2>1, <2>8, <2>10, <2>11, <2>12, <3>1
  <2>14. st' = [pc |-> "chunk", rust |-> st'.rust, c |-> st'.c, operations |-> Operations']
    BY <2>5, <2>9, <2>10
  <2>15. Filtering'
    BY <2>5, <2>13, <2>14 DEF Filtering
  <2> QED BY <2>5, <2>6, <2>10, <2>15 DEF TrIInv
<1>4. CASE EndOfFile
  <2>1. job' = job /\ left' = left /\ st' = [st EXCEPT !.pc = "done"] /\ st.pc = "chunk"
    BY <1>4 DEF EndOfFile, Trs, Stay
  <2>2. st = [pc |-> "chunk", rust |-> st.rust, c |-> st.c, operations |-> Operations]
    BY <1>0, <2>1 DEF Filtering
  <2>3. st'.pc = "done"
    BY <2>1, <2>2
  <2>4. JobTyped' /\ LeftIsSuffix'
    BY <1>0, <2>1, SameJob DEF LeftIsSuffix
  <2> QED BY <2>3, <2>4 DEF TrIInv
<1>5. CASE UNCHANGED vars
  <2>1. job' = job /\ left' = left /\ st' = st
    BY <1>5 DEF vars
  <2>2. /\ Sets' = Sets /\ Operations' = Operations /\ (JobTyped' <=> JobTyped)
        /\ (Translating' <=> Translating)
    BY <2>1, SameJob
  <2>3. Read' = Read /\ (LeftIsSuffix' <=> LeftIsSuffix)
    BY <2>1 DEF Read, LeftIsSuffix
  <2>4. SqueezeSet' = SqueezeSet /\ Table' = Table /\ Deleted' = Deleted
    BY <2>1 DEF SqueezeSet, Table, Deleted
  <2>5. Reader(Read)' = Reader(Read)
    BY <2>1, <2>2, <2>3, <2>4 DEF Reader
  <2>6. Kept(Reader(Read))' <=> Kept(Reader(Read))
    BY <2>1, <2>4, <2>5 DEF Kept
  <2>7. Filtering' <=> Filtering
    BY <2>1, <2>2, <2>6 DEF Filtering
  <2> QED BY <1>0, <2>1, <2>2, <2>3, <2>7 DEF TrIInv
<1> QED BY <1>1, <1>2, <1>3, <1>4, <1>5 DEF NextTr

\* It implies that the filters have written what is expected.
LEMMA TrIndependent == TrIInv => FiltersIndependentOfReads
<1> SUFFICES ASSUME TrIInv, st.pc = "chunk"
             PROVE  st.rust.out = Expected(Read) /\ st.c.out = Expected(Read)
  BY DEF FiltersIndependentOfReads, Read
<1>1. JobTyped /\ LeftIsSuffix /\ Filtering
  BY DEF TrIInv
<1>2. /\ Sets # {} /\ Kept(Reader(Read))
      /\ st = [pc |-> "chunk", rust |-> st.rust, c |-> st.c, operations |-> Operations]
  BY <1>1 DEF Filtering
<1>3. st.operations = Operations
  BY <1>2
<1>4. Read \in Seq(AnyByte)
  <2>1. /\ job.input \in Seq(AnyByte) /\ left \in Seq(AnyByte) /\ Len(left) <= Len(job.input)
    BY <1>1 DEF JobTyped, LeftIsSuffix
  <2>2. Len(job.input) - Len(left) \in 0..Len(job.input)
    BY <2>1
  <2> QED BY <2>1, <2>2 DEF Read
<1>5. Expected(Read) = Deduped(SqueezeSet, NotAChar, Reader(Read))
  BY <1>1, <1>2, <1>3, <1>4, ExpectedWritten
<1>6. /\ st.rust.out = Deduped(SqueezeSet, NotAChar, Reader(Read))
      /\ st.c.out = Deduped(SqueezeSet, NotAChar, Reader(Read))
  BY <1>2 DEF Kept
<1> QED BY <1>5, <1>6

\* Whatever is read at a time, of any input and for any sets and flags, the
\* filters of the Rust and of the C have written what the sets mean for what
\* was read (operation.rs:203-319, 599-750; tr.c:1513-1660).
THEOREM TrFiltersIndependentOfReads == SpecTr => []FiltersIndependentOfReads
<1>1. SpecTr => []TrIInv
  BY TrInit, TrNext, PTL DEF SpecTr
<1> QED BY <1>1, TrIndependent, PTL
=============================================================================
