---------------------------- MODULE NumeralProofs ----------------------------
(***************************************************************************)
(* What the number parser makes of every string it may be fed with          *)
(* (NumberParser; internal/adapter/plugin/pathrewrite/number.go): the       *)
(* theorem NumeralsRead, for strings of any length.                         *)
(*                                                                         *)
(* A number is the set of its figures, each with the power of ten it counts; *)
(* that makes a sum of numbers that do not overlap a union. The invariant   *)
(* has three parts. ParserReadSo: the parser is what appending the string   *)
(* makes of a new one. CommasReadSo: it has counted the digits since the    *)
(* last comma. FiguresRead: its three sums stand for the figures of three   *)
(* parts of what was read, up to the last big unit, from there to the last  *)
(* unit, and behind that one (ParsedSo); and what it accepts is a numeral,  *)
(* what it rejects none. Then come the lemmas on appending a figure, on     *)
(* multiplying, adding and rendering sums, one for each kind of character,  *)
(* and what a string and a rendered sum denote.                             *)
(***************************************************************************)
EXTENDS JoinNumericProofs

-----------------------------------------------------------------------------
(* What the parser is, of what it was fed                                   *)

NumFed(r, c) == IF r.ok THEN Numeral!AppendChar(r.p, c) ELSE r
NumFolding(f, d, q, s) ==
    IF d = {} THEN Numeral!Yes(q) ELSE LET k == Numeral!Max(d) IN NumFed(f[d \ {k}], s[k])
IsNumFold(f, D, q, s) == f = [d \in SUBSET D |-> NumFolding(f, d, q, s)]
NumFold(q, s) == CHOOSE f : IsNumFold(f, DOMAIN s, q, s)

\* The parser of NumberParser reads a string like that of JoinNumeric.
LEMMA AllSame ==
    ASSUME NEW q, NEW s
    PROVE  Numeral!AppendAll(q, s) = InPlace!AppendAll(q, s)
<1>1. Numeral!AppendAll(q, s) = NumFold(q, s)[DOMAIN s]
  BY DEF Numeral!AppendAll, Numeral!FoldLeft, Numeral!MapThenFoldSet, NumFold, IsNumFold,
         NumFolding, NumFed
<1>2. InPlace!AppendAll(q, s) = Fold(q, s)[DOMAIN s]
  BY DEF InPlace!AppendAll, InPlace!FoldLeft, InPlace!MapThenFoldSet, Fold, IsFold, Folding, Fed
<1>3. \A x, c : Numeral!AppendChar(x, c) = InPlace!AppendChar(x, c)
  BY NumeralSame
<1>4. \A f, d : NumFolding(f, d, q, s) = Folding(f, d, q, s)
  BY <1>3 DEF NumFolding, Folding, NumFed, Fed, Numeral!Yes, InPlace!Yes, Numeral!Max, InPlace!Max
<1>5. \A f : IsNumFold(f, DOMAIN s, q, s) <=> IsFold(f, DOMAIN s, q, s)
  BY <1>4 DEF IsNumFold, IsFold
<1>6. NumFold(q, s) = Fold(q, s)
  BY <1>5 DEF NumFold, Fold
<1> QED BY <1>1, <1>2, <1>6

LEMMA RenderSame ==
    ASSUME NEW d
    PROVE  Numeral!Render(d) = InPlace!Render(d)
<1>1. Numeral!NormalizeScale(d) = InPlace!NormalizeScale(d)
  BY DEF Numeral!NormalizeScale, InPlace!NormalizeScale
<1>2. Numeral!IsZero(d) = InPlace!IsZero(d)
  BY DEF Numeral!IsZero, InPlace!IsZero
<1>3. \A n : Numeral!Zeros(n) = InPlace!Zeros(n)
  BY DEF Numeral!Zeros, InPlace!Zeros
<1>4. \A s : Numeral!Trim(s) = InPlace!Trim(s)
  BY DEF Numeral!Trim, InPlace!Trim, Numeral!Point, InPlace!Point
<1>5. Numeral!Point = InPlace!Point
  BY DEF Numeral!Point, InPlace!Point
<1> QED BY <1>1, <1>2, <1>3, <1>4, <1>5 DEF Numeral!Render, InPlace!Render

LEMMA InputsAre ==
    ASSUME Numeral!InputsAssumption
    PROVE  Inputs \subseteq Characters
BY DEF Numeral!InputsAssumption, Characters, Digits, SmallUnits, BigUnits, Comma, Point, Other,
       Numeral!Characters, Numeral!Digits, Numeral!SmallUnits, Numeral!BigUnits, Numeral!Comma,
       Numeral!Point, Numeral!Other

\* The answer to a string, and to a string that ends.
Answered(s) == InPlace!AppendAll(InPlace!NewParser, s)
Ending(s) == IF Answered(s).ok THEN InPlace!Done(Answered(s).p) ELSE Answered(s)

\* The parser is what appending what was read makes of a new one.
ParserReadSo ==
    /\ status = "reading" => Answered(read) = InPlace!Yes(parser)
    /\ status # "reading" => Ending(read) = [ok |-> status = "accepted", p |-> parser]

LEMMA AnsweredGrows ==
    ASSUME NEW s \in Seq(Characters), NEW c \in Characters
    PROVE  /\ Answered(s) \in Answer /\ Answered(s).ok \in BOOLEAN /\ Answered(s).p \in Parser
           /\ Answered(Append(s, c)) = IF Answered(s).ok THEN InPlace!AppendChar(Answered(s).p, c)
                                       ELSE Answered(s)
<1> DEFINE q == InPlace!NewParser
           t == <<c>>
<1>1. q \in Parser /\ t \in Seq(Characters)
  BY NewDecimalType
<1>2. Append(s, c) = s \o t
  OBVIOUS
<1> HIDE DEF q, t
<1>3. LET r == InPlace!AppendAll(q, s)
      IN  /\ r \in Answer /\ r.ok \in BOOLEAN /\ r.p \in Parser
          /\ InPlace!AppendAll(q, s \o t) = IF r.ok THEN InPlace!AppendAll(r.p, t) ELSE r
  BY <1>1, AppendConcat
<1>4. InPlace!AppendAll(Answered(s).p, t) = InPlace!AppendChar(Answered(s).p, c)
  BY AppendOne DEF t
<1> QED BY <1>2, <1>3, <1>4 DEF Answered, q

LEMMA AnsweredNothing == Answered(<<>>) = InPlace!Yes(InPlace!NewParser)
<1> DEFINE s == <<>>
<1>1. s \in Seq(Characters) /\ Len(s) = 0
  OBVIOUS
<1> HIDE DEF s
<1>2. /\ InPlace!AppendAll(InPlace!NewParser, s) = Up(InPlace!NewParser, s, Len(s))
      /\ Up(InPlace!NewParser, s, 0) = InPlace!Yes(InPlace!NewParser)
  BY <1>1, FoldSteps
<1> QED BY <1>1, <1>2 DEF Answered, s

LEMMA ParserReadSoKept ==
    ASSUME Numeral!InputsAssumption
    PROVE  /\ Numeral!Init => ParserReadSo
           /\ Numeral!TypeOK /\ ParserReadSo /\ [Numeral!Next]_(Numeral!vars) => ParserReadSo'
<1>1. ASSUME Numeral!Init PROVE ParserReadSo
  BY <1>1, NumeralSame, AnsweredNothing DEF Numeral!Init, ParserReadSo
<1>2. ASSUME Numeral!TypeOK, ParserReadSo, NEW c \in Inputs, Numeral!Feed(c) PROVE ParserReadSo'
  <2>1. read \in Seq(Characters) /\ c \in Characters
    BY <1>2, InputsAre, SeqOfMore DEF Numeral!TypeOK
  <2>2. /\ status = "reading" /\ read' = Append(read, c)
        /\ parser' = InPlace!AppendChar(parser, c).p
        /\ status' = IF InPlace!AppendChar(parser, c).ok THEN "reading" ELSE "rejected"
    BY <1>2, NumeralSame DEF Numeral!Feed
  <2>3. Answered(read) = InPlace!Yes(parser)
    BY <1>2, <2>2 DEF ParserReadSo
  <2>4. Answered(read').ok \in BOOLEAN
        /\ Answered(read') = InPlace!AppendChar(parser, c)
    <3>1. Answered(read).ok /\ Answered(read).p = parser
      BY <2>3 DEF InPlace!Yes
    <3>2. Append(read, c) \in Seq(Characters)
      BY <2>1, AppendProperties
    <3>3. Answered(Append(read, c)) = InPlace!AppendChar(parser, c)
      BY <2>1, <3>1, AnsweredGrows
    <3>4. Answered(Append(read, c)).ok \in BOOLEAN
      BY <2>1, <3>2, AnsweredGrows
    <3> QED BY <2>2, <3>3, <3>4
  <2>5. InPlace!AppendChar(parser, c) \in Answer
    BY <2>1, <2>3, AnsweredGrows, CharAnswers DEF InPlace!Yes
  <2>6. ParserReadSo' <=> /\ status' = "reading" => Answered(read') = InPlace!Yes(parser')
                          /\ status' # "reading" =>
                                Ending(read') = [ok |-> status' = "accepted", p |-> parser']
    BY DEF ParserReadSo, Answered, Ending, InPlace!Yes
  <2> DEFINE r == InPlace!AppendChar(parser, c)
  <2>7. r = [ok |-> r.ok, p |-> r.p] /\ r.ok \in BOOLEAN
    BY <2>5 DEF Answer
  <2>9. Answered(read') = r /\ parser' = r.p /\ status' = IF r.ok THEN "reading" ELSE "rejected"
    BY <2>2, <2>4
  <2> HIDE DEF r
  <2> QED BY <2>6, <2>7, <2>9 DEF Ending, InPlace!Yes
<1>3. ASSUME Numeral!TypeOK, ParserReadSo, Numeral!Finish PROVE ParserReadSo'
  <2>1. /\ status = "reading" /\ read' = read /\ parser' = InPlace!Done(parser).p
        /\ status' = IF InPlace!Done(parser).ok THEN "accepted" ELSE "rejected"
    BY <1>3, NumeralSame DEF Numeral!Finish
  <2>2. Answered(read) = InPlace!Yes(parser)
    BY <1>3, <2>1 DEF ParserReadSo
  <2> DEFINE r == InPlace!Done(parser)
  <2>3. r \in Answer
    BY <1>3, NumeralSame, DoneAnswers DEF Numeral!TypeOK
  <2>4. Ending(read') = r /\ parser' = r.p /\ status' = IF r.ok THEN "accepted" ELSE "rejected"
    BY <2>1, <2>2 DEF Ending, InPlace!Yes
  <2>5. ParserReadSo' <=> /\ status' = "reading" => Answered(read') = InPlace!Yes(parser')
                          /\ status' # "reading" =>
                                Ending(read') = [ok |-> status' = "accepted", p |-> parser']
    BY DEF ParserReadSo, Answered, Ending, InPlace!Yes
  <2> HIDE DEF r
  <2>6. r = [ok |-> r.ok, p |-> r.p] /\ r.ok \in BOOLEAN
    BY <2>3 DEF Answer
  <2> QED BY <2>4, <2>5, <2>6
<1>4. ASSUME ParserReadSo, UNCHANGED Numeral!vars PROVE ParserReadSo'
  BY <1>4 DEF Numeral!vars, ParserReadSo, Answered, Ending
<1> QED BY <1>1, <1>2, <1>3, <1>4 DEF Numeral!Next

\* The separator a string ends with is given up, its total kept.
LEMMA SeparatorIsDropped ==
    ASSUME Numeral!InputsAssumption, Numeral!TypeOK, ParserReadSo
    PROVE  Numeral!SeparatorDropped
<1> SUFFICES ASSUME status = "rejected", Len(read) > 1, Numeral!AppendAll(Numeral!NewParser, read).ok,
                    Numeral!Last(read) \in {Comma, Point},
                    Numeral!Parse(Numeral!Front(read)).ok
             PROVE  Numeral!Render(parser.total)
                    = Numeral!Render(Numeral!Parse(Numeral!Front(read)).p.total)
  BY DEF Numeral!SeparatorDropped, Comma, Point, Numeral!Comma, Numeral!Point
<1> DEFINE s == Numeral!Front(read)
           c == Numeral!Last(read)
<1>1. read \in Seq(Characters) /\ Len(read) \in Nat
  BY InputsAre, SeqOfMore, LenProperties DEF Numeral!TypeOK
<1>2. s \in Seq(Characters) /\ c \in {Comma, Point} /\ read = Append(s, c) /\ c \in Characters
  <2>1. s = SubSeq(read, 1, Len(read) - 1) /\ c = read[Len(read)]
    BY DEF Numeral!Front, Numeral!Last
  <2>2. /\ s \in Seq(Characters) /\ Len(s) = Len(read) - 1
        /\ \A k \in 1 .. Len(read) - 1 : s[k] = read[k]
    BY <1>1, <2>1, SubSeqProperties
  <2>3. c \in Characters
    BY DEF Characters
  <2> HIDE DEF s, c
  <2>4. /\ Append(s, c) \in Seq(Characters) /\ Len(Append(s, c)) = Len(read)
        /\ \A k \in 1 .. Len(read) : Append(s, c)[k] = read[k]
    BY <1>1, <2>1, <2>2, <2>3, AppendProperties
  <2>5. Append(s, c) = read
    BY <1>1, <2>4, SeqEqual
  <2> QED BY <2>2, <2>3, <2>5 DEF c
<1> HIDE DEF s, c
<1>3. Answered(read).ok /\ Ending(read) = InPlace!Done(Answered(read).p)
  BY AllSame, NumeralSame DEF Answered, Ending
<1>4. parser = InPlace!Done(Answered(read).p).p
  BY <1>3 DEF ParserReadSo
<1>5. /\ Answered(s).p \in Parser /\ Answered(s).ok \in BOOLEAN
      /\ Answered(read) = IF Answered(s).ok THEN InPlace!AppendChar(Answered(s).p, c) ELSE Answered(s)
  BY <1>2, AnsweredGrows
<1>6. Answered(s).ok /\ Answered(read) = InPlace!AppendChar(Answered(s).p, c)
  BY <1>3, <1>5
<1>7. Numeral!Parse(s) = InPlace!Done(Answered(s).p)
  BY <1>6, AllSame, NumeralSame DEF Numeral!Parse, Answered
<1> DEFINE q == Answered(s).p
<1>8. q \in Parser /\ InPlace!AppendChar(q, c).ok
  BY <1>3, <1>5, <1>6
<1> HIDE DEF q
<1>9. InPlace!Render(InPlace!Done(InPlace!AppendChar(q, c).p).p.total)
      = InPlace!Render(InPlace!Done(q).p.total)
  BY <1>2, <1>8, SeparatorKeepsNumber
<1> QED BY <1>4, <1>6, <1>7, <1>9, RenderSame DEF s, q

-----------------------------------------------------------------------------
(* Digits and commas                                                        *)

LEMMA ByFours ==
    /\ \A x \in Nat : (x + 4) % 4 = x % 4
    /\ \A x \in Nat : (x + 3) % 4 = 3 <=> x % 4 = 0
    /\ \A x \in Nat : x < 4 => x % 4 = x
BY SMTT(30)

LEMMA CharsSame ==
    /\ Numeral!Digits = Digits /\ Numeral!SmallUnits = SmallUnits /\ Numeral!BigUnits = BigUnits
    /\ Numeral!Comma = Comma /\ Numeral!Point = Point /\ Numeral!Other = Other
BY DEF Numeral!Digits, Digits, Numeral!SmallUnits, SmallUnits, Numeral!BigUnits, BigUnits,
       Numeral!Comma, Comma, Numeral!Point, Point, Numeral!Other, Other

LEMMA DigitAnswers ==
    ASSUME NEW q, NEW c \in Digits
    PROVE  InPlace!AppendChar(q, c) = InPlace!AppendNumeral(q, c)
BY DEF InPlace!AppendChar, InPlace!Comma, InPlace!Point, InPlace!SmallUnits, InPlace!BigUnits,
       InPlace!Digits, InPlace!Other, Digits

CommaAt(s) == {h \in 1 .. Len(s) : s[h] = Comma}
OfDigits(s) == \A h \in 1 .. Len(s) : s[h] \in Digits \cup {Comma}

\* The parser of a string of digits and commas: since the last comma it has
\* counted the digits, and every comma before that stands four places before
\* the next.
CommasRead(q, s) ==
    /\ ~q.hasHangingPoint /\ q.err = "none"
    /\ q.total.digits = <<>> /\ q.subtotal.digits = <<>>
    /\ (q.tmp.digits = <<>> <=> Len(s) = 0) /\ (q.isFirstDigit <=> Len(s) = 0)
    /\ ~q.hasComma => /\ CommaAt(s) = {} /\ q.digitLen = Len(s)
                      /\ q.tmp.allZero <=> \A h \in 1 .. Len(s) : s[h] = 0
    /\ q.hasComma =>
          LET last == Len(s) - q.digitLen
          IN  /\ last \in CommaAt(s) /\ 1 \notin CommaAt(s)
              /\ CommaAt(s) = {h \in 1 .. last : (last - h) % 4 = 0}
              /\ \E j \in 1 .. Len(s) : s[j] # 0 /\ \A h \in CommaAt(s) : j < h

LEMMA CommasReadNew == CommasRead(InPlace!NewParser, <<>>)
BY DEF CommasRead, InPlace!NewParser, InPlace!NewDecimal, CommaAt

LEMMA CommasReadDigit ==
    ASSUME NEW q \in Parser, NEW s \in Seq(Characters), NEW c \in Digits, CommasRead(q, s)
    PROVE  CommasRead(InPlace!AppendChar(q, c).p, Append(s, c))
<1> DEFINE r == InPlace!AppendChar(q, c).p
           t == Append(s, c)
           n == Len(s)
<1>1. /\ n \in Nat /\ Len(t) = n + 1 /\ t[n + 1] = c /\ \A h \in 1 .. n : t[h] = s[h]
  BY AppendProperties, LenProperties
<1>2. c \in 0 .. 9 /\ c # Comma
  BY DEF Digits, Comma
<1>3. r = [q EXCEPT !.tmp = InPlace!AppendDigit(@, c), !.isFirstDigit = FALSE,
                    !.digitLen = @ + 1, !.hasHangingPoint = FALSE]
  <2>1. InPlace!AppendChar(q, c) = InPlace!AppendNumeral(q, c)
    BY DigitAnswers
  <2> QED BY <2>1 DEF InPlace!AppendNumeral, InPlace!Yes
<1>4. /\ r.hasHangingPoint = FALSE /\ r.err = q.err /\ r.total = q.total /\ r.subtotal = q.subtotal
      /\ r.isFirstDigit = FALSE /\ r.digitLen = q.digitLen + 1 /\ r.hasComma = q.hasComma
      /\ r.tmp = InPlace!AppendDigit(q.tmp, c)
  BY <1>3 DEF Parser
<1>5. r.tmp.digits = Append(q.tmp.digits, c) /\ r.tmp.allZero = (q.tmp.allZero /\ c = 0)
  BY <1>4 DEF InPlace!AppendDigit, Parser, Decimal
<1>6. r.tmp.digits # <<>>
  BY <1>5, SMTT(30) DEF Parser, Decimal
<1>7. CommaAt(t) = CommaAt(s)
  BY <1>1, <1>2 DEF CommaAt
<1>8. q.digitLen \in Nat
  BY DEF Parser
<1> HIDE DEF r, t, n
<1>9. CASE ~q.hasComma
  <2>1. /\ CommaAt(s) = {} /\ q.digitLen = n
        /\ q.tmp.allZero <=> \A h \in 1 .. n : s[h] = 0
    BY <1>9 DEF CommasRead, n
  <2>2. r.tmp.allZero <=> \A h \in 1 .. n + 1 : t[h] = 0
    <3>1. q.tmp.allZero \in BOOLEAN /\ r.tmp.allZero = (q.tmp.allZero /\ c = 0)
      BY <1>5 DEF Parser, Decimal
    <3>2. (\A h \in 1 .. n + 1 : t[h] = 0) <=> (\A h \in 1 .. n : s[h] = 0) /\ c = 0
      BY <1>1
    <3> QED BY <2>1, <3>1, <3>2
  <2> QED BY <1>1, <1>4, <1>6, <1>7, <1>9, <2>1, <2>2 DEF CommasRead, r, t
<1>10. CASE q.hasComma
  <2>1. n - q.digitLen = (n + 1) - (q.digitLen + 1)
    BY <1>1, <1>8
  <2>2. /\ n - q.digitLen \in CommaAt(s) /\ 1 \notin CommaAt(s)
        /\ CommaAt(s) = {h \in 1 .. n - q.digitLen : (n - q.digitLen - h) % 4 = 0}
        /\ \E j \in 1 .. n : s[j] # 0 /\ \A h \in CommaAt(s) : j < h
    BY <1>10 DEF CommasRead, n
  <2>3. \E j \in 1 .. n + 1 : t[j] # 0 /\ \A h \in CommaAt(t) : j < h
    BY <1>1, <1>7, <2>2
  <2> DEFINE last == n - q.digitLen
  <2>4. Len(t) - r.digitLen = last
    BY <1>1, <1>4, <2>1
  <2>5. /\ last \in CommaAt(t) /\ 1 \notin CommaAt(t)
        /\ CommaAt(t) = {h \in 1 .. last : (last - h) % 4 = 0}
    BY <1>7, <2>2
  <2> HIDE DEF last
  <2>6. r.hasComma /\ r.isFirstDigit = FALSE /\ Len(t) # 0
    BY <1>1, <1>4, <1>10
  <2>7. /\ ~r.hasHangingPoint /\ r.err = "none" /\ r.total.digits = <<>> /\ r.subtotal.digits = <<>>
    BY <1>4 DEF CommasRead
  <2> QED BY <1>1, <1>6, <2>3, <2>4, <2>5, <2>6, <2>7 DEF CommasRead, r, t
<1> QED BY <1>9, <1>10

LEMMA CommasReadComma ==
    ASSUME NEW q \in Parser, NEW s \in Seq(Characters), CommasRead(q, s), OfDigits(s),
           InPlace!AppendChar(q, Comma).ok
    PROVE  CommasRead(InPlace!AppendChar(q, Comma).p, Append(s, Comma))
<1> DEFINE r == InPlace!AppendChar(q, Comma).p
           t == Append(s, Comma)
           n == Len(s)
<1>1. /\ n \in Nat /\ Len(t) = n + 1 /\ t[n + 1] = Comma /\ \A h \in 1 .. n : t[h] = s[h]
  BY AppendProperties, LenProperties
<1>2. InPlace!CheckComma(q) /\ r = [q EXCEPT !.hasComma = TRUE, !.digitLen = 0]
  <2>1. InPlace!AppendChar(q, Comma) = InPlace!AppendComma(q)
    BY SeparatorAnswers
  <2>2. InPlace!CheckComma(q)
    BY <2>1 DEF InPlace!AppendComma, InPlace!NoFor, InPlace!No
  <2> QED BY <2>1, <2>2 DEF InPlace!AppendComma, InPlace!Yes
<1>3. /\ r.hasHangingPoint = q.hasHangingPoint /\ r.err = q.err /\ r.total = q.total
      /\ r.subtotal = q.subtotal /\ r.isFirstDigit = q.isFirstDigit /\ r.digitLen = 0
      /\ r.hasComma = TRUE /\ r.tmp = q.tmp
  BY <1>2 DEF Parser
<1>4. n # 0 /\ ~q.isFirstDigit
  BY <1>2 DEF InPlace!CheckComma, CommasRead
<1>5. CommaAt(t) = CommaAt(s) \cup {n + 1}
  BY <1>1 DEF CommaAt
<1>6. CommaAt(s) \subseteq 1 .. n
  BY DEF CommaAt
<1> HIDE DEF r, t, n
<1>7. /\ CommaAt(t) = {h \in 1 .. n + 1 : (n + 1 - h) % 4 = 0} /\ 1 \notin CommaAt(t)
      /\ \E j \in 1 .. n + 1 : t[j] # 0 /\ \A h \in CommaAt(t) : j < h
  <2>1. CASE q.hasComma
    <3>1. q.digitLen = 3
      BY <1>2, <2>1 DEF InPlace!CheckComma
    <3>2. /\ n - 3 \in CommaAt(s) /\ 1 \notin CommaAt(s)
          /\ CommaAt(s) = {h \in 1 .. n - 3 : (n - 3 - h) % 4 = 0}
          /\ \E j \in 1 .. n : s[j] # 0 /\ \A h \in CommaAt(s) : j < h
      BY <2>1, <3>1 DEF CommasRead, n
    <3>3. \A h \in 1 .. n - 3 : (n + 1 - h) % 4 = (n - 3 - h) % 4
      <4> TAKE h \in 1 .. n - 3
      <4>1. n - 3 - h \in Nat /\ n + 1 - h = (n - 3 - h) + 4
        BY <1>1
      <4> QED BY <4>1, ByFours
    <3>4. \A h \in n - 2 .. n : (n + 1 - h) % 4 # 0
      <4> TAKE h \in n - 2 .. n
      <4>1. n + 1 - h \in 1 .. 3
        BY <1>1
      <4> QED BY <4>1, ByFours
    <3>5. (n + 1 - (n + 1)) % 4 = 0
      <4>1. n + 1 - (n + 1) = 0
        BY <1>1
      <4> QED BY <4>1, ByFours
    <3>6. \A h \in 1 .. n + 1 : h \in CommaAt(t) <=> (n + 1 - h) % 4 = 0
      <4> TAKE h \in 1 .. n + 1
      <4>1. CASE h \in 1 .. n - 3
        <5>1. h # n + 1
          BY <1>1, <4>1
        <5> QED BY <1>5, <3>2, <3>3, <4>1, <5>1
      <4>2. CASE h \in n - 2 .. n
        <5>1. h # n + 1 /\ h \notin 1 .. n - 3
          BY <1>1, <4>2
        <5> QED BY <1>5, <3>2, <3>4, <4>2, <5>1
      <4>3. CASE h = n + 1
        BY <1>5, <3>5, <4>3
      <4> QED BY <1>1, <4>1, <4>2, <4>3
    <3>7. CommaAt(t) \subseteq 1 .. n + 1
      BY <1>1, <1>5, <1>6
    <3>8. 1 \notin CommaAt(t)
      BY <1>1, <1>4, <1>5, <3>2
    <3>9. \E j \in 1 .. n + 1 : t[j] # 0 /\ \A h \in CommaAt(t) : j < h
      <4>1. PICK j \in 1 .. n : s[j] # 0 /\ \A h \in CommaAt(s) : j < h
        BY <3>2
      <4> QED BY <1>1, <1>5, <4>1
    <3> QED BY <3>6, <3>7, <3>8, <3>9
  <2>2. CASE ~q.hasComma
    <3>1. /\ CommaAt(s) = {} /\ n <= 3 /\ ~q.tmp.allZero
          /\ q.tmp.allZero <=> \A h \in 1 .. n : s[h] = 0
      BY <1>2, <2>2 DEF CommasRead, n, InPlace!CheckComma
    <3>2. \A h \in 1 .. n + 1 : (n + 1 - h) % 4 = 0 <=> h = n + 1
      <4> TAKE h \in 1 .. n + 1
      <4>1. n + 1 - h \in 0 .. 3
        BY <1>1, <3>1
      <4>2. (n + 1 - h) % 4 = n + 1 - h
        BY <4>1, ByFours
      <4> QED BY <1>1, <4>2
    <3>3. CommaAt(t) = {n + 1}
      BY <1>5, <3>1
    <3>4. \E j \in 1 .. n : s[j] # 0
      BY <3>1
    <3>5. CommaAt(t) = {h \in 1 .. n + 1 : (n + 1 - h) % 4 = 0}
      <4>1. n + 1 \in 1 .. n + 1
        BY <1>1
      <4>2. \A h \in 1 .. n + 1 : (n + 1 - h) % 4 = 0 <=> h \in {n + 1}
        BY <3>2
      <4> QED BY <3>3, <4>1, <4>2, Zenon
    <3>6. 1 \notin CommaAt(t)
      BY <1>1, <1>4, <3>3
    <3>7. \E j \in 1 .. n + 1 : t[j] # 0 /\ \A h \in CommaAt(t) : j < h
      BY <1>1, <3>3, <3>4
    <3> QED BY <3>5, <3>6, <3>7
  <2> QED BY <2>1, <2>2
<1>8. Len(t) - r.digitLen = n + 1 /\ n + 1 \in CommaAt(t)
  BY <1>1, <1>3, <1>5
<1>9. /\ ~r.hasHangingPoint /\ r.err = "none" /\ r.total.digits = <<>> /\ r.subtotal.digits = <<>>
      /\ r.tmp.digits # <<>> /\ r.isFirstDigit = FALSE /\ r.hasComma
  BY <1>3, <1>4 DEF CommasRead, Parser, n
<1>10. /\ CommaAt(t) = {h \in 1 .. Len(t) - r.digitLen : (Len(t) - r.digitLen - h) % 4 = 0}
       /\ Len(t) # 0
  BY <1>1, <1>7, <1>8
<1> QED BY <1>1, <1>7, <1>8, <1>9, <1>10 DEF CommasRead, r, t

\* What done says of the last group.
LEMMA CommasDone ==
    ASSUME NEW q \in Parser, NEW s \in Seq(Characters), CommasRead(q, s), s # <<>>
    PROVE  InPlace!Done(q).ok <=> ~q.hasComma \/ q.digitLen = 3
<1>1. /\ q.tmp.digits # <<>> /\ q.subtotal.digits = <<>> /\ q.total.digits = <<>>
      /\ ~q.hasHangingPoint /\ q.err = "none"
  BY EmptySeq, LenProperties DEF CommasRead
<1> DEFINE sub == InPlace!Add(q.subtotal, q.tmp)
           sum == InPlace!Add(q.total, sub)
           r == [q EXCEPT !.subtotal = sub, !.total = sum]
<1>2. InPlace!IsZero(q.subtotal) /\ InPlace!IsZero(q.total) /\ ~InPlace!IsZero(q.tmp)
  BY <1>1 DEF InPlace!IsZero
<1>3. InPlace!Fits(q.subtotal, q.tmp) /\ InPlace!Fits(q.total, sub)
  BY <1>2 DEF InPlace!Fits
<1>4. sub.digits = q.tmp.digits
  BY <1>2 DEF InPlace!Add, Parser, Decimal
<1>5. sub \in Decimal
  BY SumDecimal DEF Parser
<1>6. ~InPlace!IsZero(sub)
  BY <1>1, <1>4 DEF InPlace!IsZero
<1> HIDE DEF sub
<1>7. sum.digits = sub.digits
  BY <1>2, <1>5, <1>6 DEF InPlace!Add, Decimal
<1>8. ~InPlace!IsZero(sum)
  BY <1>6, <1>7 DEF InPlace!IsZero
<1> HIDE DEF sum
<1>9. r.total = sum
  BY DEF Parser
<1>10. /\ sub = InPlace!Add(q.subtotal, q.tmp) /\ sum = InPlace!Add(q.total, sub)
  BY DEF sub, sum
<1>11. [q EXCEPT !.subtotal = sub, !.total = IF InPlace!Fits(q.subtotal, q.tmp)
                                             THEN InPlace!Add(@, sub) ELSE @] = r
  BY <1>3, <1>10
<1> HIDE DEF r
<1>12. InPlace!Done(q) = IF q.hasComma /\ q.digitLen # 3 THEN InPlace!NoFor("comma", r)
                         ELSE [ok |-> TRUE, p |-> r]
  <2>1. InPlace!Done(q) =
          IF q.hasHangingPoint THEN InPlace!NoFor("point", r)
          ELSE IF q.hasComma /\ q.digitLen # 3 THEN InPlace!NoFor("comma", r)
          ELSE [ok |-> /\ InPlace!Fits(q.subtotal, q.tmp) /\ InPlace!Fits(q.total, sub)
                       /\ q.err = "none" /\ ~InPlace!IsZero(r.total), p |-> r]
    BY <1>10, <1>11 DEF InPlace!Done
  <2>2. (/\ InPlace!Fits(q.subtotal, q.tmp) /\ InPlace!Fits(q.total, sub)
         /\ q.err = "none" /\ ~InPlace!IsZero(r.total)) = TRUE
    BY <1>1, <1>3, <1>8, <1>9
  <2> QED BY <1>1, <2>1, <2>2
<1> QED BY <1>12 DEF InPlace!NoFor, InPlace!No

\* The commas of a string stand before every third digit from the end, behind
\* a number that is not 0.
CommasGrouped(s) ==
    /\ CommaAt(s) = {h \in 1 .. Len(s) : (Len(s) - h) % 4 = 3} /\ 1 \notin CommaAt(s)
    /\ \E j \in 1 .. Len(s) : s[j] # 0 /\ \A h \in CommaAt(s) : j < h

\* A string is grouped by threes exactly if its last group has three digits.
LEMMA GroupedIf ==
    ASSUME NEW q \in Parser, NEW s \in Seq(Characters), CommasRead(q, s), q.hasComma
    PROVE  q.digitLen = 3 <=> CommasGrouped(s)
<1> DEFINE n == Len(s)
           last == n - q.digitLen
<1>1. n \in Nat /\ q.digitLen \in Nat
  BY LenProperties DEF Parser
<1>2. /\ last \in CommaAt(s) /\ 1 \notin CommaAt(s)
      /\ CommaAt(s) = {h \in 1 .. last : (last - h) % 4 = 0}
      /\ \E j \in 1 .. n : s[j] # 0 /\ \A h \in CommaAt(s) : j < h
  BY DEF CommasRead
<1> HIDE DEF n
<1>3. last \in 1 .. n
  BY <1>1, <1>2
<1>4. ASSUME q.digitLen = 3 PROVE CommasGrouped(s)
  <2>1. \A h \in 1 .. n : h \in CommaAt(s) <=> (n - h) % 4 = 3
    <3> TAKE h \in 1 .. n
    <3>1. CASE h <= n - 3
      <4>1. n - 3 - h \in Nat /\ n - h = (n - 3 - h) + 3 /\ h \in 1 .. n - 3
        BY <1>1, <3>1
      <4>2. (n - h) % 4 = 3 <=> (n - 3 - h) % 4 = 0
        BY <4>1, ByFours
      <4> QED BY <1>2, <1>4, <4>1, <4>2
    <3>2. CASE ~(h <= n - 3)
      <4>1. n - h \in 0 .. 2 /\ h \notin 1 .. n - 3
        BY <1>1, <3>2
      <4>2. (n - h) % 4 # 3
        BY <4>1, ByFours
      <4> QED BY <1>2, <1>4, <4>1, <4>2
    <3> QED BY <3>1, <3>2
  <2>2. CommaAt(s) \subseteq 1 .. n
    BY DEF CommaAt, n
  <2>3. CommaAt(s) = {h \in 1 .. n : (n - h) % 4 = 3}
    BY <2>1, <2>2
  <2> QED BY <1>2, <2>3 DEF CommasGrouped, n
<1>5. ASSUME CommasGrouped(s) PROVE q.digitLen = 3
  <2>1. CommaAt(s) = {h \in 1 .. n : (n - h) % 4 = 3}
    BY <1>5 DEF CommasGrouped, n
  <2>2. (n - last) % 4 = 3 /\ n - last = q.digitLen
    BY <1>1, <1>2, <2>1
  <2>3. ~(q.digitLen < 3)
    <3>1. q.digitLen < 4 => q.digitLen % 4 = q.digitLen
      BY <1>1, ByFours
    <3> QED BY <1>1, <2>2, <3>1
  <2>4. ~(q.digitLen > 3)
    <3> SUFFICES ASSUME q.digitLen > 3 PROVE FALSE
      OBVIOUS
    <3>1. n - 3 \in 1 .. n /\ n - (n - 3) = 3 /\ n - 3 > last
      BY <1>1, <1>3
    <3>2. 3 % 4 = 3
      BY ByFours
    <3>3. n - 3 \in CommaAt(s)
      BY <2>1, <3>1, <3>2
    <3>4. n - 3 \in 1 .. last
      BY <1>2, <3>3
    <3> QED BY <1>1, <3>1, <3>4
  <2> QED BY <1>1, <2>3, <2>4
<1> QED BY <1>4, <1>5

\* CommasByThrees says so of what has been read.
LEMMA ByThreesIf ==
    ASSUME read \in Seq(Characters),
           OfDigits(read) /\ read # <<>> =>
               /\ status = "accepted" => CommaAt(read) = {} \/ CommasGrouped(read)
               /\ status = "rejected" => CommaAt(read) # {} /\ ~CommasGrouped(read)
    PROVE  Numeral!CommasByThrees
<1> DEFINE commas == Numeral!At(read, {Numeral!Comma})
           grouped == /\ commas = {h \in DOMAIN read : (Len(read) - h) % 4 = 3} /\ 1 \notin commas
                      /\ \E h \in 1 .. Numeral!Min(commas) - 1 : read[h] # 0
<1>1. DOMAIN read = 1 .. Len(read) /\ Len(read) \in Nat
  BY LenProperties
<1>2. commas = CommaAt(read)
  BY <1>1, CharsSame DEF CommaAt, Numeral!At
<1>3. ASSUME Numeral!At(read, Numeral!Digits) \cup commas = DOMAIN read PROVE OfDigits(read)
  BY <1>1, <1>2, <1>3, CharsSame DEF Numeral!At, OfDigits, CommaAt
<1>4. ASSUME commas # {} PROVE grouped <=> CommasGrouped(read)
  <2> DEFINE m == Numeral!Min(commas)
  <2>1. PICK k \in commas : \A h \in commas : k <= h
    <3>1. commas \in SUBSET Nat
      <4>1. CommaAt(read) \in SUBSET (1 .. Len(read))
        BY DEF CommaAt
      <4> HIDE DEF commas
      <4> QED BY <1>1, <1>2, <4>1
    <3> HIDE DEF commas
    <3> QED BY <1>4, <3>1, Least
  <2>2. k \in 1 .. Len(read)
    BY <1>2, <2>1 DEF CommaAt
  <2>3. m \in commas /\ \A h \in commas : m <= h
    BY <2>1 DEF Numeral!Min
  <2>4. m \in 1 .. Len(read)
    BY <1>2, <2>3 DEF CommaAt
  <2> HIDE DEF m
  <2>5. \A h \in commas : h \in 1 .. Len(read)
    BY <1>2 DEF CommaAt
  <2>6. (\E h \in 1 .. m - 1 : read[h] # 0) <=>
        \E j \in 1 .. Len(read) : read[j] # 0 /\ \A h \in commas : j < h
    <3> HIDE DEF commas
    <3>1. ASSUME NEW h \in 1 .. m - 1, read[h] # 0
          PROVE  \E j \in 1 .. Len(read) : read[j] # 0 /\ \A x \in commas : j < x
      BY <1>1, <2>3, <2>4, <2>5, <3>1
    <3>2. ASSUME NEW j \in 1 .. Len(read), read[j] # 0, \A x \in commas : j < x
          PROVE  \E h \in 1 .. m - 1 : read[h] # 0
      BY <1>1, <2>3, <2>4, <3>2
    <3> QED BY <3>1, <3>2
  <2> HIDE DEF commas
  <2> QED BY <1>1, <1>2, <2>6 DEF CommasGrouped, m
<1>5. Numeral!CommasByThrees <=>
        ((read # <<>> /\ Numeral!At(read, Numeral!Digits) \cup commas = DOMAIN read) =>
            /\ status = "accepted" => commas = {} \/ grouped
            /\ status = "rejected" => commas # {} /\ ~grouped)
  BY DEF Numeral!CommasByThrees
<1> HIDE DEF commas, grouped
<1>6. ASSUME read # <<>>, Numeral!At(read, Numeral!Digits) \cup commas = DOMAIN read
      PROVE  /\ status = "accepted" => commas = {} \/ grouped
             /\ status = "rejected" => commas # {} /\ ~grouped
  <2>1. OfDigits(read)
    BY <1>3, <1>6
  <2> QED BY <1>2, <1>4, <1>6, <2>1
<1> QED BY <1>5, <1>6

\* Strings of digits and commas are read so, and answered by the places of the
\* commas.
CommasReadSo ==
    /\ status = "reading" /\ OfDigits(read) => CommasRead(parser, read)
    /\ OfDigits(read) /\ read # <<>> =>
           /\ status = "accepted" => CommaAt(read) = {} \/ CommasGrouped(read)
           /\ status = "rejected" => CommaAt(read) # {} /\ ~CommasGrouped(read)

LEMMA CommasReadSoKept ==
    ASSUME Numeral!InputsAssumption
    PROVE  /\ Numeral!Init => CommasReadSo
           /\ Numeral!TypeOK /\ CommasReadSo /\ [Numeral!Next]_(Numeral!vars) => CommasReadSo'
<1>1. ASSUME Numeral!Init PROVE CommasReadSo
  BY <1>1, NumeralSame, CommasReadNew DEF Numeral!Init, CommasReadSo
<1>2. ASSUME Numeral!TypeOK, CommasReadSo, NEW c \in Inputs, Numeral!Feed(c) PROVE CommasReadSo'
  <2>1. read \in Seq(Characters) /\ c \in Characters /\ parser \in Parser
    BY <1>2, InputsAre, SeqOfMore, NumeralSame DEF Numeral!TypeOK
  <2> DEFINE t == Append(read, c)
             r == InPlace!AppendChar(parser, c)
  <2>2. /\ status = "reading" /\ read' = t /\ parser' = r.p
        /\ status' = IF r.ok THEN "reading" ELSE "rejected"
    BY <1>2, NumeralSame DEF Numeral!Feed
  <2>3. /\ Len(read) \in Nat /\ Len(t) = Len(read) + 1 /\ t[Len(read) + 1] = c
        /\ \A h \in 1 .. Len(read) : t[h] = read[h]
    BY <2>1, AppendProperties, LenProperties
  <2>4. CommasReadSo' <=>
          /\ status' = "reading" /\ OfDigits(t) => CommasRead(r.p, t)
          /\ OfDigits(t) /\ t # <<>> =>
                /\ status' = "accepted" => CommaAt(t) = {} \/ CommasGrouped(t)
                /\ status' = "rejected" => CommaAt(t) # {} /\ ~CommasGrouped(t)
    BY <2>2 DEF CommasReadSo, OfDigits, CommasRead, CommasGrouped, CommaAt
  <2> SUFFICES ASSUME OfDigits(t)
               PROVE  IF r.ok THEN CommasRead(r.p, t) ELSE CommaAt(t) # {} /\ ~CommasGrouped(t)
    BY <2>2, <2>4
  <2> HIDE DEF t
  <2>5. OfDigits(read) /\ c \in Digits \cup {Comma}
    BY <2>3 DEF OfDigits
  <2>6. CommasRead(parser, read)
    BY <1>2, <2>2, <2>5 DEF CommasReadSo
  <2>7. CASE c \in Digits
    <3>1. r.ok
      <4>1. r = InPlace!AppendNumeral(parser, c)
        BY <2>7, DigitAnswers
      <4> HIDE DEF r
      <4> QED BY <4>1 DEF InPlace!AppendNumeral, InPlace!Yes
    <3> QED BY <2>1, <2>6, <2>7, <3>1, CommasReadDigit DEF t
  <2>8. CASE c = Comma
    <3>1. CASE r.ok
      BY <2>1, <2>5, <2>6, <2>8, <3>1, CommasReadComma DEF t
    <3>2. CASE ~r.ok
      <4>1. Len(t) \in CommaAt(t) /\ Len(t) - Len(t) = 0
        BY <2>3, <2>8 DEF CommaAt
      <4>2. 0 % 4 # 3
        BY ByFours
      <4>3. ~CommasGrouped(t)
        BY <4>1, <4>2 DEF CommasGrouped
      <4> QED BY <3>2, <4>1, <4>3
    <3> QED BY <3>1, <3>2
  <2> QED BY <2>5, <2>7, <2>8
<1>3. ASSUME Numeral!TypeOK, CommasReadSo, Numeral!Finish PROVE CommasReadSo'
  <2>1. read \in Seq(Characters) /\ parser \in Parser
    BY <1>3, InputsAre, SeqOfMore, NumeralSame DEF Numeral!TypeOK
  <2>2. /\ status = "reading" /\ read' = read
        /\ status' = IF InPlace!Done(parser).ok THEN "accepted" ELSE "rejected"
    BY <1>3, NumeralSame DEF Numeral!Finish
  <2>3. CommasReadSo' <=>
          (OfDigits(read) /\ read # <<>> =>
                /\ status' = "accepted" => CommaAt(read) = {} \/ CommasGrouped(read)
                /\ status' = "rejected" => CommaAt(read) # {} /\ ~CommasGrouped(read))
    BY <2>2 DEF CommasReadSo, OfDigits, CommasGrouped, CommaAt
  <2> SUFFICES ASSUME OfDigits(read), read # <<>>
               PROVE  IF InPlace!Done(parser).ok THEN CommaAt(read) = {} \/ CommasGrouped(read)
                      ELSE CommaAt(read) # {} /\ ~CommasGrouped(read)
    BY <2>2, <2>3
  <2>4. CommasRead(parser, read)
    BY <1>3, <2>2 DEF CommasReadSo
  <2>5. InPlace!Done(parser).ok <=> ~parser.hasComma \/ parser.digitLen = 3
    BY <2>1, <2>4, CommasDone
  <2>6. CASE parser.hasComma
    <3>1. parser.digitLen = 3 <=> CommasGrouped(read)
      BY <2>1, <2>4, <2>6, GroupedIf
    <3>2. CommaAt(read) # {}
      BY <2>4, <2>6 DEF CommasRead
    <3> QED BY <2>5, <2>6, <3>1, <3>2
  <2>7. CASE ~parser.hasComma
    BY <2>4, <2>5, <2>7 DEF CommasRead
  <2> QED BY <2>6, <2>7
<1>4. ASSUME CommasReadSo, UNCHANGED Numeral!vars PROVE CommasReadSo'
  BY <1>4, SMTT(30) DEF Numeral!vars, CommasReadSo, OfDigits, CommasRead, CommasGrouped, CommaAt
<1> QED BY <1>1, <1>2, <1>3, <1>4 DEF Numeral!Next

-----------------------------------------------------------------------------
(* The figures of a decimal: its digits, each with the power of ten it      *)
(* counts. Its first digit counts the power below its base.                  *)

Base(d) == (IF d.point >= 0 THEN d.point ELSE Len(d.digits)) + d.scale
FigureAt(d, k) == <<Base(d) - k, d.digits[k]>>
DecimalFigures(d) == {FigureAt(d, k) : k \in 1 .. Len(d.digits)}

\* A decimal as the parser makes them: a point stands behind a digit.
Pointed(d) == d \in Decimal /\ d.point # 0 /\ d.point <= Len(d.digits)

\* d is made of the figures T and, between them, of zeros.
Stands(d, T) ==
    /\ T \subseteq DecimalFigures(d)
    /\ \A f \in DecimalFigures(d) : f[2] # 0 => f \in T
    /\ d.digits # <<>> => FigureAt(d, 1) \in T /\ FigureAt(d, Len(d.digits)) \in T

Raised(T, e) == {<<t[1] + e, t[2]>> : t \in T}

LEMMA PointedFields ==
    ASSUME NEW d, Pointed(d)
    PROVE  /\ d.digits \in Seq(Digits) /\ Len(d.digits) \in Nat /\ d.scale \in Nat
           /\ d.point \in {-1} \cup Nat /\ d.allZero \in BOOLEAN
           /\ d.digits # <<>> <=> Len(d.digits) >= 1
           /\ d.point = -1 \/ (d.point >= 1 /\ d.point <= Len(d.digits))
           /\ Base(d) \in Nat /\ (d.digits # <<>> => Base(d) >= 1)
<1>1. /\ d.digits \in Seq(Digits) /\ Len(d.digits) \in Nat /\ d.scale \in Nat
      /\ d.point \in {-1} \cup Nat /\ d.allZero \in BOOLEAN /\ d.point # 0
      /\ d.point <= Len(d.digits)
  BY LenProperties DEF Pointed, Decimal
<1>2. d.digits # <<>> <=> Len(d.digits) >= 1
  BY <1>1, EmptySeq
<1> QED BY <1>1, <1>2 DEF Base

\* What a decimal stands for are its digits, its base, and no more.
LEMMA StandsSame ==
    ASSUME NEW d, NEW e, e.digits = d.digits, Base(e) = Base(d), NEW T
    PROVE  Stands(e, T) <=> Stands(d, T)
BY DEF Stands, DecimalFigures, FigureAt

LEMMA StandsForNone ==
    ASSUME NEW d, Pointed(d), NEW T, Stands(d, T)
    PROVE  T = {} <=> InPlace!IsZero(d)
<1>1. CASE d.digits = <<>>
  <2>1. Len(d.digits) = 0
    BY <1>1
  <2> QED BY <1>1, <2>1 DEF Stands, DecimalFigures, InPlace!IsZero
<1>2. CASE d.digits # <<>>
  BY <1>2 DEF Stands, InPlace!IsZero
<1> QED BY <1>1, <1>2

LEMMA NormalBase ==
    ASSUME NEW d, Pointed(d), NEW n, n = InPlace!NormalizeScale(d)
    PROVE  /\ Pointed(n) /\ n.digits = d.digits /\ Base(n) = Base(d)
           /\ InPlace!IntLength(n) = Base(d) /\ n.allZero = d.allZero
           /\ n.point = -1 \/ (n.scale = 0 /\ n.point >= 1 /\ n.point < Len(n.digits))
<1> DEFINE fraction == Len(d.digits) - d.point
<1>1. /\ d \in Decimal /\ d.digits \in Seq(Digits) /\ Len(d.digits) \in Nat /\ d.scale \in Nat
      /\ d.point \in {-1} \cup Nat
      /\ d.point = -1 \/ (d.point >= 1 /\ d.point <= Len(d.digits))
  BY PointedFields DEF Pointed
<1>2. n \in Decimal /\ n.digits = d.digits
  BY <1>1, NormalizedDecimal
<1>3. CASE d.point < 0
  <2>1. n = d
    BY <1>3 DEF InPlace!NormalizeScale
  <2>2. d.point = -1
    BY <1>1, <1>3
  <2>3. InPlace!IntLength(d) = Base(d)
    BY <1>1, <2>2 DEF InPlace!IntLength, Base
  <2> QED BY <2>1, <2>2, <2>3
<1>4. CASE d.point >= 0 /\ fraction > d.scale
  <2>1. n = [d EXCEPT !.point = d.point + d.scale, !.scale = 0]
    BY <1>1, <1>4 DEF InPlace!NormalizeScale
  <2>2. n.point = d.point + d.scale /\ n.scale = 0 /\ n.allZero = d.allZero
    BY <2>1 DEF Decimal
  <2>3. n.point >= 1 /\ n.point < Len(n.digits)
    BY <1>1, <1>2, <1>4, <2>2
  <2>4. Pointed(n)
    BY <1>1, <1>2, <2>2, <2>3 DEF Pointed
  <2>5. Base(n) = n.point /\ Base(d) = n.point /\ InPlace!IntLength(n) = n.point
    BY <1>1, <1>4, <2>2, <2>3 DEF Base, InPlace!IntLength
  <2> QED BY <1>2, <2>2, <2>3, <2>4, <2>5
<1>5. CASE d.point >= 0 /\ ~(fraction > d.scale)
  <2>1. n = [d EXCEPT !.scale = d.scale - fraction, !.point = -1]
    BY <1>1, <1>5 DEF InPlace!NormalizeScale
  <2>2. n.point = -1 /\ n.scale = d.scale - fraction /\ n.allZero = d.allZero
    BY <2>1 DEF Decimal
  <2>3. Pointed(n)
    BY <1>1, <1>2, <2>2 DEF Pointed
  <2>4. Base(d) = d.point + d.scale /\ Base(n) = Len(d.digits) + n.scale
        /\ InPlace!IntLength(n) = Len(d.digits) + n.scale
    BY <1>1, <1>2, <1>5, <2>2 DEF Base, InPlace!IntLength
  <2>5. Base(n) = Base(d) /\ InPlace!IntLength(n) = Base(d)
    BY <1>1, <2>2, <2>4
  <2> QED BY <1>2, <2>2, <2>3, <2>4, <2>5
<1> QED BY <1>1, <1>3, <1>4, <1>5

\* Of two numbers, the second fits into the zeros the first ends with.
LEMMA FitsIf ==
    ASSUME NEW d, Pointed(d), NEW o, Pointed(o), ~InPlace!IsZero(d), ~InPlace!IsZero(o)
    PROVE  /\ InPlace!Fits(d, o) <=> Base(d) - Len(d.digits) >= Base(o)
           /\ InPlace!Fits(d, o) =>
                  LET a == InPlace!NormalizeScale(d)
                  IN  a.point = -1 /\ a.scale = Base(d) - Len(d.digits)
<1> DEFINE a == InPlace!NormalizeScale(d)
           b == InPlace!NormalizeScale(o)
<1>1. /\ Len(d.digits) \in Nat /\ Base(d) \in Nat /\ Base(o) \in Nat /\ Base(o) >= 1
  BY PointedFields DEF InPlace!IsZero
<1>2. /\ Pointed(a) /\ a.digits = d.digits /\ Base(a) = Base(d)
      /\ a.point = -1 \/ (a.scale = 0 /\ a.point >= 1 /\ a.point < Len(a.digits))
      /\ InPlace!IntLength(b) = Base(o)
  BY NormalBase
<1>3. a.scale \in Nat /\ a.point \in Int
  BY <1>2, PointedFields
<1>4. InPlace!Fits(d, o) <=> a.scale >= Base(o)
  BY <1>2 DEF InPlace!Fits
<1> HIDE DEF a
<1>5. CASE a.point = -1
  <2>1. Base(d) = Len(d.digits) + a.scale
    BY <1>1, <1>2, <1>3, <1>5 DEF Base
  <2> QED BY <1>1, <1>3, <1>4, <1>5, <2>1 DEF a
<1>6. CASE a.scale = 0 /\ a.point >= 1 /\ a.point < Len(a.digits)
  <2>1. Base(d) = a.point
    BY <1>1, <1>2, <1>3, <1>6 DEF Base
  <2> QED BY <1>1, <1>2, <1>3, <1>4, <1>6, <2>1 DEF a
<1> QED BY <1>2, <1>5, <1>6

LEMMA StandsFits ==
    ASSUME NEW d, Pointed(d), NEW T, Stands(d, T), NEW o, Pointed(o), NEW W, Stands(o, W)
    PROVE  InPlace!Fits(d, o) <=> \A t \in T, w \in W : t[1] > w[1]
<1>1. CASE InPlace!IsZero(d) \/ InPlace!IsZero(o)
  BY <1>1, StandsForNone DEF InPlace!Fits
<1>2. CASE ~InPlace!IsZero(d) /\ ~InPlace!IsZero(o)
  <2>1. InPlace!Fits(d, o) <=> Base(d) - Len(d.digits) >= Base(o)
    BY <1>2, FitsIf
  <2>2. /\ Base(d) \in Nat /\ Base(o) \in Nat /\ Len(d.digits) \in Nat /\ Len(o.digits) \in Nat
        /\ Len(d.digits) >= 1 /\ Len(o.digits) >= 1
        /\ FigureAt(d, Len(d.digits)) \in T /\ FigureAt(o, 1) \in W
    BY <1>2, PointedFields DEF InPlace!IsZero, Stands
  <2>3. ASSUME Base(d) - Len(d.digits) >= Base(o), NEW t \in T, NEW w \in W
        PROVE  t[1] > w[1]
    <3>1. PICK j \in 1 .. Len(d.digits) : t = FigureAt(d, j)
      BY DEF Stands, DecimalFigures
    <3>2. PICK k \in 1 .. Len(o.digits) : w = FigureAt(o, k)
      BY DEF Stands, DecimalFigures
    <3>3. t[1] = Base(d) - j /\ w[1] = Base(o) - k
      BY <3>1, <3>2 DEF FigureAt
    <3> QED BY <2>2, <2>3, <3>3
  <2>4. ASSUME \A t \in T, w \in W : t[1] > w[1]
        PROVE  Base(d) - Len(d.digits) >= Base(o)
    <3>1. Base(d) - Len(d.digits) > Base(o) - 1
      BY <2>2, <2>4 DEF FigureAt
    <3> QED BY <2>2, <3>1
  <2> QED BY <2>1, <2>3, <2>4
<1> QED BY <1>1, <1>2

LEMMA PaddedDigits ==
    ASSUME NEW x \in Seq(Digits), NEW y \in Seq(Digits), NEW u \in Seq(Digits), NEW s,
           s = (x \o u) \o y, \A k \in 1 .. Len(u) : u[k] = 0
    PROVE  /\ Len(s) = Len(x) + Len(u) + Len(y) /\ Len(x \o u) = Len(x) + Len(u)
           /\ \A k \in 1 .. Len(x) : s[k] = x[k]
           /\ \A k \in Len(x) + 1 .. Len(x) + Len(u) : s[k] = 0
           /\ \A k \in 1 .. Len(y) : s[Len(x) + Len(u) + k] = y[k]
<1> DEFINE z == Len(u)
           h == x \o u
<1>1. Len(x) \in Nat /\ Len(y) \in Nat
  BY LenProperties
<1>2. z \in Nat /\ \A k \in 1 .. z : u[k] = 0
  BY LenProperties
<1>3. /\ h \in Seq(Digits) /\ Len(h) = Len(x) + z
      /\ \A k \in 1 .. Len(x) + z : h[k] = IF k <= Len(x) THEN x[k] ELSE u[k - Len(x)]
  BY ConcatProperties
<1> HIDE DEF h, z
<1>4. /\ Len(s) = Len(h) + Len(y)
      /\ \A k \in 1 .. Len(h) + Len(y) : s[k] = IF k <= Len(h) THEN h[k] ELSE y[k - Len(h)]
  <2>1. s = h \o y
    BY DEF h
  <2>2. /\ Len(h \o y) = Len(h) + Len(y)
        /\ \A k \in 1 .. Len(h) + Len(y) : (h \o y)[k] = IF k <= Len(h) THEN h[k] ELSE y[k - Len(h)]
    BY <1>3, ConcatProperties
  <2> QED BY <2>1, <2>2
<1>5. \A k \in 1 .. Len(x) : s[k] = x[k]
  BY <1>1, <1>2, <1>3, <1>4
<1>6. \A k \in Len(x) + 1 .. Len(x) + z : s[k] = 0
  <2> TAKE k \in Len(x) + 1 .. Len(x) + z
  <2>1. s[k] = h[k]
    BY <1>1, <1>3, <1>4
  <2>2. k - Len(x) \in 1 .. z /\ ~(k <= Len(x)) /\ k \in 1 .. Len(x) + z
    BY <1>1, <1>2
  <2> QED BY <1>2, <1>3, <2>1, <2>2
<1>7. \A k \in 1 .. Len(y) : s[Len(x) + z + k] = y[k]
  <2> TAKE k \in 1 .. Len(y)
  <2> DEFINE n == Len(x) + z + k
  <2>1. n \in 1 .. Len(h) + Len(y) /\ ~(n <= Len(h)) /\ n - Len(h) = k
    BY <1>1, <1>3
  <2> HIDE DEF n
  <2>2. s[n] = y[k]
    BY <1>4, <2>1
  <2> QED BY <2>2 DEF n
<1> QED BY <1>1, <1>3, <1>4, <1>5, <1>6, <1>7 DEF h, z

LEMMA ZerosAre ==
    ASSUME NEW z \in Nat
    PROVE  /\ InPlace!Zeros(z) \in Seq(Digits) /\ Len(InPlace!Zeros(z)) = z
           /\ \A k \in 1 .. z : InPlace!Zeros(z)[k] = 0
BY DEF InPlace!Zeros, Digits

\* A sum that fits: the digits of both, with zeros between.
LEMMA SumDigits ==
    ASSUME NEW d, Pointed(d), NEW o, Pointed(o), ~InPlace!IsZero(d), ~InPlace!IsZero(o),
           InPlace!Fits(d, o), NEW a, a = InPlace!Add(d, o)
    PROVE  /\ Pointed(a) /\ Base(a) = Base(d) /\ Base(d) - Len(d.digits) - Base(o) \in Nat
           /\ a.digits = (d.digits \o InPlace!Zeros(Base(d) - Len(d.digits) - Base(o))) \o o.digits
<1> DEFINE z == Base(d) - Len(d.digits) - Base(o)
           m == InPlace!NormalizeScale(d)
           b == InPlace!NormalizeScale(o)
           head == d.digits \o InPlace!Zeros(z)
<1>1. /\ d.digits \in Seq(Digits) /\ o.digits \in Seq(Digits) /\ Len(d.digits) \in Nat
      /\ Len(o.digits) \in Nat /\ Base(d) \in Nat /\ Base(o) \in Nat /\ Base(o) >= 1
      /\ Len(o.digits) >= 1
  BY PointedFields DEF InPlace!IsZero
<1>2. /\ Pointed(b) /\ b.digits = o.digits /\ Base(b) = Base(o) /\ InPlace!IntLength(b) = Base(o)
      /\ b.point = -1 \/ (b.scale = 0 /\ b.point >= 1 /\ b.point < Len(b.digits))
  BY NormalBase
<1>3. Pointed(m) /\ m.digits = d.digits /\ m.point = -1 /\ m.scale = Base(d) - Len(d.digits)
  BY FitsIf, NormalBase
<1>4. z \in Nat
  BY <1>1, FitsIf
<1>5. m.scale - InPlace!IntLength(b) = z
  BY <1>2, <1>3
<1>6. a \in Decimal
  BY SumDecimal DEF Pointed
<1>7. b.scale \in Nat /\ b.point \in {-1} \cup Nat
  BY <1>2, PointedFields
<1>8. a = [m EXCEPT !.digits = head \o b.digits, !.scale = b.scale,
                    !.point = IF b.point >= 0 THEN Len(head) + b.point ELSE @]
  <2>1. m.digits \o InPlace!Zeros(m.scale - InPlace!IntLength(b)) = head
    BY <1>3, <1>5
  <2> HIDE DEF head, z
  <2> QED BY <2>1 DEF InPlace!Add
<1> HIDE DEF m, b, z
<1>9. a.digits = head \o o.digits /\ a.scale = b.scale
      /\ a.point = IF b.point >= 0 THEN Len(head) + b.point ELSE -1
  <2> HIDE DEF head
  <2> QED BY <1>2, <1>3, <1>8 DEF Pointed, Decimal
<1> DEFINE x == d.digits
           y == o.digits
           s == a.digits
<1>10. /\ Len(x) \in Nat /\ Len(y) \in Nat /\ Len(y) >= 1 /\ Base(d) \in Nat /\ Base(o) \in Nat
  BY <1>1
<1>20. s = (x \o InPlace!Zeros(z)) \o y
  BY <1>9
<1>21. x \in Seq(Digits) /\ y \in Seq(Digits)
  BY <1>1
<1>11. b.point = -1 \/ (b.scale = 0 /\ b.point >= 1 /\ b.point < Len(y))
  BY <1>2
<1>12. Base(o) + z = Base(d) - Len(x)
  BY <1>10 DEF z
<1>13. Base(o) = (IF b.point >= 0 THEN b.point ELSE Len(y)) + b.scale
  BY <1>2 DEF Base
<1>14. Base(a) = (IF a.point >= 0 THEN a.point ELSE Len(s)) + a.scale
  BY DEF Base
<1>15. head = x \o InPlace!Zeros(z)
  OBVIOUS
<1> HIDE DEF head, x, y, s
<1>16. Len(s) = Len(x) + z + Len(y) /\ Len(head) = Len(x) + z
  <2> DEFINE u == InPlace!Zeros(z)
  <2>1. u \in Seq(Digits) /\ \A k \in 1 .. Len(u) : u[k] = 0
    BY <1>4, ZerosAre
  <2>4. Len(u) = z
    BY <1>4, ZerosAre
  <2>2. s = (x \o u) \o y /\ head = x \o u
    BY <1>15, <1>20
  <2> HIDE DEF u
  <2>3. Len(s) = Len(x) + Len(u) + Len(y) /\ Len(x \o u) = Len(x) + Len(u)
    BY <1>21, <2>1, <2>2, PaddedDigits
  <2> QED BY <2>2, <2>3, <2>4
<1>17. Base(a) = Base(d)
  <2>1. CASE b.point = -1
    <3>1. a.point = -1
      BY <1>9, <2>1
    <3>2. Base(o) = Len(y) + b.scale
      BY <1>13, <2>1
    <3>3. Base(a) = Len(s) + b.scale
      BY <1>9, <1>14, <3>1
    <3> QED BY <1>4, <1>7, <1>10, <1>12, <1>16, <3>2, <3>3, SMTT(30)
  <2>2. CASE b.point >= 1 /\ b.scale = 0
    <3>1. a.point = Len(x) + z + b.point
      BY <1>7, <1>9, <1>16, <2>2
    <3>2. Base(o) = b.point
      BY <1>7, <1>13, <2>2
    <3>3. Base(a) = Len(x) + z + b.point
      BY <1>4, <1>7, <1>9, <1>10, <1>14, <2>2, <3>1
    <3> QED BY <1>4, <1>7, <1>10, <1>12, <3>2, <3>3
  <2> QED BY <1>11, <2>1, <2>2
<1>18. a.point # 0 /\ a.point <= Len(s)
  BY <1>4, <1>7, <1>9, <1>10, <1>11, <1>16
<1>19. Pointed(a)
  BY <1>6, <1>18 DEF Pointed, s
<1> QED BY <1>4, <1>20, <1>17, <1>19 DEF x, y, s, z

\* A sum that fits stands for the figures of both.
LEMMA StandsSum ==
    ASSUME NEW d, Pointed(d), NEW T, Stands(d, T), NEW o, Pointed(o), NEW W, Stands(o, W),
           InPlace!Fits(d, o), NEW a, a = InPlace!Add(d, o)
    PROVE  Pointed(a) /\ Stands(a, T \cup W)
<1>1. CASE InPlace!IsZero(o)
  <2>1. a = d /\ W = {}
    BY <1>1, StandsForNone DEF InPlace!Add
  <2> QED BY <2>1
<1>2. CASE ~InPlace!IsZero(o) /\ InPlace!IsZero(d)
  <2>1. a = [o EXCEPT !.allZero = d.allZero] /\ T = {}
    BY <1>2, StandsForNone DEF InPlace!Add
  <2>2. /\ a \in Decimal /\ a.digits = o.digits /\ a.point = o.point /\ a.scale = o.scale
    BY <2>1 DEF Pointed, Decimal
  <2>3. Pointed(a) /\ Base(a) = Base(o)
    BY <2>2 DEF Pointed, Base
  <2> QED BY <2>1, <2>2, <2>3, StandsSame
<1>3. CASE ~InPlace!IsZero(o) /\ ~InPlace!IsZero(d)
  <2> DEFINE x == d.digits
             y == o.digits
             s == a.digits
             m == Len(x)
             n == Len(y)
             z == Base(d) - Len(d.digits) - Base(o)
  <2>1. /\ Pointed(a) /\ Base(a) = Base(d) /\ z \in Nat
        /\ s = (x \o InPlace!Zeros(z)) \o y
    BY <1>3, SumDigits
  <2>2. /\ m \in Nat /\ n \in Nat /\ Base(d) \in Nat /\ Base(o) \in Nat /\ m >= 1 /\ n >= 1
        /\ x # <<>> /\ y # <<>>
    BY <1>3, PointedFields DEF InPlace!IsZero
  <2>17. x \in Seq(Digits) /\ y \in Seq(Digits)
    BY PointedFields
  <2>3. z = Base(d) - m - Base(o)
    OBVIOUS
  <2>4. /\ \A k : FigureAt(d, k) = <<Base(d) - k, x[k]>>
        /\ \A k : FigureAt(o, k) = <<Base(o) - k, y[k]>>
        /\ \A k : FigureAt(a, k) = <<Base(a) - k, s[k]>>
    BY DEF FigureAt
  <2>5. /\ DecimalFigures(d) = {FigureAt(d, k) : k \in 1 .. m}
        /\ DecimalFigures(o) = {FigureAt(o, k) : k \in 1 .. n}
        /\ DecimalFigures(a) = {FigureAt(a, k) : k \in 1 .. Len(s)}
    BY DEF DecimalFigures
  <2>6. /\ T \subseteq DecimalFigures(d) /\ \A f \in DecimalFigures(d) : f[2] # 0 => f \in T
        /\ W \subseteq DecimalFigures(o) /\ \A f \in DecimalFigures(o) : f[2] # 0 => f \in W
        /\ FigureAt(d, 1) \in T /\ FigureAt(o, n) \in W
    BY <2>2 DEF Stands
  <2>7. Stands(a, T \cup W) <=>
           (/\ T \cup W \subseteq DecimalFigures(a)
            /\ \A f \in DecimalFigures(a) : f[2] # 0 => f \in T \cup W
            /\ s # <<>> => FigureAt(a, 1) \in T \cup W /\ FigureAt(a, Len(s)) \in T \cup W)
    BY DEF Stands
  <2> HIDE DEF x, y, s, z
  <2>8. /\ Len(s) = m + z + n
        /\ \A k \in 1 .. m : s[k] = x[k]
        /\ \A k \in m + 1 .. m + z : s[k] = 0
        /\ \A k \in 1 .. n : s[m + z + k] = y[k]
    <3> DEFINE u == InPlace!Zeros(z)
    <3>1. u \in Seq(Digits) /\ \A k \in 1 .. Len(u) : u[k] = 0
      BY <2>1, ZerosAre
    <3>4. Len(u) = z
      BY <2>1, ZerosAre
    <3>2. s = (x \o u) \o y
      BY <2>1
    <3> HIDE DEF u
    <3>3. /\ Len(s) = Len(x) + Len(u) + Len(y)
          /\ \A k \in 1 .. Len(x) : s[k] = x[k]
          /\ \A k \in Len(x) + 1 .. Len(x) + Len(u) : s[k] = 0
          /\ \A k \in 1 .. Len(y) : s[Len(x) + Len(u) + k] = y[k]
      BY <2>17, <3>1, <3>2, PaddedDigits
    <3> QED BY <3>3, <3>4
  <2> HIDE DEF m, n
  <2>9. \A k \in 1 .. m : FigureAt(a, k) = FigureAt(d, k)
    BY <2>1, <2>4, <2>8
  <2>10. \A k \in 1 .. n : FigureAt(a, m + z + k) = FigureAt(o, k)
    <3> TAKE k \in 1 .. n
    <3>1. Base(a) - (m + z + k) = Base(o) - k
      BY <2>1, <2>2, <2>3
    <3>2. s[m + z + k] = y[k]
      BY <2>8
    <3> QED BY <2>4, <3>1, <3>2
  <2>11. \A k \in m + 1 .. m + z : FigureAt(a, k)[2] = 0
    BY <2>4, <2>8
  <2>12. T \cup W \subseteq DecimalFigures(a)
    <3>1. \A k \in 1 .. m : k \in 1 .. Len(s)
      BY <2>1, <2>2, <2>8
    <3>2. \A k \in 1 .. n : m + z + k \in 1 .. Len(s)
      BY <2>1, <2>2, <2>8
    <3>3. DecimalFigures(d) \subseteq DecimalFigures(a)
      BY <2>5, <2>9, <3>1
    <3>4. DecimalFigures(o) \subseteq DecimalFigures(a)
      BY <2>5, <2>10, <3>2
    <3> QED BY <2>6, <3>3, <3>4
  <2>13. ASSUME NEW k \in 1 .. Len(s), FigureAt(a, k)[2] # 0
         PROVE  FigureAt(a, k) \in T \cup W
    <3>1. CASE k \in 1 .. m
      <4>1. FigureAt(a, k) \in DecimalFigures(d)
        BY <2>5, <2>9, <3>1
      <4> QED BY <2>6, <2>13, <4>1
    <3>2. CASE k > m + z
      <4> DEFINE l == k - (m + z)
      <4>1. l \in 1 .. n /\ k = m + z + l
        BY <2>1, <2>2, <2>8, <3>2
      <4> HIDE DEF l
      <4>2. FigureAt(a, k) \in DecimalFigures(o)
        BY <2>5, <2>10, <4>1
      <4> QED BY <2>6, <2>13, <4>2
    <3>3. CASE k \in m + 1 .. m + z
      BY <2>11, <2>13, <3>3
    <3> QED BY <2>1, <2>2, <3>1, <3>2, <3>3
  <2>14. FigureAt(a, 1) \in T \cup W /\ FigureAt(a, Len(s)) \in T \cup W
    <3>1. FigureAt(a, 1) = FigureAt(d, 1)
      BY <2>2, <2>9
    <3>2. FigureAt(a, m + z + n) = FigureAt(o, n)
      BY <2>2, <2>10
    <3> QED BY <2>6, <2>8, <3>1, <3>2
  <2>15. \A f \in DecimalFigures(a) : f[2] # 0 => f \in T \cup W
    BY <2>5, <2>13
  <2>16. Stands(a, T \cup W)
    BY <2>7, <2>12, <2>14, <2>15
  <2> QED BY <2>1, <2>16
<1> QED BY <1>1, <1>2, <1>3

\* A decimal that is raised by e powers; nothing, raised, is 1.
LEMMA StandsRaised ==
    ASSUME NEW d, Pointed(d), NEW T, Stands(d, T), NEW e \in Nat, NEW a,
           a = InPlace!ShiftScale(d, e)
    PROVE  /\ Pointed(a)
           /\ ~InPlace!IsZero(d) => Stands(a, Raised(T, e))
           /\ InPlace!IsZero(d) /\ d.scale = 0 => Stands(a, {<<e, 1>>})
<1>1. /\ d.digits \in Seq(Digits) /\ Len(d.digits) \in Nat /\ d.scale \in Nat /\ d \in Decimal
      /\ d.point \in {-1} \cup Nat
      /\ d.point = -1 \/ (d.point >= 1 /\ d.point <= Len(d.digits))
  BY PointedFields DEF Pointed
<1>2. a \in Decimal
  BY <1>1, ShiftedDecimal
<1>3. /\ a.digits = IF d.digits = <<>> THEN <<1>> ELSE d.digits
      /\ a.scale = d.scale + e /\ a.point = d.point
  BY <1>1 DEF InPlace!ShiftScale, Decimal
<1>4. CASE InPlace!IsZero(d)
  <2>1. Len(d.digits) = 0 /\ d.point = -1
    BY <1>1, <1>4 DEF InPlace!IsZero
  <2>2. a.digits = <<1>> /\ a.point = -1
    BY <1>3, <1>4, <2>1 DEF InPlace!IsZero
  <2>3. Pointed(a)
    BY <1>2, <2>2 DEF Pointed
  <2>4. ASSUME d.scale = 0 PROVE Stands(a, {<<e, 1>>})
    <3>1. Base(a) = e + 1
      <4>1. Len(a.digits) = 1 /\ a.scale = e /\ ~(a.point >= 0)
        BY <1>3, <2>2, <2>4
      <4> QED BY <4>1 DEF Base
    <3>2. FigureAt(a, 1) = <<e, 1>>
      BY <2>2, <3>1 DEF FigureAt
    <3>3. Len(a.digits) = 1 /\ 1 .. 1 = {1}
      BY <2>2
    <3>4. DecimalFigures(a) = {<<e, 1>>}
      BY <3>2, <3>3 DEF DecimalFigures
    <3> QED BY <3>2, <3>3, <3>4 DEF Stands
  <2> QED BY <1>4, <2>3, <2>4
<1>5. CASE ~InPlace!IsZero(d)
  <2>1. a.digits = d.digits
    BY <1>3, <1>5 DEF InPlace!IsZero
  <2>2. Pointed(a)
    BY <1>1, <1>2, <1>3, <2>1 DEF Pointed
  <2>3. Base(a) = Base(d) + e /\ Base(d) \in Nat
    <3> DEFINE n == IF d.point >= 0 THEN d.point ELSE Len(d.digits)
    <3>1. Base(a) = n + (d.scale + e) /\ Base(d) = n + d.scale
      BY <1>3, <2>1 DEF Base
    <3>2. n \in Nat
      BY <1>1
    <3> HIDE DEF n
    <3> QED BY <1>1, <3>1, <3>2
  <2>4. \A k \in 1 .. Len(d.digits) : FigureAt(a, k) = <<FigureAt(d, k)[1] + e, FigureAt(d, k)[2]>>
    <3> TAKE k \in 1 .. Len(d.digits)
    <3>1. Base(a) - k = (Base(d) - k) + e
      BY <1>1, <2>3
    <3> QED BY <2>1, <3>1 DEF FigureAt
  <2>5. DecimalFigures(a) = Raised(DecimalFigures(d), e)
    BY <2>1, <2>4 DEF DecimalFigures, Raised
  <2>6. Raised(T, e) \subseteq DecimalFigures(a)
    BY <2>5 DEF Stands, Raised
  <2>7. \A f \in DecimalFigures(a) : f[2] # 0 => f \in Raised(T, e)
    BY <2>5 DEF Stands, Raised
  <2>8. /\ FigureAt(a, 1) \in Raised(T, e) /\ FigureAt(a, Len(a.digits)) \in Raised(T, e)
    <3>1. /\ 1 \in 1 .. Len(d.digits) /\ Len(d.digits) \in 1 .. Len(d.digits)
          /\ FigureAt(d, 1) \in T /\ FigureAt(d, Len(d.digits)) \in T
      BY <1>1, <1>5, PointedFields DEF InPlace!IsZero, Stands
    <3> QED BY <2>1, <2>4, <3>1 DEF Raised
  <2> QED BY <1>5, <2>2, <2>6, <2>7, <2>8 DEF Stands
<1> QED BY <1>4, <1>5

-----------------------------------------------------------------------------
(* Where the units of a string are                                          *)

Spots(s, S) == {k \in 1 .. Len(s) : s[k] \in S}
AllUnits == SmallUnits \cup BigUnits
FirstFrom(s, S, k) == Numeral!FirstOf({h \in Spots(s, S) : h >= k}, Len(s) + 1)
LastSpot(s, S) == Numeral!LastOf(Spots(s, S), 0)
BeginOf(s, k) == Numeral!LastOf({h \in Spots(s, AllUnits) : h < k}, 0) + 1

LEMMA FirstIs ==
    ASSUME NEW S \in SUBSET Int, NEW m
    PROVE  /\ \A x \in S : (\A y \in S : x <= y) => Numeral!FirstOf(S, m) = x
           /\ S = {} => Numeral!FirstOf(S, m) = m
<1>1. ASSUME NEW x \in S, \A y \in S : x <= y PROVE Numeral!FirstOf(S, m) = x
  <2>1. /\ Numeral!Min(S) \in S /\ \A y \in S : Numeral!Min(S) <= y
    BY <1>1 DEF Numeral!Min
  <2>2. Numeral!Min(S) <= x /\ x <= Numeral!Min(S) /\ x \in Int /\ Numeral!Min(S) \in Int
    BY <1>1, <2>1
  <2> QED BY <2>2 DEF Numeral!FirstOf
<1> QED BY <1>1 DEF Numeral!FirstOf

LEMMA LastIs ==
    ASSUME NEW S \in SUBSET Int, NEW m
    PROVE  /\ \A x \in S : (\A y \in S : x >= y) => Numeral!LastOf(S, m) = x
           /\ S = {} => Numeral!LastOf(S, m) = m
<1>1. ASSUME NEW x \in S, \A y \in S : x >= y PROVE Numeral!LastOf(S, m) = x
  <2>1. /\ Numeral!Max(S) \in S /\ \A y \in S : Numeral!Max(S) >= y
    BY <1>1 DEF Numeral!Max
  <2>2. Numeral!Max(S) >= x /\ x >= Numeral!Max(S) /\ x \in Int /\ Numeral!Max(S) \in Int
    BY <1>1, <2>1
  <2> QED BY <2>2 DEF Numeral!LastOf
<1> QED BY <1>1 DEF Numeral!LastOf

LEMMA SpotsAre ==
    ASSUME NEW s \in Seq(Characters), NEW S
    PROVE  Numeral!At(s, S) = Spots(s, S)
BY LenProperties DEF Numeral!At, Spots

LEMMA SpotsFinite ==
    ASSUME NEW s \in Seq(Characters), NEW S
    PROVE  /\ Spots(s, S) \in SUBSET Int /\ Spots(s, S) \in SUBSET (1 .. Len(s))
           /\ IsFiniteSet(Spots(s, S)) /\ Len(s) \in Nat
<1>1. Len(s) \in Nat /\ Spots(s, S) \in SUBSET (1 .. Len(s))
  BY LenProperties DEF Spots
<1>2. IsFiniteSet(1 .. Len(s))
  BY <1>1, FS_Interval
<1>3. IsFiniteSet(Spots(s, S))
  BY <1>1, <1>2, FS_Subset
<1> QED BY <1>1, <1>3

\* The last spot is the last, and there is none if it is 0.
LEMMA LastSpotIs ==
    ASSUME NEW s \in Seq(Characters), NEW S
    PROVE  /\ LastSpot(s, S) \in 0 .. Len(s) /\ \A k \in Spots(s, S) : k <= LastSpot(s, S)
           /\ LastSpot(s, S) # 0 => LastSpot(s, S) \in Spots(s, S)
<1> DEFINE A == Spots(s, S)
<1>1. A \in SUBSET Int /\ A \in SUBSET (1 .. Len(s)) /\ IsFiniteSet(A) /\ Len(s) \in Nat
  BY SpotsFinite
<1>2. LastSpot(s, S) = Numeral!LastOf(A, 0)
  BY DEF LastSpot
<1> HIDE DEF A
<1>3. CASE A = {}
  <2>1. Numeral!LastOf(A, 0) = 0
    BY <1>1, <1>3, LastIs
  <2> QED BY <1>1, <1>2, <1>3, <2>1 DEF A
<1>4. CASE A # {}
  <2>1. PICK m \in A : \A x \in A : m >= x
    BY <1>1, <1>4, Greatest
  <2>2. Numeral!LastOf(A, 0) = m
    BY <1>1, <2>1, LastIs
  <2> QED BY <1>1, <1>2, <2>1, <2>2 DEF A
<1> QED BY <1>3, <1>4

\* The first spot from k on lies up to the last, or there is none.
LEMMA FirstFromIs ==
    ASSUME NEW s \in Seq(Characters), NEW S, NEW k \in 1 .. Len(s) + 1
    PROVE  /\ k <= LastSpot(s, S) =>
                 /\ FirstFrom(s, S, k) \in Spots(s, S) /\ FirstFrom(s, S, k) \in k .. LastSpot(s, S)
                 /\ \A h \in Spots(s, S) : h >= k => FirstFrom(s, S, k) <= h
           /\ k > LastSpot(s, S) => FirstFrom(s, S, k) = Len(s) + 1
<1> DEFINE A == {h \in Spots(s, S) : h >= k}
           l == LastSpot(s, S)
<1>1. Spots(s, S) \in SUBSET Int /\ Spots(s, S) \in SUBSET (1 .. Len(s)) /\ Len(s) \in Nat
  BY SpotsFinite
<1>2. /\ l \in 0 .. Len(s) /\ \A h \in Spots(s, S) : h <= l
      /\ l # 0 => l \in Spots(s, S)
  BY LastSpotIs
<1>3. A \in SUBSET Int /\ A \in SUBSET Nat
  BY <1>1
<1>4. FirstFrom(s, S, k) = Numeral!FirstOf(A, Len(s) + 1)
  BY DEF FirstFrom
<1>5. \A h : h \in A <=> h \in Spots(s, S) /\ h >= k
  OBVIOUS
<1> HIDE DEF A, l
<1>6. ASSUME k <= l
      PROVE  /\ FirstFrom(s, S, k) \in Spots(s, S) /\ FirstFrom(s, S, k) \in k .. l
             /\ \A h \in Spots(s, S) : h >= k => FirstFrom(s, S, k) <= h
  <2>1. l \in A
    BY <1>1, <1>2, <1>5, <1>6
  <2>2. PICK m \in A : \A x \in A : m <= x
    BY <1>3, <2>1, Least
  <2>3. FirstFrom(s, S, k) = m
    BY <1>3, <1>4, <2>2, FirstIs
  <2> QED BY <1>1, <1>2, <1>3, <1>5, <2>2, <2>3
<1>7. ASSUME k > l PROVE FirstFrom(s, S, k) = Len(s) + 1
  <2>1. A = {}
    BY <1>1, <1>2, <1>5, <1>7
  <2> QED BY <1>3, <1>4, <2>1, FirstIs
<1> QED BY <1>6, <1>7 DEF l

LEMMA FirstFromOnly ==
    ASSUME NEW s \in Seq(Characters), NEW S, NEW k \in 1 .. Len(s) + 1, NEW f \in Spots(s, S),
           f >= k, \A h \in Spots(s, S) : h >= k => f <= h
    PROVE  FirstFrom(s, S, k) = f
<1> DEFINE A == {h \in Spots(s, S) : h >= k}
<1>1. A \in SUBSET Int /\ f \in A /\ \A h \in A : f <= h
  BY SpotsFinite
<1> HIDE DEF A
<1>2. Numeral!FirstOf(A, Len(s) + 1) = f
  BY <1>1, FirstIs
<1> QED BY <1>2 DEF FirstFrom, A

LEMMA LastSpotOnly ==
    ASSUME NEW s \in Seq(Characters), NEW S
    PROVE  /\ \A l \in Spots(s, S) : (\A h \in Spots(s, S) : h <= l) => LastSpot(s, S) = l
           /\ Spots(s, S) = {} => LastSpot(s, S) = 0
<1> DEFINE A == Spots(s, S)
<1>1. A \in SUBSET Int /\ LastSpot(s, S) = Numeral!LastOf(A, 0)
  BY SpotsFinite DEF LastSpot
<1> HIDE DEF A
<1>2. ASSUME NEW l \in A, \A h \in A : h <= l PROVE LastSpot(s, S) = l
  BY <1>1, <1>2, LastIs
<1>3. A = {} => LastSpot(s, S) = 0
  BY <1>1, LastIs
<1> QED BY <1>2, <1>3 DEF A

\* t is s, grown by c.
Grows(s, c, t) == s \in Seq(Characters) /\ c \in Characters /\ t = Append(s, c)

\* The spots of a string that grows.
LEMMA SpotsGrow ==
    ASSUME NEW s, NEW c, NEW S, NEW t, Grows(s, c, t)
    PROVE  /\ t \in Seq(Characters) /\ Len(s) \in Nat /\ Len(t) = Len(s) + 1 /\ t[Len(s) + 1] = c
           /\ \A k \in 1 .. Len(s) : t[k] = s[k]
           /\ Spots(t, S) = IF c \in S THEN Spots(s, S) \cup {Len(s) + 1} ELSE Spots(s, S)
           /\ LastSpot(t, S) = IF c \in S THEN Len(s) + 1 ELSE LastSpot(s, S)
<1> DEFINE n == Len(s)
           l == LastSpot(s, S)
           m == n + 1
<1>0. s \in Seq(Characters) /\ c \in Characters /\ t = Append(s, c)
  BY DEF Grows
<1>1. /\ t \in Seq(Characters) /\ n \in Nat /\ Len(t) = m /\ t[m] = c /\ \A k \in 1 .. n : t[k] = s[k]
  BY <1>0, AppendProperties, LenProperties
<1>2. Spots(t, S) = IF c \in S THEN Spots(s, S) \cup {m} ELSE Spots(s, S)
  BY <1>1 DEF Spots
<1>3. /\ l \in 0 .. n /\ \A k \in Spots(s, S) : k <= l
      /\ l # 0 => l \in Spots(s, S)
  BY <1>0, LastSpotIs
<1>4. Spots(s, S) \in SUBSET (1 .. n)
  BY <1>0, SpotsFinite
<1> HIDE DEF n, l
<1>5. LastSpot(t, S) = IF c \in S THEN m ELSE l
  <2>1. CASE c \in S
    <3>1. m \in Spots(t, S) /\ \A h \in Spots(t, S) : h <= m
      BY <1>1, <1>2, <1>4, <2>1
    <3> QED BY <1>1, <2>1, <3>1, <1>0, LastSpotOnly
  <2>2. CASE c \notin S
    BY <1>2, <2>2 DEF LastSpot, l
  <2> QED BY <2>1, <2>2
<1> QED BY <1>1, <1>2, <1>5 DEF n, l, m

LEMMA FirstStays ==
    ASSUME NEW s, NEW c, NEW S, NEW t, Grows(s, c, t), NEW k, k \in 1 .. LastSpot(s, S)
    PROVE  FirstFrom(t, S, k) = FirstFrom(s, S, k)
<1> DEFINE n == Len(s)
           l == LastSpot(s, S)
           m == n + 1
<1>0. s \in Seq(Characters)
  BY DEF Grows
<1>1. /\ t \in Seq(Characters) /\ n \in Nat /\ Len(t) = m
      /\ Spots(t, S) = IF c \in S THEN Spots(s, S) \cup {m} ELSE Spots(s, S)
  BY SpotsGrow
<1>3. /\ l \in 0 .. n /\ \A h \in Spots(s, S) : h <= l
      /\ l # 0 => l \in Spots(s, S)
  BY <1>0, LastSpotIs
<1>4. Spots(s, S) \in SUBSET (1 .. n)
  BY <1>0, SpotsFinite
<1> HIDE DEF n, l
<1>5. k \in 1 .. l
  BY DEF l
<1>6. ASSUME k \in 1 .. l PROVE FirstFrom(t, S, k) = FirstFrom(s, S, k)
  <2> DEFINE f == FirstFrom(s, S, k)
  <2>1. k \in 1 .. Len(s) + 1 /\ k <= LastSpot(s, S) /\ k \in 1 .. Len(t) + 1
    BY <1>1, <1>3, <1>6 DEF n, l
  <2>2. /\ f \in Spots(s, S) /\ f \in k .. l /\ \A h \in Spots(s, S) : h >= k => f <= h
    BY <2>1, <1>0, FirstFromIs DEF l
  <2> HIDE DEF f
  <2>3. /\ f \in Spots(t, S) /\ f >= k /\ \A h \in Spots(t, S) : h >= k => f <= h
    BY <1>1, <1>3, <2>2
  <2>4. FirstFrom(t, S, k) = f
    BY <1>1, <2>1, <2>3, <1>0, FirstFromOnly
  <2> QED BY <2>4 DEF f
<1> QED BY <1>5, <1>6

LEMMA FirstComes ==
    ASSUME NEW s, NEW c, NEW S, NEW t, Grows(s, c, t),
           NEW k, k \in LastSpot(s, S) + 1 .. Len(s) + 1
    PROVE  FirstFrom(t, S, k) = IF c \in S THEN Len(s) + 1 ELSE Len(s) + 2
<1> DEFINE n == Len(s)
           l == LastSpot(s, S)
           m == n + 1
<1>0. s \in Seq(Characters)
  BY DEF Grows
<1>1. /\ t \in Seq(Characters) /\ n \in Nat /\ Len(t) = m
      /\ Spots(t, S) = IF c \in S THEN Spots(s, S) \cup {m} ELSE Spots(s, S)
  BY SpotsGrow
<1>2. c \notin S => LastSpot(t, S) = l
  <2>1. c \notin S => Spots(t, S) = Spots(s, S)
    BY <1>1
  <2> QED BY <2>1 DEF LastSpot
<1>3. /\ l \in 0 .. n /\ \A h \in Spots(s, S) : h <= l
      /\ l # 0 => l \in Spots(s, S)
  BY <1>0, LastSpotIs
<1>4. Spots(s, S) \in SUBSET (1 .. n)
  BY <1>0, SpotsFinite
<1> HIDE DEF n, l
<1>5. k \in l + 1 .. m
  BY DEF n, l
<1>7. ASSUME k \in l + 1 .. m PROVE FirstFrom(t, S, k) = IF c \in S THEN m ELSE m + 1
  <2>1. k \in 1 .. Len(t) + 1
    BY <1>1, <1>3, <1>7
  <2>2. CASE c \in S
    <3>1. m \in Spots(t, S) /\ m >= k /\ \A h \in Spots(t, S) : h >= k => m <= h
      BY <1>1, <1>3, <1>4, <1>7, <2>2
    <3> QED BY <1>1, <2>1, <2>2, <3>1, <1>0, FirstFromOnly
  <2>3. CASE c \notin S
    <3>1. k > LastSpot(t, S)
      BY <1>1, <1>2, <1>3, <1>7, <2>3
    <3>2. FirstFrom(t, S, k) = Len(t) + 1
      BY <1>1, <2>1, <3>1, <1>0, FirstFromIs
    <3> QED BY <1>1, <2>3, <3>2
  <2> QED BY <2>2, <2>3
<1>8. m + 1 = n + 2
  BY <1>1
<1> QED BY <1>5, <1>7, <1>8 DEF n, m

-----------------------------------------------------------------------------
(* What a figure counts, in a string and in the string that grows by one     *)
(* character                                                                *)

GroupOf(s, k) == BeginOf(s, k) .. FirstFrom(s, AllUnits, k) - 1
ImpliedAt(s, k) == s[k] \in SmallUnits /\ GroupOf(s, k) = {}
PointOf(s, k) == Numeral!FirstOf(Spots(s, {Point}) \cap GroupOf(s, k), FirstFrom(s, AllUnits, k))
DigitsIn(s, m, n) == Cardinality(Spots(s, Digits) \cap (m .. n))
InGroup(s, k) ==
    IF ImpliedAt(s, k) THEN 0
    ELSE IF k < PointOf(s, k) THEN DigitsIn(s, k + 1, PointOf(s, k) - 1)
    ELSE -DigitsIn(s, PointOf(s, k) + 1, k)
Exp(s, k) == IF k \in 1 .. Len(s) THEN -s[k] ELSE 0
PowerOf(s, k) ==
    InGroup(s, k) + Exp(s, FirstFrom(s, BigUnits, k))
    + (IF FirstFrom(s, AllUnits, k) < FirstFrom(s, BigUnits, k)
       THEN Exp(s, FirstFrom(s, AllUnits, k)) ELSE 0)
FigureSpots(s) == {k \in 1 .. Len(s) : s[k] \in Digits \/ ImpliedAt(s, k)}

LEMMA PowersSame ==
    ASSUME NEW s \in Seq(Characters), NEW k \in 1 .. Len(s)
    PROVE  /\ Numeral!GroupEnd(s, k) = FirstFrom(s, AllUnits, k)
           /\ Numeral!Group(s, k) = GroupOf(s, k)
           /\ Numeral!Implied(s, k) <=> ImpliedAt(s, k)
           /\ Numeral!Power(s, k) = PowerOf(s, k)
           /\ Numeral!Figures(s) = FigureSpots(s)
<1>1. \A S : Numeral!At(s, S) = Spots(s, S)
  BY SpotsAre
<1>2. Numeral!Units = AllUnits
  BY CharsSame DEF Numeral!Units, AllUnits
<1>3. DOMAIN s = 1 .. Len(s)
  BY LenProperties
<1>4. \A m : /\ Numeral!GroupEnd(s, m) = FirstFrom(s, AllUnits, m)
             /\ Numeral!GroupBegin(s, m) = BeginOf(s, m)
  BY <1>1, <1>2 DEF Numeral!GroupEnd, FirstFrom, Numeral!GroupBegin, BeginOf
<1>5. \A m : Numeral!Group(s, m) = GroupOf(s, m)
  BY <1>4 DEF Numeral!Group, GroupOf
<1>6. \A m : Numeral!Implied(s, m) <=> ImpliedAt(s, m)
  BY <1>5, CharsSame DEF Numeral!Implied, ImpliedAt
<1>7. \A m : Numeral!Exponent(s, m) = Exp(s, m)
  BY <1>3 DEF Numeral!Exponent, Exp
<1>8. \A S : Numeral!Cardinality(S) = Cardinality(S)
  BY DEF Numeral!Cardinality, Cardinality
<1>9. Numeral!FirstOf(Numeral!At(s, {Numeral!Point}) \cap Numeral!Group(s, k), Numeral!GroupEnd(s, k))
      = PointOf(s, k)
  BY <1>1, <1>4, <1>5, CharsSame DEF PointOf
<1>10. Numeral!PowerInGroup(s, k) = InGroup(s, k)
  <2> DEFINE m == PointOf(s, k)
             before == Numeral!Cardinality(Numeral!At(s, Numeral!Digits) \cap (k + 1 .. m - 1))
             behind == -Numeral!Cardinality(Numeral!At(s, Numeral!Digits) \cap (m + 1 .. k))
  <2>1. Numeral!PowerInGroup(s, k) = CASE Numeral!Implied(s, k) -> 0
                                       [] k < m                 -> before
                                       [] OTHER                 -> behind
    BY <1>9 DEF Numeral!PowerInGroup
  <2>2. before = DigitsIn(s, k + 1, m - 1) /\ behind = -DigitsIn(s, m + 1, k)
    BY <1>1, <1>8, CharsSame DEF DigitsIn
  <2>3. ImpliedAt(s, k) => ~(k < m)
    <3> SUFFICES ASSUME ImpliedAt(s, k) PROVE ~(k < m)
      OBVIOUS
    <3>1. m = FirstFrom(s, AllUnits, k)
      BY DEF ImpliedAt, PointOf, Numeral!FirstOf
    <3>2. k \in Spots(s, AllUnits) /\ k >= k /\ k \in 1 .. Len(s) + 1
      BY LenProperties DEF ImpliedAt, Spots, AllUnits
    <3>3. FirstFrom(s, AllUnits, k) = k
      BY <3>2, FirstFromOnly
    <3> QED BY <3>1, <3>3
  <2>4. InGroup(s, k) = IF ImpliedAt(s, k) THEN 0
                        ELSE IF k < m THEN DigitsIn(s, k + 1, m - 1) ELSE -DigitsIn(s, m + 1, k)
    BY DEF InGroup
  <2> HIDE DEF m, before, behind
  <2>5. CASE ImpliedAt(s, k)
    BY <1>6, <2>1, <2>3, <2>4, <2>5
  <2>6. CASE ~ImpliedAt(s, k) /\ k < m
    BY <1>6, <2>1, <2>2, <2>4, <2>6
  <2>7. CASE ~ImpliedAt(s, k) /\ ~(k < m)
    BY <1>6, <2>1, <2>2, <2>4, <2>7
  <2> QED BY <2>5, <2>6, <2>7
<1>11. Numeral!Power(s, k) = PowerOf(s, k)
  <2>1. Numeral!FirstOf({j \in Numeral!At(s, Numeral!BigUnits) : j >= k}, Len(s) + 1)
        = FirstFrom(s, BigUnits, k)
    BY <1>1, CharsSame DEF FirstFrom
  <2> QED BY <1>4, <1>7, <1>10, <2>1 DEF Numeral!Power, PowerOf
<1>12. Numeral!Figures(s) = FigureSpots(s)
  BY <1>3, <1>6, CharsSame DEF Numeral!Figures, FigureSpots
<1> QED BY <1>4, <1>5, <1>6, <1>11, <1>12

LEMMA SpotsAfter ==
    ASSUME NEW s, NEW c, NEW t, Grows(s, c, t), NEW S
    PROVE  /\ Spots(t, S) = IF c \in S THEN Spots(s, S) \cup {Len(s) + 1} ELSE Spots(s, S)
           /\ LastSpot(t, S) = IF c \in S THEN Len(s) + 1 ELSE LastSpot(s, S)
BY SpotsGrow

LEMMA GrownString ==
    ASSUME NEW s, NEW c, NEW t, Grows(s, c, t)
    PROVE  /\ s \in Seq(Characters) /\ c \in Characters /\ t \in Seq(Characters)
           /\ Len(s) \in Nat /\ Len(t) = Len(s) + 1 /\ t[Len(s) + 1] = c
           /\ \A k \in 1 .. Len(s) : t[k] = s[k]
BY AppendProperties, LenProperties DEF Grows

LEMMA DigitsInIs ==
    ASSUME NEW s \in Seq(Characters)
    PROVE  /\ \A m, h : DigitsIn(s, m, h) \in Nat
           /\ \A m \in Int, h \in Int : m > h => DigitsIn(s, m, h) = 0
<1>1. IsFiniteSet(Spots(s, Digits))
  BY SpotsFinite
<1>2. ASSUME NEW m, NEW h PROVE DigitsIn(s, m, h) \in Nat
  <2>1. IsFiniteSet(Spots(s, Digits) \cap (m .. h))
    BY <1>1, FS_Subset
  <2> QED BY <2>1, FS_CardinalityType DEF DigitsIn
<1>3. ASSUME NEW m \in Int, NEW h \in Int, m > h PROVE DigitsIn(s, m, h) = 0
  <2>1. Spots(s, Digits) \cap (m .. h) = {}
    BY <1>3
  <2> QED BY <2>1, FS_EmptySet DEF DigitsIn
<1> QED BY <1>2, <1>3

LEMMA DigitsInGrow ==
    ASSUME NEW s, NEW c, NEW t, Grows(s, c, t)
    PROVE  /\ \A m \in Int, h \in Int : h <= Len(s) => DigitsIn(t, m, h) = DigitsIn(s, m, h)
           /\ \A m \in Int : m <= Len(s) + 1 =>
                 DigitsIn(t, m, Len(s) + 1) = DigitsIn(s, m, Len(s)) + (IF c \in Digits THEN 1 ELSE 0)
<1> DEFINE n == Len(s)
           D == Spots(s, Digits)
<1>0. s \in Seq(Characters)
  BY DEF Grows
<1>1. /\ n \in Nat /\ Spots(t, Digits) = IF c \in Digits THEN D \cup {n + 1} ELSE D
  BY SpotsGrow
<1>2. D \in SUBSET (1 .. n) /\ IsFiniteSet(D)
  BY <1>0, SpotsFinite
<1>3. /\ \A m, h : DigitsIn(t, m, h) = Cardinality(Spots(t, Digits) \cap (m .. h))
      /\ \A m, h : DigitsIn(s, m, h) = Cardinality(D \cap (m .. h))
  BY DEF DigitsIn
<1> HIDE DEF n, D
<1>4. ASSUME NEW m \in Int, NEW h \in Int, h <= n PROVE DigitsIn(t, m, h) = DigitsIn(s, m, h)
  <2>1. Spots(t, Digits) \cap (m .. h) = D \cap (m .. h)
    BY <1>1, <1>4
  <2> QED BY <1>3, <2>1
<1>5. ASSUME NEW m \in Int, m <= n + 1
      PROVE  DigitsIn(t, m, n + 1) = DigitsIn(s, m, n) + (IF c \in Digits THEN 1 ELSE 0)
  <2> DEFINE E == D \cap (m .. n)
  <2>1. IsFiniteSet(E) /\ n + 1 \notin E
    <3>1. IsFiniteSet(E)
      BY <1>2, FS_Subset
    <3> QED BY <1>1, <3>1
  <2>2. CASE c \in Digits
    <3>1. Spots(t, Digits) \cap (m .. n + 1) = E \cup {n + 1}
      BY <1>1, <1>2, <1>5, <2>2
    <3>2. Cardinality(E \cup {n + 1}) = Cardinality(E) + 1
      BY <2>1, FS_AddElement
    <3> QED BY <1>3, <2>2, <3>1, <3>2
  <2>3. CASE c \notin Digits
    <3>1. Spots(t, Digits) \cap (m .. n + 1) = E
      BY <1>1, <1>2, <1>5, <2>3
    <3>2. Cardinality(E) \in Nat
      BY <2>1, FS_CardinalityType
    <3> QED BY <1>3, <2>3, <3>1, <3>2
  <2> QED BY <2>2, <2>3
<1> QED BY <1>4, <1>5 DEF n

\* The last point of the group a string ends with, or its end.
LastGroup(s) == LastSpot(s, AllUnits) + 1 .. Len(s)
LastPoint(s) == Numeral!FirstOf(Spots(s, {Point}) \cap LastGroup(s), Len(s) + 1)
NoPoint(s) == Spots(s, {Point}) \cap LastGroup(s) = {}

LEMMA UnitsLast ==
    ASSUME NEW s \in Seq(Characters)
    PROVE  /\ LastSpot(s, BigUnits) \in Nat /\ LastSpot(s, AllUnits) \in Nat /\ Len(s) \in Nat
           /\ LastSpot(s, BigUnits) <= LastSpot(s, AllUnits) /\ LastSpot(s, AllUnits) <= Len(s)
<1>1. \A S : /\ LastSpot(s, S) \in 0 .. Len(s) /\ \A k \in Spots(s, S) : k <= LastSpot(s, S)
             /\ LastSpot(s, S) # 0 => LastSpot(s, S) \in Spots(s, S)
  BY LastSpotIs
<1>2. Spots(s, BigUnits) \subseteq Spots(s, AllUnits) /\ Len(s) \in Nat
  BY LenProperties DEF Spots, AllUnits
<1>3. LastSpot(s, BigUnits) <= LastSpot(s, AllUnits)
  BY <1>1, <1>2
<1> QED BY <1>1, <1>2, <1>3

LEMMA BeginGrow ==
    ASSUME NEW s, NEW c, NEW t, Grows(s, c, t),
           NEW k \in 1 .. Len(s) + 1
    PROVE  /\ BeginOf(t, k) = BeginOf(s, k)
           /\ k > LastSpot(s, AllUnits) => BeginOf(s, k) = LastSpot(s, AllUnits) + 1
<1>0. s \in Seq(Characters)
  BY DEF Grows
<1>1. /\ Len(s) \in Nat /\ Spots(s, AllUnits) \in SUBSET (1 .. Len(s))
      /\ Spots(t, AllUnits) = IF c \in AllUnits THEN Spots(s, AllUnits) \cup {Len(s) + 1}
                               ELSE Spots(s, AllUnits)
  BY SpotsAfter, <1>0, SpotsFinite
<1>2. {h \in Spots(t, AllUnits) : h < k} = {h \in Spots(s, AllUnits) : h < k}
  BY <1>1
<1>3. ASSUME k > LastSpot(s, AllUnits) PROVE {h \in Spots(s, AllUnits) : h < k} = Spots(s, AllUnits)
  <2>1. \A h \in Spots(s, AllUnits) : h <= LastSpot(s, AllUnits)
    BY <1>0, LastSpotIs
  <2> QED BY <1>1, <1>3, <2>1, <1>0, UnitsLast
<1> QED BY <1>2, <1>3 DEF BeginOf, LastSpot

\* A group that is closed stays as it is.
LEMMA ClosedGroup ==
    ASSUME NEW s, NEW c, NEW t, Grows(s, c, t),
           NEW k \in 1 .. LastSpot(s, AllUnits)
    PROVE  /\ FirstFrom(t, AllUnits, k) = FirstFrom(s, AllUnits, k)
           /\ FirstFrom(s, AllUnits, k) \in k .. LastSpot(s, AllUnits)
           /\ GroupOf(t, k) = GroupOf(s, k) /\ (ImpliedAt(t, k) <=> ImpliedAt(s, k))
           /\ Spots(t, {Point}) \cap GroupOf(s, k) = Spots(s, {Point}) \cap GroupOf(s, k)
           /\ InGroup(t, k) = InGroup(s, k) /\ InGroup(s, k) \in Int
<1> DEFINE n == Len(s)
           u == LastSpot(s, AllUnits)
           f == FirstFrom(s, AllUnits, k)
           b == BeginOf(s, k)
           Q == Spots(s, {Point}) \cap GroupOf(s, k)
<1>0. s \in Seq(Characters)
  BY DEF Grows
<1>1. u \in Nat /\ n \in Nat /\ u <= n /\ k \in 1 .. n + 1 /\ k \in 1 .. n /\ k \in 1 .. u
  BY <1>0, UnitsLast
<1>2. FirstFrom(t, AllUnits, k) = f /\ t[k] = s[k]
  <2>1. t[k] = s[k]
    BY <1>1, GrownString
  <2> QED BY <2>1, FirstStays
<1>3. f \in k .. u
  BY <1>1, <1>0, FirstFromIs
<1>4. BeginOf(t, k) = b
  BY <1>1, BeginGrow
<1>5. GroupOf(t, k) = GroupOf(s, k) /\ GroupOf(s, k) = b .. f - 1
  BY <1>2, <1>4 DEF GroupOf
<1>6. ImpliedAt(t, k) <=> ImpliedAt(s, k)
  BY <1>2, <1>5 DEF ImpliedAt
<1> HIDE DEF n, u, f, b
<1>7. Spots(t, {Point}) \cap GroupOf(s, k) = Q
  <2> DEFINE S == {Point}
  <2> HIDE DEF S
  <2>1. Spots(t, S) = IF c \in S THEN Spots(s, S) \cup {n + 1} ELSE Spots(s, S)
    BY SpotsAfter DEF n
  <2>2. n + 1 \notin b .. f - 1
    BY <1>1, <1>3
  <2>3. Spots(t, S) \cap GroupOf(s, k) = Spots(s, S) \cap GroupOf(s, k)
    BY <1>5, <2>1, <2>2
  <2> QED BY <2>3 DEF S
<1>8. PointOf(t, k) = PointOf(s, k)
  BY <1>2, <1>5, <1>7 DEF PointOf, f
<1>9. PointOf(s, k) \in 1 .. u
  <2>1. Q \in SUBSET Nat /\ Q \subseteq b .. f - 1 /\ Q \subseteq 1 .. n
    <3>1. Spots(s, {Point}) \in SUBSET (1 .. Len(s))
      BY <1>0, SpotsFinite
    <3>2. Q \subseteq 1 .. n /\ Q \subseteq b .. f - 1
      BY <1>5, <3>1 DEF n
    <3>3. 1 .. n \subseteq Nat
      OBVIOUS
    <3> QED BY <3>2, <3>3
  <2> HIDE DEF Q
  <2>2. PointOf(s, k) = Numeral!FirstOf(Q, f)
    BY DEF PointOf, Q, f
  <2>3. CASE Q = {}
    BY <1>1, <1>3, <2>2, <2>3 DEF Numeral!FirstOf
  <2>4. CASE Q # {}
    <3>1. PICK x \in Q : \A y \in Q : x <= y
      BY <2>1, <2>4, Least
    <3>2. Q \in SUBSET Int
      BY <2>1
    <3>3. PointOf(s, k) = x
      BY <2>2, <3>1, <3>2, FirstIs
    <3>4. x \in 1 .. n /\ x \in b .. f - 1
      BY <2>1, <3>1
    <3> QED BY <1>1, <1>3, <3>3, <3>4
  <2> QED BY <2>3, <2>4
<1> DEFINE m == PointOf(s, k)
<1>10. /\ DigitsIn(t, k + 1, m - 1) = DigitsIn(s, k + 1, m - 1)
       /\ DigitsIn(t, m + 1, k) = DigitsIn(s, m + 1, k)
       /\ DigitsIn(s, k + 1, m - 1) \in Nat /\ DigitsIn(s, m + 1, k) \in Nat
  <2>1. /\ m - 1 <= n /\ k <= n /\ k + 1 \in Int /\ m + 1 \in Int /\ m - 1 \in Int /\ k \in Int
    BY <1>1, <1>9
  <2> HIDE DEF m
  <2>2. \A x \in Int, y \in Int : y <= Len(s) => DigitsIn(t, x, y) = DigitsIn(s, x, y)
    BY DigitsInGrow
  <2>3. \A x, y : DigitsIn(s, x, y) \in Nat
    BY <1>0, DigitsInIs
  <2> QED BY <2>1, <2>2, <2>3 DEF n
<1>11. InGroup(t, k) = InGroup(s, k) /\ InGroup(s, k) \in Int
  BY <1>6, <1>8, <1>10 DEF InGroup
<1> QED BY <1>2, <1>3, <1>5, <1>6, <1>7, <1>11 DEF f, u

LEMMA LastPointIs ==
    ASSUME NEW s \in Seq(Characters)
    PROVE  /\ NoPoint(s) => LastPoint(s) = Len(s) + 1
           /\ ~NoPoint(s) => /\ LastPoint(s) \in Spots(s, {Point}) /\ LastPoint(s) \in LastGroup(s)
                             /\ \A h \in Spots(s, {Point}) \cap LastGroup(s) : LastPoint(s) <= h
           /\ LastPoint(s) \in LastSpot(s, AllUnits) + 1 .. Len(s) + 1
<1> DEFINE n == Len(s)
           u == LastSpot(s, AllUnits)
           Q == Spots(s, {Point}) \cap LastGroup(s)
<1>1. u \in Nat /\ n \in Nat /\ u <= n /\ LastGroup(s) = u + 1 .. n
  BY UnitsLast DEF LastGroup
<1>2. LastPoint(s) = Numeral!FirstOf(Q, n + 1) /\ (NoPoint(s) <=> Q = {})
  BY DEF LastPoint, NoPoint
<1>3. Q \subseteq Spots(s, {Point}) /\ Q \subseteq LastGroup(s)
  OBVIOUS
<1>4. Q \in SUBSET Nat /\ Q \in SUBSET Int
  BY <1>1, <1>3
<1> HIDE DEF n, u, Q
<1>5. CASE Q = {}
  BY <1>1, <1>2, <1>5 DEF Numeral!FirstOf, n, u
<1>6. CASE Q # {}
  <2>1. PICK x \in Q : \A y \in Q : x <= y
    BY <1>4, <1>6, Least
  <2>2. LastPoint(s) = x
    BY <1>2, <1>4, <2>1, FirstIs
  <2>3. x \in u + 1 .. n + 1
    BY <1>1, <1>3, <2>1
  <2> QED BY <1>2, <1>3, <1>6, <2>1, <2>2, <2>3 DEF Q, n, u
<1> QED BY <1>5, <1>6

LEMMA OpenBegin ==
    ASSUME NEW s \in Seq(Characters), NEW k, k \in LastSpot(s, AllUnits) + 1 .. Len(s) + 1
    PROVE  BeginOf(s, k) = LastSpot(s, AllUnits) + 1
<1>1. \A h \in Spots(s, AllUnits) : h <= LastSpot(s, AllUnits)
  BY LastSpotIs
<1>2. Spots(s, AllUnits) \in SUBSET (1 .. Len(s))
  BY SpotsFinite
<1>3. \A h \in Spots(s, AllUnits) : h < k
  BY <1>1, <1>2, UnitsLast
<1>4. {h \in Spots(s, AllUnits) : h < k} = Spots(s, AllUnits)
  BY <1>3
<1> QED BY <1>4 DEF BeginOf, LastSpot

\* What counts in the group a string ends with.
LEMMA OpenGroup ==
    ASSUME NEW s \in Seq(Characters), NEW k, k \in LastGroup(s)
    PROVE  /\ GroupOf(s, k) = LastGroup(s) /\ s[k] \notin AllUnits /\ ~ImpliedAt(s, k)
           /\ PowerOf(s, k) = InGroup(s, k) /\ PowerOf(s, k) \in Int
           /\ InGroup(s, k) = IF k < LastPoint(s) THEN DigitsIn(s, k + 1, LastPoint(s) - 1)
                              ELSE -DigitsIn(s, LastPoint(s) + 1, k)
<1> DEFINE n == Len(s)
           u == LastSpot(s, AllUnits)
           b == LastSpot(s, BigUnits)
<1>1. u \in Nat /\ n \in Nat /\ b \in Nat /\ b <= u /\ u <= n /\ LastGroup(s) = u + 1 .. n
  BY UnitsLast DEF LastGroup
<1>2. k \in 1 .. n + 1 /\ k > u /\ k > b /\ k \in 1 .. n /\ k \in u + 1 .. n + 1
  BY <1>1
<1>3. FirstFrom(s, AllUnits, k) = n + 1 /\ FirstFrom(s, BigUnits, k) = n + 1
  BY <1>2, FirstFromIs
<1>4. GroupOf(s, k) = LastGroup(s)
  <2>1. BeginOf(s, k) = u + 1
    BY <1>2, OpenBegin
  <2>2. (n + 1) - 1 = n
    BY <1>1
  <2> QED BY <1>1, <1>3, <2>1, <2>2 DEF GroupOf
<1>5. s[k] \notin AllUnits
  <2>1. \A h \in Spots(s, AllUnits) : h <= u
    BY LastSpotIs
  <2> QED BY <1>1, <1>2, <2>1 DEF Spots
<1>6. ~ImpliedAt(s, k)
  BY <1>5 DEF ImpliedAt, AllUnits
<1>7. PointOf(s, k) = LastPoint(s)
  BY <1>3, <1>4 DEF PointOf, LastPoint
<1>8. InGroup(s, k) = IF k < LastPoint(s) THEN DigitsIn(s, k + 1, LastPoint(s) - 1)
                      ELSE -DigitsIn(s, LastPoint(s) + 1, k)
  BY <1>6, <1>7 DEF InGroup
<1>9. InGroup(s, k) \in Int
  BY <1>8, DigitsInIs
<1>10. PowerOf(s, k) = InGroup(s, k)
  <2>1. Exp(s, n + 1) = 0
    BY <1>1 DEF Exp
  <2>2. ~(n + 1 < n + 1)
    BY <1>1
  <2>3. PowerOf(s, k) = InGroup(s, k) + 0 + 0
    BY <1>3, <2>1, <2>2 DEF PowerOf
  <2> QED BY <1>9, <2>3
<1> QED BY <1>4, <1>5, <1>6, <1>8, <1>9, <1>10

\* What a unit closes.
LEMMA UnitCloses ==
    ASSUME NEW s, NEW c, NEW t, Grows(s, c, t), c \in AllUnits,
           NEW k, k \in LastGroup(s)
    PROVE  /\ FirstFrom(t, AllUnits, k) = Len(s) + 1 /\ GroupOf(t, k) = LastGroup(s)
           /\ ~ImpliedAt(t, k) /\ InGroup(t, k) = InGroup(s, k)
<1> DEFINE n == Len(s)
           u == LastSpot(s, AllUnits)
           m == LastPoint(s)
<1>0. s \in Seq(Characters) /\ k \in LastGroup(s)
  BY DEF Grows
<1>1. u \in Nat /\ n \in Nat /\ u <= n /\ LastGroup(s) = u + 1 .. n
  BY <1>0, UnitsLast DEF LastGroup
<1>2. k \in 1 .. n + 1 /\ k > u /\ k \in u + 1 .. n + 1 /\ k \in 1 .. n
  BY <1>1
<1>3. FirstFrom(t, AllUnits, k) = n + 1
  BY <1>2, FirstComes
<1>4. t[k] = s[k]
  BY <1>2, GrownString
<1>5. GroupOf(t, k) = LastGroup(s)
  <2>1. BeginOf(t, k) = u + 1
    BY <1>2, BeginGrow
  <2>2. (n + 1) - 1 = n
    BY <1>1
  <2> QED BY <1>1, <1>3, <2>1, <2>2 DEF GroupOf
<1>6. ~ImpliedAt(t, k)
  BY <1>0, <1>4, OpenGroup DEF ImpliedAt, AllUnits
<1>7. PointOf(t, k) = m
  <2> DEFINE S == {Point}
  <2>1. Point \notin AllUnits
    BY DEF Point, AllUnits, SmallUnits, BigUnits
  <2>2. c \notin S
    BY <2>1
  <2> HIDE DEF S
  <2>3. Spots(t, S) = Spots(s, S)
    BY <2>2, SpotsAfter
  <2> QED BY <1>3, <1>5, <2>3 DEF PointOf, LastPoint, S
<1>8. InGroup(t, k) = IF k < m THEN DigitsIn(t, k + 1, m - 1) ELSE -DigitsIn(t, m + 1, k)
  BY <1>6, <1>7 DEF InGroup
<1>9. InGroup(s, k) = IF k < m THEN DigitsIn(s, k + 1, m - 1) ELSE -DigitsIn(s, m + 1, k)
  BY <1>0, OpenGroup
<1>10. m \in u + 1 .. n + 1
  BY <1>0, LastPointIs
<1> HIDE DEF m
<1>11. /\ DigitsIn(t, k + 1, m - 1) = DigitsIn(s, k + 1, m - 1)
       /\ DigitsIn(t, m + 1, k) = DigitsIn(s, m + 1, k)
  <2>1. /\ m - 1 <= n /\ k <= n /\ k + 1 \in Int /\ m + 1 \in Int /\ m - 1 \in Int /\ k \in Int
    BY <1>1, <1>2, <1>10
  <2>2. \A x \in Int, y \in Int : y <= n => DigitsIn(t, x, y) = DigitsIn(s, x, y)
    BY DigitsInGrow
  <2> QED BY <2>1, <2>2
<1> QED BY <1>3, <1>5, <1>6, <1>8, <1>9, <1>11

LEMMA PointGrow ==
    ASSUME NEW s, NEW c, NEW t, Grows(s, c, t), c \notin AllUnits
    PROVE  /\ LastSpot(t, AllUnits) = LastSpot(s, AllUnits)
           /\ LastSpot(t, BigUnits) = LastSpot(s, BigUnits)
           /\ LastGroup(t) = LastGroup(s) \cup {Len(s) + 1} /\ Len(s) + 1 \notin LastGroup(s)
           /\ Spots(t, {Point}) \cap LastGroup(t) =
                 IF c = Point THEN (Spots(s, {Point}) \cap LastGroup(s)) \cup {Len(s) + 1}
                 ELSE Spots(s, {Point}) \cap LastGroup(s)
           /\ NoPoint(t) <=> NoPoint(s) /\ c # Point
           /\ LastPoint(t) = IF ~NoPoint(s) THEN LastPoint(s)
                             ELSE IF c = Point THEN Len(s) + 1 ELSE Len(s) + 2
<1> DEFINE n == Len(s)
           u == LastSpot(s, AllUnits)
           m == n + 1
           Q == Spots(s, {Point}) \cap LastGroup(s)
           R == Spots(t, {Point}) \cap LastGroup(t)
<1>0. s \in Seq(Characters) /\ t \in Seq(Characters)
  BY GrownString
<1>1. u \in Nat /\ n \in Nat /\ u <= n /\ LastGroup(s) = u + 1 .. n
  BY <1>0, UnitsLast DEF LastGroup
<1>2. LastSpot(t, AllUnits) = u /\ Len(t) = m
  BY SpotsAfter, GrownString
<1>3. LastSpot(t, BigUnits) = LastSpot(s, BigUnits)
  <2>1. c \notin BigUnits
    BY DEF AllUnits
  <2> QED BY <2>1, SpotsAfter
<1>4. LastGroup(t) = LastGroup(s) \cup {m} /\ m \notin LastGroup(s)
  BY <1>1, <1>2 DEF LastGroup
<1>5. R = IF c = Point THEN Q \cup {m} ELSE Q
  <2> DEFINE S == {Point}
  <2>1. c \in S <=> c = Point
    OBVIOUS
  <2>2. Q = Spots(s, S) \cap LastGroup(s) /\ R = Spots(t, S) \cap LastGroup(t)
    OBVIOUS
  <2> HIDE DEF S, Q, R
  <2>3. Spots(t, S) = IF c \in S THEN Spots(s, S) \cup {m} ELSE Spots(s, S)
    BY SpotsAfter
  <2>4. m \notin Spots(s, S)
    <3>1. Spots(s, S) \in SUBSET (1 .. Len(s))
      BY <1>0, SpotsFinite
    <3> QED BY <1>1, <3>1
  <2> QED BY <1>4, <2>1, <2>2, <2>3, <2>4
<1>6. (NoPoint(s) <=> Q = {}) /\ (NoPoint(t) <=> R = {})
  BY DEF NoPoint
<1> HIDE DEF Q, R
<1>7. NoPoint(t) <=> NoPoint(s) /\ c # Point
  BY <1>5, <1>6
<1>8. LastPoint(t) = IF ~NoPoint(s) THEN LastPoint(s) ELSE IF c = Point THEN m ELSE n + 2
  <2>1. CASE ~NoPoint(s)
    <3>1. LastPoint(s) \in Q /\ \A h \in Q : LastPoint(s) <= h
      BY <1>0, <2>1, LastPointIs DEF Q
    <3>2. LastPoint(s) \in u + 1 .. n + 1
      BY <1>0, LastPointIs
    <3>3. LastPoint(s) \in R /\ \A h \in R : LastPoint(s) <= h
      BY <1>1, <1>5, <3>1, <3>2
    <3>4. LastPoint(t) \in R /\ \A h \in R : LastPoint(t) <= h
      BY <1>0, <1>7, <2>1, LastPointIs DEF R
    <3>5. LastPoint(t) \in u + 1 .. m + 1
      BY <1>0, <1>2, LastPointIs
    <3>6. LastPoint(t) <= LastPoint(s) /\ LastPoint(s) <= LastPoint(t)
      BY <3>3, <3>4
    <3> QED BY <1>1, <2>1, <3>2, <3>5, <3>6
  <2>2. CASE NoPoint(s) /\ c = Point
    <3>1. R = {m} /\ ~NoPoint(t)
      BY <1>5, <1>6, <2>2
    <3>2. LastPoint(t) \in R
      BY <1>0, <3>1, LastPointIs DEF R
    <3> QED BY <2>2, <3>1, <3>2
  <2>3. CASE NoPoint(s) /\ c # Point
    <3>1. LastPoint(t) = m + 1
      BY <1>0, <1>2, <1>7, <2>3, LastPointIs
    <3> QED BY <1>1, <2>3, <3>1
  <2> QED BY <2>1, <2>2, <2>3
<1> QED BY <1>2, <1>3, <1>4, <1>5, <1>7, <1>8 DEF Q, R, m

LEMMA UnitsAre ==
    /\ AllUnits \subseteq Int /\ AllUnits \cap Digits = {} /\ Point \notin AllUnits \cup Digits
    /\ Comma \notin AllUnits \cup Digits \cup {Point} /\ Other \notin AllUnits \cup Digits \cup {Point}
    /\ SmallUnits \cap BigUnits = {} /\ SmallUnits \subseteq AllUnits /\ BigUnits \subseteq AllUnits
    /\ \A c \in AllUnits : -c \in Nat
    /\ Characters = Digits \cup AllUnits \cup {Comma, Point, Other}
BY DEF AllUnits, SmallUnits, BigUnits, Digits, Point, Comma, Other, Characters

LEMMA ExpGrows ==
    ASSUME NEW s, NEW c, NEW t, Grows(s, c, t)
    PROVE  /\ \A k \in 1 .. Len(s) : Exp(t, k) = Exp(s, k)
           /\ Exp(t, Len(s) + 1) = -c /\ Exp(t, Len(s) + 2) = 0 /\ Exp(s, Len(s) + 1) = 0
           /\ \A k \in Spots(s, AllUnits) : Exp(s, k) \in Int
<1>1. /\ s \in Seq(Characters) /\ c \in Characters /\ t \in Seq(Characters)
      /\ Len(s) \in Nat /\ Len(t) = Len(s) + 1 /\ t[Len(s) + 1] = c
      /\ \A k \in 1 .. Len(s) : t[k] = s[k]
  BY GrownString
<1>2. \A k \in 1 .. Len(s) : Exp(t, k) = Exp(s, k)
  BY <1>1 DEF Exp
<1>3. Exp(t, Len(s) + 1) = -c /\ Exp(t, Len(s) + 2) = 0 /\ Exp(s, Len(s) + 1) = 0
  BY <1>1 DEF Exp
<1>4. \A k \in Spots(s, AllUnits) : Exp(s, k) \in Int
  <2> TAKE k \in Spots(s, AllUnits)
  <2>1. s[k] \in AllUnits
    BY DEF Spots
  <2>2. s[k] \in Int
    BY <2>1, UnitsAre
  <2> QED BY <2>2 DEF Exp
<1> QED BY <1>2, <1>3, <1>4

\* A big unit multiplies what stands between it and the big unit before.
LEMMA PowerClosed ==
    ASSUME NEW s, NEW c, NEW t, Grows(s, c, t), NEW k, k \in 1 .. LastSpot(s, AllUnits)
    PROVE  /\ k <= LastSpot(s, BigUnits) => PowerOf(t, k) = PowerOf(s, k)
           /\ k > LastSpot(s, BigUnits) =>
                 PowerOf(t, k) = PowerOf(s, k) + (IF c \in BigUnits THEN -c ELSE 0)
           /\ PowerOf(s, k) \in Int
<1> DEFINE n == Len(s)
           u == LastSpot(s, AllUnits)
           b == LastSpot(s, BigUnits)
           f == FirstFrom(s, AllUnits, k)
           g == FirstFrom(s, BigUnits, k)
           h == FirstFrom(t, BigUnits, k)
<1>0. s \in Seq(Characters) /\ c \in Characters
  BY DEF Grows
<1>1. u \in Nat /\ n \in Nat /\ b \in Nat /\ b <= u /\ u <= n
  BY <1>0, UnitsLast
<1>2. k \in 1 .. u /\ k \in 1 .. n + 1
  BY <1>1
<1>3. /\ FirstFrom(t, AllUnits, k) = f /\ f \in k .. u
      /\ InGroup(t, k) = InGroup(s, k) /\ InGroup(s, k) \in Int
  BY <1>2, ClosedGroup
<1>4. f \in Spots(s, AllUnits)
  <2>1. k <= LastSpot(s, AllUnits)
    BY <1>2
  <2> QED BY <1>0, <1>2, <2>1, FirstFromIs
<1>5. Exp(t, f) = Exp(s, f) /\ Exp(s, f) \in Int
  <2>1. f \in 1 .. n
    BY <1>1, <1>2, <1>3
  <2> QED BY <1>4, <2>1, ExpGrows
<1>6. /\ PowerOf(s, k) = InGroup(s, k) + Exp(s, g) + (IF f < g THEN Exp(s, f) ELSE 0)
      /\ PowerOf(t, k) = InGroup(t, k) + Exp(t, h)
                         + (IF FirstFrom(t, AllUnits, k) < h THEN Exp(t, FirstFrom(t, AllUnits, k)) ELSE 0)
  BY DEF PowerOf
<1> HIDE DEF n, u, b, f, g, h
<1>7. CASE k <= b
  <2>1. g \in Spots(s, BigUnits) /\ g \in k .. b
    BY <1>0, <1>2, <1>7, FirstFromIs DEF g, b, n
  <2>2. h = g
    <3>1. k \in 1 .. LastSpot(s, BigUnits)
      BY <1>1, <1>2, <1>7 DEF b
    <3>2. FirstFrom(t, BigUnits, k) = FirstFrom(s, BigUnits, k)
      BY <3>1, FirstStays
    <3> QED BY <3>2 DEF g, h
  <2>3. Exp(t, g) = Exp(s, g) /\ Exp(s, g) \in Int
    <3>1. g \in 1 .. n
      BY <1>1, <1>2, <2>1
    <3>2. g \in Spots(s, AllUnits)
      BY <2>1 DEF Spots, AllUnits
    <3> QED BY <3>1, <3>2, ExpGrows DEF n
  <2>4. PowerOf(t, k) = PowerOf(s, k) /\ PowerOf(s, k) \in Int
    BY <1>3, <1>5, <1>6, <2>2, <2>3
  <2> QED BY <1>1, <1>2, <1>7, <2>4 DEF b
<1>8. CASE k > b
  <2>1. g = n + 1
    BY <1>0, <1>2, <1>8, FirstFromIs DEF g, b, n
  <2>2. h = IF c \in BigUnits THEN n + 1 ELSE n + 2
    <3>1. k \in b + 1 .. n + 1
      BY <1>1, <1>2, <1>8
    <3> QED BY <3>1, FirstComes DEF h, b, n
  <2>3. Exp(t, n + 1) = -c /\ Exp(t, n + 2) = 0 /\ Exp(s, n + 1) = 0
    BY ExpGrows DEF n
  <2>4. f < n + 1 /\ f < n + 2
    BY <1>1, <1>3
  <2>5. PowerOf(s, k) = InGroup(s, k) + Exp(s, f)
    BY <1>3, <1>5, <1>6, <2>1, <2>3, <2>4
  <2>6. PowerOf(t, k) = InGroup(s, k) + (IF c \in BigUnits THEN -c ELSE 0) + Exp(s, f)
    BY <1>3, <1>5, <1>6, <2>2, <2>3, <2>4
  <2>7. (IF c \in BigUnits THEN -c ELSE 0) \in Int
    <3>1. c \in BigUnits => -c \in Int
      BY UnitsAre
    <3> QED BY <3>1
  <2>8. PowerOf(t, k) = PowerOf(s, k) + (IF c \in BigUnits THEN -c ELSE 0) /\ PowerOf(s, k) \in Int
    BY <1>3, <1>5, <2>5, <2>6, <2>7
  <2> QED BY <1>1, <1>2, <1>8, <2>8 DEF b
<1> QED BY <1>1, <1>2, <1>7, <1>8

\* Any unit multiplies its group; a digit multiplies it by ten, if before a point.
LEMMA PowerOpen ==
    ASSUME NEW s, NEW c, NEW t, Grows(s, c, t), NEW k, k \in LastGroup(s)
    PROVE  /\ c \in AllUnits => PowerOf(t, k) = PowerOf(s, k) + (-c)
           /\ c \in Digits /\ NoPoint(s) => PowerOf(t, k) = PowerOf(s, k) + 1
           /\ c \notin AllUnits /\ ~(c \in Digits /\ NoPoint(s)) => PowerOf(t, k) = PowerOf(s, k)
           /\ PowerOf(s, k) \in Int
<1> DEFINE n == Len(s)
           u == LastSpot(s, AllUnits)
           b == LastSpot(s, BigUnits)
           m == LastPoint(s)
<1>0. /\ s \in Seq(Characters) /\ c \in Characters /\ t \in Seq(Characters) /\ Len(t) = n + 1
      /\ k \in LastGroup(s)
  BY GrownString
<1>1. /\ u \in Nat /\ n \in Nat /\ b \in Nat /\ b <= u /\ u <= n /\ LastGroup(s) = u + 1 .. n
      /\ m \in u + 1 .. n + 1
  BY <1>0, UnitsLast, LastPointIs DEF LastGroup
<1>2. k \in u + 1 .. n
  BY <1>1
<1>3. /\ PowerOf(s, k) = InGroup(s, k) /\ PowerOf(s, k) \in Int
      /\ InGroup(s, k) = IF k < m THEN DigitsIn(s, k + 1, m - 1) ELSE -DigitsIn(s, m + 1, k)
  BY <1>0, OpenGroup
<1> HIDE DEF n, u, b, m
<1>4. ASSUME c \in AllUnits PROVE PowerOf(t, k) = PowerOf(s, k) + (-c)
  <2>1. FirstFrom(t, AllUnits, k) = n + 1 /\ InGroup(t, k) = InGroup(s, k)
    BY <1>4, UnitCloses DEF n
  <2>2. FirstFrom(t, BigUnits, k) = IF c \in BigUnits THEN n + 1 ELSE n + 2
    <3>1. k \in b + 1 .. n + 1
      BY <1>1, <1>2
    <3> QED BY <3>1, FirstComes DEF b, n
  <2>3. Exp(t, n + 1) = -c /\ Exp(t, n + 2) = 0
    BY ExpGrows DEF n
  <2>4. -c \in Int
    BY <1>4, UnitsAre
  <2>5. PowerOf(t, k) = InGroup(t, k) + Exp(t, FirstFrom(t, BigUnits, k))
                        + (IF FirstFrom(t, AllUnits, k) < FirstFrom(t, BigUnits, k)
                           THEN Exp(t, FirstFrom(t, AllUnits, k)) ELSE 0)
    BY DEF PowerOf
  <2> QED BY <1>1, <1>3, <2>1, <2>2, <2>3, <2>4, <2>5
<1>5. ASSUME c \notin AllUnits
      PROVE  PowerOf(t, k) = PowerOf(s, k) + (IF c \in Digits /\ NoPoint(s) THEN 1 ELSE 0)
  <2> DEFINE l == LastPoint(t)
  <2>1. /\ LastGroup(t) = LastGroup(s) \cup {n + 1}
        /\ l = IF ~NoPoint(s) THEN m ELSE IF c = Point THEN n + 1 ELSE n + 2
    BY <1>5, PointGrow DEF m, n
  <2>2. k \in LastGroup(t)
    BY <1>0, <2>1
  <2>3. /\ PowerOf(t, k) = InGroup(t, k)
        /\ InGroup(t, k) = IF k < l THEN DigitsIn(t, k + 1, l - 1) ELSE -DigitsIn(t, l + 1, k)
    BY <1>0, <2>2, OpenGroup
  <2>4. \A x \in Int, y \in Int : y <= n => DigitsIn(t, x, y) = DigitsIn(s, x, y)
    BY DigitsInGrow DEF n
  <2>5. DigitsIn(t, k + 1, n + 1) = DigitsIn(s, k + 1, n) + (IF c \in Digits THEN 1 ELSE 0)
    <3>1. k + 1 \in Int /\ k + 1 <= n + 1
      BY <1>1, <1>2
    <3> QED BY <3>1, DigitsInGrow DEF n
  <2>6. \A x, y : DigitsIn(s, x, y) \in Nat
    BY <1>0, DigitsInIs
  <2> HIDE DEF l
  <2>7. CASE ~NoPoint(s)
    <3>1. l = m /\ m <= n
      <4>1. m \in LastGroup(s)
        BY <1>0, <2>7, LastPointIs DEF m
      <4> QED BY <1>1, <2>1, <2>7, <4>1
    <3>2. /\ k + 1 \in Int /\ m - 1 \in Int /\ m - 1 <= n /\ m + 1 \in Int /\ k \in Int /\ k <= n
      BY <1>1, <1>2
    <3>3. /\ DigitsIn(t, k + 1, m - 1) = DigitsIn(s, k + 1, m - 1)
          /\ DigitsIn(t, m + 1, k) = DigitsIn(s, m + 1, k)
      BY <2>4, <3>2
    <3>4. InGroup(t, k) = InGroup(s, k)
      BY <1>3, <2>3, <3>1, <3>3
    <3> QED BY <1>3, <2>3, <2>7, <3>4
  <2>8. CASE NoPoint(s)
    <3>1. m = n + 1 /\ k < m /\ m - 1 = n
      <4>1. m = n + 1
        BY <1>0, <2>8, LastPointIs DEF m, n
      <4> QED BY <1>1, <1>2, <4>1
    <3>2. PowerOf(s, k) = DigitsIn(s, k + 1, n)
      BY <1>3, <3>1
    <3>3. CASE c = Point
      <4>1. l = n + 1 /\ k < l /\ l - 1 = n
        BY <2>1, <2>8, <3>1, <3>3
      <4>2. k + 1 \in Int /\ n \in Int /\ n <= n
        BY <1>1, <1>2
      <4>3. DigitsIn(t, k + 1, n) = DigitsIn(s, k + 1, n)
        BY <2>4, <4>2
      <4>4. c \notin Digits
        BY <3>3, UnitsAre
      <4> QED BY <1>3, <2>3, <3>2, <4>1, <4>3, <4>4
    <3>4. CASE c # Point
      <4>1. l = n + 2 /\ k < l /\ l - 1 = n + 1
        BY <1>1, <1>2, <2>1, <2>8, <3>4
      <4>2. PowerOf(t, k) = DigitsIn(t, k + 1, n + 1)
        BY <2>3, <4>1
      <4> QED BY <2>5, <2>6, <2>8, <3>2, <4>2
    <3> QED BY <3>3, <3>4
  <2> QED BY <2>7, <2>8
<1> QED BY <1>3, <1>4, <1>5, UnitsAre

\* What the new character counts.
LEMMA PowerNew ==
    ASSUME NEW s, NEW c, NEW t, Grows(s, c, t), NEW m, m = Len(s) + 1
    PROVE  /\ c \in Digits /\ NoPoint(s) => PowerOf(t, m) = 0
           /\ c \in Digits /\ ~NoPoint(s) =>
                 PowerOf(t, m) = -(DigitsIn(s, LastPoint(s) + 1, Len(s)) + 1)
           /\ c \in SmallUnits => /\ ImpliedAt(t, m) <=> LastSpot(s, AllUnits) = Len(s)
                                  /\ LastSpot(s, AllUnits) = Len(s) => PowerOf(t, m) = -c
           /\ c \notin SmallUnits => ~ImpliedAt(t, m)
<1> DEFINE n == Len(s)
           u == LastSpot(s, AllUnits)
           b == LastSpot(s, BigUnits)
           l == LastPoint(t)
<1>0. /\ s \in Seq(Characters) /\ c \in Characters /\ t \in Seq(Characters) /\ Len(t) = n + 1
      /\ m = n + 1 /\ t[m] = c
  BY GrownString
<1>1. u \in Nat /\ n \in Nat /\ b \in Nat /\ b <= u /\ u <= n /\ LastGroup(s) = u + 1 .. n
  BY <1>0, UnitsLast DEF LastGroup
<1> HIDE DEF n, u, b
<1>2. ASSUME c \in Digits
      PROVE  PowerOf(t, m) = IF NoPoint(s) THEN 0 ELSE -(DigitsIn(s, LastPoint(s) + 1, n) + 1)
  <2>1. c \notin AllUnits /\ c # Point
    BY <1>2, UnitsAre
  <2>2. m \in LastGroup(t) /\ l = IF NoPoint(s) THEN n + 2 ELSE LastPoint(s)
    BY <1>0, <2>1, PointGrow DEF n
  <2>3. /\ PowerOf(t, m) = InGroup(t, m)
        /\ InGroup(t, m) = IF m < l THEN DigitsIn(t, m + 1, l - 1) ELSE -DigitsIn(t, l + 1, m)
    BY <1>0, <2>2, OpenGroup
  <2>4. CASE NoPoint(s)
    <3>1. m < l /\ m + 1 > l - 1 /\ m + 1 \in Int /\ l - 1 \in Int
      BY <1>0, <1>1, <2>2, <2>4
    <3>2. DigitsIn(t, m + 1, l - 1) = 0
      BY <1>0, <3>1, DigitsInIs
    <3> QED BY <2>3, <2>4, <3>1, <3>2
  <2>5. CASE ~NoPoint(s)
    <3>1. LastPoint(s) \in u + 1 .. n
      BY <1>0, <1>1, <2>5, LastPointIs
    <3>2. l = LastPoint(s) /\ ~(m < l) /\ l + 1 \in Int /\ l + 1 <= n + 1
      BY <1>0, <1>1, <2>2, <2>5, <3>1
    <3>3. DigitsIn(t, l + 1, n + 1) = DigitsIn(s, l + 1, n) + 1
      BY <1>2, <3>2, DigitsInGrow DEF n
    <3> QED BY <1>0, <2>3, <2>5, <3>2, <3>3
  <2> QED BY <2>4, <2>5
<1>3. ASSUME c \in SmallUnits
      PROVE  (ImpliedAt(t, m) <=> u = n) /\ (u = n => PowerOf(t, m) = -c)
  <2>1. c \in AllUnits /\ c \notin BigUnits /\ -c \in Int
    BY <1>3, UnitsAre
  <2>2. FirstFrom(t, AllUnits, m) = m
    <3>1. m \in u + 1 .. n + 1
      BY <1>0, <1>1
    <3> QED BY <1>0, <2>1, <3>1, FirstComes DEF u, n
  <2>3. BeginOf(t, m) = u + 1
    <3>1. m \in 1 .. n + 1 /\ m > u
      BY <1>0, <1>1
    <3> QED BY <3>1, BeginGrow DEF u, n
  <2>4. GroupOf(t, m) = u + 1 .. m - 1
    BY <2>2, <2>3 DEF GroupOf
  <2>5. GroupOf(t, m) = {} <=> u = n
    <3>1. CASE u = n
      <4>1. u + 1 > m - 1
        BY <1>0, <1>1, <3>1
      <4>2. u + 1 .. m - 1 = {}
        BY <1>0, <1>1, <4>1
      <4> QED BY <2>4, <3>1, <4>2
    <3>2. CASE u # n
      <4>1. n \in u + 1 .. m - 1
        BY <1>0, <1>1, <3>2
      <4> QED BY <2>4, <3>2, <4>1
    <3> QED BY <3>1, <3>2
  <2>6. ImpliedAt(t, m) <=> u = n
    BY <1>0, <1>3, <2>5 DEF ImpliedAt
  <2>7. ASSUME u = n PROVE PowerOf(t, m) = -c
    <3>1. InGroup(t, m) = 0
      BY <2>6, <2>7 DEF InGroup
    <3>2. FirstFrom(t, BigUnits, m) = n + 2
      <4>1. m \in b + 1 .. n + 1
        BY <1>0, <1>1
      <4> QED BY <2>1, <4>1, FirstComes DEF b, n
    <3>3. Exp(t, m) = -c /\ Exp(t, n + 2) = 0
      BY <1>0, ExpGrows DEF n
    <3>4. PowerOf(t, m) = 0 + 0 + (IF m < n + 2 THEN -c ELSE 0)
      BY <2>2, <3>1, <3>2, <3>3 DEF PowerOf
    <3> QED BY <1>0, <1>1, <2>1, <3>4
  <2> QED BY <2>6, <2>7
<1>4. ASSUME c \notin SmallUnits PROVE ~ImpliedAt(t, m)
  BY <1>0, <1>4 DEF ImpliedAt
<1> QED BY <1>2, <1>3, <1>4 DEF u, n

-----------------------------------------------------------------------------
(* A decimal that grows by a digit, or by a point                           *)

LEMMA StandsDigit ==
    ASSUME NEW d, Pointed(d), NEW T, Stands(d, T), d.scale = 0, NEW c \in Digits,
           NEW a, a = InPlace!AppendDigit(d, c)
    PROVE  /\ Pointed(a) /\ a.scale = 0 /\ a.point = d.point /\ Len(a.digits) = Len(d.digits) + 1
           /\ d.point = -1 => /\ Stands(a, Raised(T, 1) \cup {<<0, c>>})
                              /\ \A f \in T : f[1] \in Int /\ f[1] >= 0
           /\ d.point # -1 => /\ Stands(a, T \cup {<<d.point - Len(d.digits) - 1, c>>})
                              /\ \A f \in T : f[1] \in Int /\ f[1] >= d.point - Len(d.digits)
<1> DEFINE x == d.digits
           n == Len(x)
           w == FigureAt(a, n + 1)
           e == IF d.point = -1 THEN 1 ELSE 0
<1>1. /\ d \in Decimal /\ x \in Seq(Digits) /\ n \in Nat /\ d.point \in {-1} \cup Nat
      /\ d.point = -1 \/ (d.point >= 1 /\ d.point <= n)
      /\ x # <<>> <=> n >= 1
  BY PointedFields DEF Pointed
<1>2. /\ a.digits = Append(x, c) /\ a.scale = 0 /\ a.point = d.point
      /\ a.allZero = (d.allZero /\ c = 0)
  BY <1>1 DEF InPlace!AppendDigit, Decimal
<1>3. /\ a.digits \in Seq(Digits) /\ Len(a.digits) = n + 1 /\ a.digits[n + 1] = c
      /\ \A k \in 1 .. n : a.digits[k] = x[k]
  BY <1>1, <1>2, AppendProperties
<1>4. a \in Decimal
  BY <1>1, <1>3 DEF InPlace!AppendDigit, Decimal
<1>5. Pointed(a)
  BY <1>1, <1>2, <1>3, <1>4 DEF Pointed
<1>6. Base(d) = IF d.point = -1 THEN n ELSE d.point
  BY <1>1 DEF Base
<1>7. Base(a) = Base(d) + e /\ Base(d) \in Int
  BY <1>1, <1>2, <1>3, <1>6 DEF Base
<1>8. w = IF d.point = -1 THEN <<0, c>> ELSE <<d.point - n - 1, c>>
  BY <1>1, <1>3, <1>6, <1>7 DEF FigureAt
<1>9. \A k \in 1 .. n : FigureAt(a, k) = <<FigureAt(d, k)[1] + e, FigureAt(d, k)[2]>>
  <2> TAKE k \in 1 .. n
  <2>1. Base(a) - k = (Base(d) - k) + e
    BY <1>1, <1>7
  <2> QED BY <1>3, <2>1 DEF FigureAt
<1>10. \A k \in 1 .. n : FigureAt(d, k)[1] = Base(d) - k
  BY DEF FigureAt
<1>11. \A f \in T : f[1] \in Int /\ f[1] >= Base(d) - n
  <2> TAKE f \in T
  <2>1. PICK k \in 1 .. n : f = FigureAt(d, k)
    BY DEF Stands, DecimalFigures
  <2> QED BY <1>1, <1>7, <1>10, <2>1
<1> HIDE DEF x, n, w
<1>12. Stands(a, Raised(T, e) \cup {w})
  <2>1. DecimalFigures(a) = Raised(DecimalFigures(d), e) \cup {w}
    <3>1. 1 .. n + 1 = (1 .. n) \cup {n + 1}
      BY <1>1
    <3>2. DecimalFigures(a) = {FigureAt(a, k) : k \in 1 .. n} \cup {w}
      BY <1>3, <3>1 DEF DecimalFigures, w
    <3>3. DecimalFigures(d) = {FigureAt(d, k) : k \in 1 .. n}
      BY DEF DecimalFigures, n, x
    <3> HIDE DEF e
    <3>4. Raised(DecimalFigures(d), e) = {FigureAt(a, k) : k \in 1 .. n}
      BY <1>9, <3>3 DEF Raised
    <3> QED BY <3>2, <3>4
  <2> HIDE DEF e
  <2>2. Raised(T, e) \cup {w} \subseteq DecimalFigures(a)
    BY <2>1 DEF Stands, Raised
  <2>3. \A f \in DecimalFigures(a) : f[2] # 0 => f \in Raised(T, e) \cup {w}
    BY <2>1 DEF Stands, Raised
  <2>4. FigureAt(a, 1) \in Raised(T, e) \cup {w}
    <3>1. CASE n = 0
      BY <3>1 DEF w
    <3>2. CASE n # 0
      <4>1. 1 \in 1 .. n /\ d.digits # <<>>
        BY <1>1, <3>2 DEF x
      <4>2. FigureAt(d, 1) \in T
        BY <4>1 DEF Stands
      <4> QED BY <1>9, <4>1, <4>2 DEF Raised
    <3> QED BY <3>1, <3>2
  <2>5. FigureAt(a, Len(a.digits)) \in Raised(T, e) \cup {w}
    BY <1>3 DEF w
  <2> QED BY <2>2, <2>3, <2>4, <2>5 DEF Stands
<1>13. ASSUME d.point # -1 PROVE Raised(T, e) = T
  <2>1. e = 0
    BY <1>13
  <2>2. \A f \in T : <<f[1] + 0, f[2]>> = f
    <3> TAKE f \in T
    <3>1. PICK k \in 1 .. n : f = <<Base(d) - k, d.digits[k]>>
      BY DEF Stands, DecimalFigures, FigureAt, n, x
    <3> QED BY <1>1, <1>7, <3>1
  <2> HIDE DEF e
  <2> QED BY <2>1, <2>2 DEF Raised
<1>14. CASE d.point = -1
  <2>1. w = <<0, c>> /\ e = 1 /\ Base(d) - n = 0
    BY <1>1, <1>6, <1>8, <1>14
  <2> HIDE DEF e
  <2> QED BY <1>2, <1>3, <1>5, <1>11, <1>12, <1>14, <2>1 DEF n, x
<1>15. CASE d.point # -1
  <2>1. w = <<d.point - n - 1, c>> /\ Base(d) - n = d.point - n
    BY <1>1, <1>6, <1>8, <1>15
  <2> HIDE DEF e
  <2> QED BY <1>2, <1>3, <1>5, <1>11, <1>12, <1>13, <1>15, <2>1 DEF n, x
<1> QED BY <1>14, <1>15

LEMMA StandsPoint ==
    ASSUME NEW d, Pointed(d), NEW T, Stands(d, T), d.scale = 0, d.point = -1, d.digits # <<>>,
           NEW a, a = [d EXCEPT !.point = Len(d.digits)]
    PROVE  /\ Pointed(a) /\ Stands(a, T) /\ a.scale = 0 /\ a.digits = d.digits
           /\ a.point = Len(d.digits) /\ a.point >= 1
<1>1. d \in Decimal /\ Len(d.digits) \in Nat /\ Len(d.digits) >= 1
  BY PointedFields DEF Pointed
<1>2. /\ a \in Decimal /\ a.scale = 0 /\ a.digits = d.digits /\ a.point = Len(d.digits)
  BY <1>1 DEF Decimal
<1>3. Base(a) = Base(d)
  BY <1>1, <1>2 DEF Base
<1>4. Pointed(a)
  BY <1>1, <1>2 DEF Pointed
<1> QED BY <1>1, <1>2, <1>3, <1>4, StandsSame

LEMMA StandsNothing ==
    /\ Pointed(InPlace!NewDecimal) /\ Stands(InPlace!NewDecimal, {})
    /\ InPlace!NewDecimal.scale = 0 /\ InPlace!NewDecimal.point = -1
    /\ InPlace!NewDecimal.digits = <<>>
<1> DEFINE d == InPlace!NewDecimal
<1>1. d.digits = <<>> /\ Len(d.digits) = 0 /\ d.scale = 0 /\ d.point = -1
  BY DEF InPlace!NewDecimal
<1>2. Pointed(d)
  BY <1>1, NewDecimalType DEF Pointed
<1>3. DecimalFigures(d) = {}
  <2>1. 1 .. 0 = {}
    OBVIOUS
  <2> QED BY <1>1, <2>1 DEF DecimalFigures
<1>4. Stands(d, {})
  BY <1>1, <1>3 DEF Stands
<1> QED BY <1>1, <1>2, <1>4

-----------------------------------------------------------------------------
(* The figures of a stretch of a string, and whether they count ever less    *)

Fig(s, k) == <<PowerOf(s, k), IF s[k] \in Digits THEN s[k] ELSE 1>>
SpotsIn(s, l, h) == FigureSpots(s) \cap (l .. h)
Part(s, l, h) == {Fig(s, k) : k \in SpotsIn(s, l, h)}
Falls(s, l, h) == \A j, k \in SpotsIn(s, l, h) : j < k => PowerOf(s, j) > PowerOf(s, k)

LEMMA PowersAreInt ==
    ASSUME NEW s \in Seq(Characters), NEW k \in 1 .. Len(s), s[k] \in Digits \/ ImpliedAt(s, k)
    PROVE  PowerOf(s, k) \in Int
<1>1. k \in 1 .. LastSpot(s, AllUnits) \/ k \in LastGroup(s)
  BY UnitsLast DEF LastGroup
<1>2. CASE k \in LastGroup(s)
  BY <1>2, OpenGroup
<1>3. CASE k \in 1 .. LastSpot(s, AllUnits)
  <2> DEFINE c == 0
             t == Append(s, c)
  <2>1. Grows(s, c, t)
    BY DEF Grows, Characters, Digits
  <2> HIDE DEF c, t
  <2> QED BY <1>3, <2>1, PowerClosed
<1> QED BY <1>1, <1>2, <1>3

LEMMA SpotsOld ==
    ASSUME NEW s, NEW c, NEW t, Grows(s, c, t)
    PROVE  /\ \A k \in 1 .. Len(s) : k \in FigureSpots(t) <=> k \in FigureSpots(s)
           /\ \A l \in Int, h \in Int : h <= Len(s) => SpotsIn(t, l, h) = SpotsIn(s, l, h)
           /\ \A l \in Int : l <= Len(s) + 1 =>
                 SpotsIn(t, l, Len(s) + 1) = SpotsIn(s, l, Len(s)) \cup (FigureSpots(t) \cap {Len(s) + 1})
<1>0. /\ s \in Seq(Characters) /\ c \in Characters /\ t \in Seq(Characters)
      /\ Len(s) \in Nat /\ Len(t) = Len(s) + 1 /\ t[Len(s) + 1] = c
      /\ \A k \in 1 .. Len(s) : t[k] = s[k]
  BY GrownString
<1>1. ASSUME NEW k \in 1 .. Len(s) PROVE ImpliedAt(t, k) <=> ImpliedAt(s, k)
  <2>1. CASE k \in 1 .. LastSpot(s, AllUnits)
    BY <2>1, ClosedGroup
  <2>2. CASE k \in LastGroup(s)
    <3>1. ~ImpliedAt(s, k)
      BY <1>0, <2>2, OpenGroup
    <3>2. ~ImpliedAt(t, k)
      <4>1. CASE c \in AllUnits
        BY <2>2, <4>1, UnitCloses
      <4>2. CASE c \notin AllUnits
        <5>1. k \in LastGroup(t)
          BY <2>2, <4>2, PointGrow
        <5> QED BY <1>0, <5>1, OpenGroup
      <4> QED BY <4>1, <4>2
    <3> QED BY <3>1, <3>2
  <2>3. k \in 1 .. LastSpot(s, AllUnits) \/ k \in LastGroup(s)
    BY <1>0, UnitsLast DEF LastGroup
  <2> QED BY <2>1, <2>2, <2>3
<1>2. \A k \in 1 .. Len(s) : k \in FigureSpots(t) <=> k \in FigureSpots(s)
  BY <1>0, <1>1 DEF FigureSpots
<1>3. FigureSpots(s) \subseteq 1 .. Len(s) /\ FigureSpots(t) \subseteq 1 .. Len(s) + 1
  BY <1>0 DEF FigureSpots
<1> DEFINE n == Len(s)
           F == FigureSpots(s)
           G == FigureSpots(t)
<1>4. /\ n \in Nat /\ F \subseteq 1 .. n /\ G \subseteq 1 .. n + 1
      /\ \A k \in 1 .. n : k \in G <=> k \in F
  BY <1>0, <1>2, <1>3
<1> HIDE DEF n, F, G
<1>5. ASSUME NEW l \in Int, NEW h \in Int, h <= n PROVE G \cap (l .. h) = F \cap (l .. h)
  <2>1. \A k : k \in G \cap (l .. h) <=> k \in F \cap (l .. h)
    BY <1>4, <1>5
  <2> QED BY <2>1
<1>6. ASSUME NEW l \in Int, l <= n + 1
      PROVE  G \cap (l .. n + 1) = (F \cap (l .. n)) \cup (G \cap {n + 1})
  <2>1. \A k : k \in G \cap (l .. n + 1) <=> k \in (F \cap (l .. n)) \cup (G \cap {n + 1})
    <3> TAKE k
    <3>1. k \in G => k \in 1 .. n \/ k = n + 1
      BY <1>4
    <3>2. k \in 1 .. n => (k \in l .. n + 1 <=> k \in l .. n) /\ k # n + 1
      BY <1>4
    <3>3. n + 1 \in l .. n + 1 /\ n + 1 \notin F
      BY <1>4, <1>6
    <3>4. k \in F => k \in 1 .. n
      BY <1>4
    <3> QED BY <1>4, <3>1, <3>2, <3>3, <3>4
  <2> QED BY <2>1
<1> QED BY <1>2, <1>5, <1>6 DEF SpotsIn, n, F, G

\* A stretch whose powers are all raised by the same.
LEMMA PartRaised ==
    ASSUME NEW s, NEW c, NEW t, Grows(s, c, t), NEW l \in Nat, NEW h \in Nat, h <= Len(s), l >= 1,
           NEW e \in Int, \A k \in l .. h : PowerOf(t, k) = PowerOf(s, k) + e
    PROVE  /\ Part(t, l, h) = Raised(Part(s, l, h), e) /\ SpotsIn(t, l, h) = SpotsIn(s, l, h)
           /\ e = 0 => Part(t, l, h) = Part(s, l, h)
           /\ Falls(t, l, h) <=> Falls(s, l, h)
<1>0. /\ s \in Seq(Characters) /\ Len(s) \in Nat /\ \A k \in 1 .. Len(s) : t[k] = s[k]
  BY GrownString
<1> DEFINE F == SpotsIn(s, l, h)
<1>1. SpotsIn(t, l, h) = F
  BY SpotsOld
<1>2. \A k \in F : k \in l .. h /\ k \in 1 .. Len(s) /\ k \in FigureSpots(s)
  BY <1>0 DEF SpotsIn
<1>3. \A k \in F : PowerOf(s, k) \in Int
  BY <1>0, <1>2, PowersAreInt DEF FigureSpots
<1>4. \A k \in F : PowerOf(t, k) = PowerOf(s, k) + e /\ t[k] = s[k]
  BY <1>0, <1>2
<1>5. Part(t, l, h) = {Fig(t, k) : k \in F} /\ Part(s, l, h) = {Fig(s, k) : k \in F}
  BY <1>1 DEF Part
<1>6. /\ Falls(t, l, h) <=> \A j, k \in F : j < k => PowerOf(t, j) > PowerOf(t, k)
      /\ Falls(s, l, h) <=> \A j, k \in F : j < k => PowerOf(s, j) > PowerOf(s, k)
  BY <1>1 DEF Falls
<1> HIDE DEF F
<1>7. \A k \in F : Fig(t, k) = <<Fig(s, k)[1] + e, Fig(s, k)[2]>>
  BY <1>4 DEF Fig
<1>8. Part(t, l, h) = Raised(Part(s, l, h), e)
  BY <1>5, <1>7 DEF Raised
<1>9. ASSUME e = 0 PROVE Part(t, l, h) = Part(s, l, h)
  <2>1. \A k \in F : Fig(t, k) = Fig(s, k)
    <3> TAKE k \in F
    <3>1. PowerOf(t, k) = PowerOf(s, k)
      BY <1>3, <1>4, <1>9
    <3> QED BY <1>4, <3>1 DEF Fig
  <2> QED BY <1>5, <2>1
<1>10. \A j, k \in F : PowerOf(t, j) > PowerOf(t, k) <=> PowerOf(s, j) > PowerOf(s, k)
  BY <1>3, <1>4
<1>11. Falls(t, l, h) <=> Falls(s, l, h)
  BY <1>6, <1>10
<1> QED BY <1>1, <1>8, <1>9, <1>11 DEF F

\* Two stretches, one behind the other.
LEMMA PartsMeet ==
    ASSUME NEW s \in Seq(Characters), NEW l \in Nat, NEW m \in Nat, NEW h \in Nat,
           l <= m + 1, m <= h
    PROVE  /\ SpotsIn(s, l, h) = SpotsIn(s, l, m) \cup SpotsIn(s, m + 1, h)
           /\ Part(s, l, h) = Part(s, l, m) \cup Part(s, m + 1, h)
           /\ Falls(s, l, h) <=> /\ Falls(s, l, m) /\ Falls(s, m + 1, h)
                                 /\ \A f \in Part(s, l, m), g \in Part(s, m + 1, h) : f[1] > g[1]
<1> DEFINE A == SpotsIn(s, l, m)
           B == SpotsIn(s, m + 1, h)
           C == SpotsIn(s, l, h)
<1>1. l .. h = (l .. m) \cup (m + 1 .. h)
  OBVIOUS
<1>2. C = A \cup B
  BY <1>1 DEF SpotsIn
<1>3. /\ \A k \in A : k \in Int /\ k <= m
      /\ \A k \in B : k \in Int /\ k > m
  BY DEF SpotsIn
<1>4. /\ Part(s, l, m) = {Fig(s, k) : k \in A} /\ Part(s, m + 1, h) = {Fig(s, k) : k \in B}
      /\ Part(s, l, h) = {Fig(s, k) : k \in C}
  BY DEF Part
<1>5. /\ Falls(s, l, m) <=> \A j, k \in A : j < k => PowerOf(s, j) > PowerOf(s, k)
      /\ Falls(s, m + 1, h) <=> \A j, k \in B : j < k => PowerOf(s, j) > PowerOf(s, k)
      /\ Falls(s, l, h) <=> \A j, k \in C : j < k => PowerOf(s, j) > PowerOf(s, k)
  BY DEF Falls
<1> HIDE DEF A, B, C
<1>6. Part(s, l, h) = Part(s, l, m) \cup Part(s, m + 1, h)
  BY <1>2, <1>4
<1>7. \A k : Fig(s, k)[1] = PowerOf(s, k)
  BY DEF Fig
<1>8. (\A f \in Part(s, l, m), g \in Part(s, m + 1, h) : f[1] > g[1])
      <=> \A j \in A, k \in B : PowerOf(s, j) > PowerOf(s, k)
  <2>1. ASSUME \A f \in Part(s, l, m), g \in Part(s, m + 1, h) : f[1] > g[1]
        PROVE  \A j \in A, k \in B : PowerOf(s, j) > PowerOf(s, k)
    <3> TAKE j \in A, k \in B
    <3>1. Fig(s, j)[1] > Fig(s, k)[1]
      BY <1>4, <2>1
    <3> QED BY <1>7, <3>1
  <2>2. ASSUME \A j \in A, k \in B : PowerOf(s, j) > PowerOf(s, k)
        PROVE  \A f \in Part(s, l, m), g \in Part(s, m + 1, h) : f[1] > g[1]
    BY <1>4, <1>7, <2>2
  <2> QED BY <2>1, <2>2
<1>9. \A j \in A, k \in B : j < k /\ ~(k < j)
  BY <1>3
<1>10. Falls(s, l, h) <=> /\ Falls(s, l, m) /\ Falls(s, m + 1, h)
                          /\ \A j \in A, k \in B : PowerOf(s, j) > PowerOf(s, k)
  BY <1>2, <1>5, <1>9
<1> QED BY <1>2, <1>6, <1>8, <1>10 DEF A, B, C

LEMMA PartsUnion ==
    ASSUME NEW s \in Seq(Characters), NEW l \in Nat, NEW m \in Nat, NEW h \in Nat,
           l <= m + 1, m <= h
    PROVE  Part(s, l, h) = Part(s, l, m) \cup Part(s, m + 1, h)
BY PartsMeet

\* A stretch without, and with one figure.
LEMMA PartOfFew ==
    ASSUME NEW s \in Seq(Characters), NEW l \in Nat, NEW h \in Nat
    PROVE  /\ l > h => SpotsIn(s, l, h) = {} /\ Part(s, l, h) = {} /\ Falls(s, l, h)
           /\ l = h => /\ l \in FigureSpots(s) => Part(s, l, h) = {Fig(s, l)}
                       /\ l \notin FigureSpots(s) => Part(s, l, h) = {}
                       /\ Falls(s, l, h)
           /\ Part(s, l, h) = {} <=> SpotsIn(s, l, h) = {}
<1>1. ASSUME l > h PROVE SpotsIn(s, l, h) = {}
  <2>1. l .. h = {}
    BY <1>1
  <2> QED BY <2>1 DEF SpotsIn
<1>2. ASSUME l = h PROVE SpotsIn(s, l, h) = FigureSpots(s) \cap {l} /\ Falls(s, l, h)
  <2>1. l .. h = {l}
    BY <1>2
  <2>2. SpotsIn(s, l, h) = FigureSpots(s) \cap {l}
    BY <2>1 DEF SpotsIn
  <2> QED BY <2>2 DEF Falls
<1>3. Part(s, l, h) = {} <=> SpotsIn(s, l, h) = {}
  BY DEF Part
<1>4. SpotsIn(s, l, h) = {} => Falls(s, l, h)
  BY DEF Falls
<1>5. ASSUME l = h, l \in FigureSpots(s) PROVE Part(s, l, h) = {Fig(s, l)}
  <2>1. SpotsIn(s, l, h) = {l}
    BY <1>2, <1>5
  <2> QED BY <2>1 DEF Part
<1> QED BY <1>1, <1>2, <1>3, <1>4, <1>5

-----------------------------------------------------------------------------
(* A parser that has read s: its three decimals stand for the figures up to  *)
(* the last big unit, from there to the last unit, and from there on         *)

\* The sums, each for its part, in which figures count ever less.
Sums(q, s) ==
    LET b == LastSpot(s, BigUnits)
        u == LastSpot(s, AllUnits)
    IN  /\ Pointed(q.total) /\ Stands(q.total, Part(s, 1, b))
        /\ Pointed(q.subtotal) /\ Stands(q.subtotal, Part(s, b + 1, u))
        /\ Pointed(q.tmp) /\ Stands(q.tmp, Part(s, u + 1, Len(s))) /\ q.tmp.scale = 0
        /\ Falls(s, 1, b) /\ Falls(s, b + 1, u) /\ Falls(s, u + 1, Len(s))

\* tmp knows of the point since the last unit.
PointSeen(q, s) ==
    IF NoPoint(s) THEN q.tmp.point = -1
    ELSE /\ q.tmp.point # -1
         /\ Len(q.tmp.digits) - q.tmp.point = DigitsIn(s, LastPoint(s) + 1, Len(s))

\* A point with no digit to come.
Hanging(s) == \E k \in Spots(s, {Point}) : \A j \in Spots(s, Digits) : j <= k

\* Up to each unit, and to each big unit, there is a figure.
Flags(q, s) ==
    LET b == LastSpot(s, BigUnits)
        u == LastSpot(s, AllUnits)
    IN  /\ q.err = "none" /\ (q.hasHangingPoint <=> Hanging(s)) /\ (q.isFirstDigit <=> u = Len(s))
        /\ u < Len(s) => s[u + 1] \in Digits
        /\ b < u => Part(s, b + 1, u) # {}
        /\ 0 < b => Part(s, 1, b) # {}

\* Points and big units stand where they may.
PointRight(s, k) == k > 1 /\ s[k - 1] \in Digits /\ Spots(s, {Point}) \cap GroupOf(s, k) = {k}
BigRight(s, k) == k > 1 /\ s[k - 1] \notin BigUnits
Plain(q, s) ==
    /\ Spots(s, {Other}) = {}
    /\ \A k \in Spots(s, BigUnits) : BigRight(s, k)
    /\ CommaAt(s) = {} => ~q.hasComma /\ \A k \in Spots(s, {Point}) : PointRight(s, k)

ParsedSo(q, s) == Sums(q, s) /\ PointSeen(q, s) /\ Flags(q, s) /\ Plain(q, s)

LEMMA NoSpots == \A S : Spots(<<>>, S) = {} /\ LastSpot(<<>>, S) = 0
<1>1. ASSUME NEW S PROVE Spots(<<>>, S) = {}
  BY DEF Spots
<1>2. <<>> \in Seq(Characters)
  OBVIOUS
<1> QED BY <1>1, <1>2, LastSpotOnly

LEMMA ParsedNothing == ParsedSo(InPlace!NewParser, <<>>)
<1> DEFINE q == InPlace!NewParser
           s == <<>>
<1>1. /\ q.total = InPlace!NewDecimal /\ q.subtotal = InPlace!NewDecimal /\ q.tmp = InPlace!NewDecimal
      /\ q.err = "none" /\ q.hasHangingPoint = FALSE /\ q.isFirstDigit = TRUE /\ q.hasComma = FALSE
  BY DEF InPlace!NewParser
<1>2. s \in Seq(Characters) /\ Len(s) = 0
  OBVIOUS
<1>3. \A S : Spots(s, S) = {} /\ LastSpot(s, S) = 0
  BY NoSpots
<1> HIDE DEF q, s
<1>4. Part(s, 1, 0) = {} /\ Falls(s, 1, 0)
  <2> DEFINE x == 1
             y == 0
  <2>1. x \in Nat /\ y \in Nat /\ x > y
    OBVIOUS
  <2> HIDE DEF x, y
  <2>2. Part(s, x, y) = {} /\ Falls(s, x, y)
    BY <1>2, <2>1, PartOfFew
  <2> QED BY <2>2 DEF x, y
<1>5. 0 + 1 = 1
  OBVIOUS
<1>6. Sums(q, s)
  BY <1>1, <1>2, <1>3, <1>4, <1>5, StandsNothing DEF Sums
<1>7. PointSeen(q, s)
  BY <1>1, <1>3, StandsNothing DEF PointSeen, NoPoint
<1>8. Flags(q, s)
  BY <1>1, <1>2, <1>3 DEF Flags, Hanging
<1>9. Plain(q, s)
  BY <1>1, <1>3 DEF Plain
<1> QED BY <1>6, <1>7, <1>8, <1>9 DEF ParsedSo, q, s

LEMMA PlaceKept ==
    ASSUME NEW s, NEW c, NEW t, Grows(s, c, t), NEW k \in 1 .. Len(s)
    PROVE  /\ BigRight(t, k) <=> BigRight(s, k)
           /\ c # Point \/ k \in 1 .. LastSpot(s, AllUnits) => (PointRight(t, k) <=> PointRight(s, k))
<1>0. /\ s \in Seq(Characters) /\ c \in Characters /\ t \in Seq(Characters)
      /\ Len(s) \in Nat /\ \A h \in 1 .. Len(s) : t[h] = s[h]
  BY GrownString
<1>1. k > 1 => t[k - 1] = s[k - 1]
  <2>1. k > 1 => k - 1 \in 1 .. Len(s)
    BY <1>0
  <2> QED BY <1>0, <2>1
<1>2. ASSUME c # Point \/ k \in 1 .. LastSpot(s, AllUnits)
      PROVE  Spots(t, {Point}) \cap GroupOf(t, k) = Spots(s, {Point}) \cap GroupOf(s, k)
  <2>1. CASE k \in 1 .. LastSpot(s, AllUnits)
    BY <2>1, ClosedGroup, ZenonT(60)
  <2>2. CASE k \in LastGroup(s) /\ c # Point
    <3>1. GroupOf(s, k) = LastGroup(s)
      BY <1>0, <2>2, OpenGroup
    <3>2. CASE c \in AllUnits
      <4> DEFINE S == {Point}
      <4>1. GroupOf(t, k) = LastGroup(s)
        BY <2>2, <3>2, UnitCloses
      <4>2. c \notin S
        BY <2>2
      <4> HIDE DEF S
      <4>3. Spots(t, S) = Spots(s, S)
        BY <4>2, SpotsAfter
      <4> QED BY <3>1, <4>1, <4>3 DEF S
    <3>3. CASE c \notin AllUnits
      <4>3. /\ LastGroup(t) = LastGroup(s) \cup {Len(s) + 1}
            /\ Spots(t, {Point}) \cap LastGroup(t) =
                  IF c = Point THEN (Spots(s, {Point}) \cap LastGroup(s)) \cup {Len(s) + 1}
                  ELSE Spots(s, {Point}) \cap LastGroup(s)
        BY <3>3, PointGrow, Zenon
      <4>1. /\ k \in LastGroup(t)
            /\ Spots(t, {Point}) \cap LastGroup(t) = Spots(s, {Point}) \cap LastGroup(s)
        BY <2>2, <4>3
      <4>2. GroupOf(t, k) = LastGroup(t)
        BY <1>0, <4>1, OpenGroup
      <4> QED BY <3>1, <4>1, <4>2
    <3> QED BY <3>2, <3>3
  <2>3. k \in 1 .. LastSpot(s, AllUnits) \/ k \in LastGroup(s)
    BY <1>0, UnitsLast DEF LastGroup
  <2> QED BY <1>2, <2>1, <2>2, <2>3
<1> QED BY <1>1, <1>2 DEF PointRight, BigRight

\* What a numeral is, of the figures and the spots of its characters.
LEMMA NumeralIf ==
    ASSUME NEW s \in Seq(Characters)
    PROVE  Numeral!IsNumeral(s) <=>
               /\ s # <<>> /\ Spots(s, {Other}) = {} /\ Falls(s, 1, Len(s))
               /\ \A k \in Spots(s, BigUnits) : BigRight(s, k)
               /\ \A k \in Spots(s, {Point}) : PointRight(s, k)
               /\ ~Hanging(s)
<1>1. \A S : Numeral!At(s, S) = Spots(s, S)
  BY SpotsAre
<1>2. \A k \in 1 .. Len(s) : Numeral!Power(s, k) = PowerOf(s, k) /\ Numeral!Group(s, k) = GroupOf(s, k)
  BY PowersSame
<1>3. Numeral!Figures(s) = FigureSpots(s) /\ FigureSpots(s) = SpotsIn(s, 1, Len(s))
  <2>1. CASE s = <<>>
    <3>1. Len(s) = 0 /\ DOMAIN s = {} /\ 1 .. Len(s) = {}
      BY <2>1
    <3> QED BY <3>1 DEF Numeral!Figures, FigureSpots, SpotsIn
  <2>2. CASE s # <<>>
    <3>1. 1 \in 1 .. Len(s)
      BY <2>2, EmptySeq, LenProperties
    <3>2. Numeral!Figures(s) = FigureSpots(s)
      BY <3>1, PowersSame
    <3> QED BY <3>2 DEF FigureSpots, SpotsIn
  <2> QED BY <2>1, <2>2
<1>4. \A k \in FigureSpots(s) : k \in 1 .. Len(s)
  BY DEF FigureSpots
<1>5. (\A j, k \in Numeral!Figures(s) : j < k => Numeral!Power(s, j) > Numeral!Power(s, k))
      <=> Falls(s, 1, Len(s))
  BY <1>2, <1>3, <1>4 DEF Falls
<1>6. \A S : \A k \in Spots(s, S) : k \in 1 .. Len(s)
  BY DEF Spots
<1>7. (\A k \in Numeral!At(s, Numeral!BigUnits) : k > 1 /\ s[k - 1] \notin Numeral!BigUnits)
      <=> \A k \in Spots(s, BigUnits) : BigRight(s, k)
  BY <1>1, CharsSame DEF BigRight
<1>8. Numeral!At(s, {Numeral!Point}) = Spots(s, {Point}) /\ Numeral!At(s, Numeral!Digits) = Spots(s, Digits)
      /\ Numeral!At(s, {Numeral!Other}) = Spots(s, {Other})
  BY <1>1, CharsSame
<1>9. Hanging(s) <=> \E k \in Spots(s, {Point}) : ~\E j \in Spots(s, Digits) : k < j
  <2>1. \A S : Spots(s, S) \in SUBSET Int
    BY SpotsFinite
  <2>2. Spots(s, {Point}) \in SUBSET Int /\ Spots(s, Digits) \in SUBSET Int
    BY <2>1
  <2>3. \A k \in Spots(s, {Point}) :
           (\A j \in Spots(s, Digits) : j <= k) <=> ~\E j \in Spots(s, Digits) : k < j
    BY <2>2
  <2> QED BY <2>3 DEF Hanging
<1>10. (\A k \in Numeral!At(s, {Numeral!Point}) :
           /\ k > 1 /\ s[k - 1] \in Numeral!Digits
           /\ Numeral!At(s, {Numeral!Point}) \cap Numeral!Group(s, k) = {k}
           /\ \E j \in Numeral!At(s, Numeral!Digits) : k < j)
       <=> (\A k \in Spots(s, {Point}) : PointRight(s, k)) /\ ~Hanging(s)
  <2>1. \A k \in Spots(s, {Point}) : Numeral!Group(s, k) = GroupOf(s, k)
    BY <1>2, <1>6
  <2> QED BY <1>8, <1>9, <2>1, CharsSame DEF PointRight
<1> QED BY <1>5, <1>7, <1>8, <1>10 DEF Numeral!IsNumeral

\* What a character that is no unit leaves of the closed groups.
LEMMA ClosedParts ==
    ASSUME NEW s, NEW c, NEW t, Grows(s, c, t), c \notin BigUnits
    PROVE  LET b == LastSpot(s, BigUnits)
               u == LastSpot(s, AllUnits)
           IN  /\ LastSpot(t, BigUnits) = b
               /\ Part(t, 1, b) = Part(s, 1, b) /\ (Falls(t, 1, b) <=> Falls(s, 1, b))
               /\ Part(t, b + 1, u) = Part(s, b + 1, u)
               /\ Falls(t, b + 1, u) <=> Falls(s, b + 1, u)
<1> DEFINE b == LastSpot(s, BigUnits)
           u == LastSpot(s, AllUnits)
<1>1. s \in Seq(Characters)
  BY GrownString
<1>2. b \in Nat /\ u \in Nat /\ Len(s) \in Nat /\ b <= u /\ u <= Len(s)
  BY <1>1, UnitsLast
<1>3. LastSpot(t, BigUnits) = b
  BY SpotsAfter
<1>4. \A k \in 1 .. u : PowerOf(t, k) = PowerOf(s, k) + 0
  <2> TAKE k \in 1 .. u
  <2>1. k \in 1 .. LastSpot(s, AllUnits) /\ (k <= LastSpot(s, BigUnits) \/ k > LastSpot(s, BigUnits))
    BY <1>2
  <2>2. PowerOf(t, k) = PowerOf(s, k) \/ PowerOf(t, k) = PowerOf(s, k) + 0
    BY <2>1, PowerClosed
  <2>3. PowerOf(s, k) \in Int
    BY <2>1, PowerClosed
  <2> QED BY <2>2, <2>3
<1> HIDE DEF b, u
<1>5. Part(t, 1, b) = Part(s, 1, b) /\ (Falls(t, 1, b) <=> Falls(s, 1, b))
  <2> DEFINE l == 1
             e == 0
  <2>1. l \in Nat /\ b \in Nat /\ b <= Len(s) /\ l >= 1 /\ e \in Int /\ e = 0
        /\ \A k \in l .. b : PowerOf(t, k) = PowerOf(s, k) + e
    BY <1>2, <1>4
  <2> HIDE DEF l, e
  <2>2. Part(t, l, b) = Part(s, l, b) /\ (Falls(t, l, b) <=> Falls(s, l, b))
    BY <2>1, PartRaised
  <2> QED BY <2>2 DEF l
<1>6. Part(t, b + 1, u) = Part(s, b + 1, u) /\ (Falls(t, b + 1, u) <=> Falls(s, b + 1, u))
  <2> DEFINE l == b + 1
             e == 0
  <2>1. l \in Nat /\ u \in Nat /\ u <= Len(s) /\ l >= 1 /\ e \in Int /\ e = 0
        /\ \A k \in l .. u : PowerOf(t, k) = PowerOf(s, k) + e
    BY <1>2, <1>4
  <2> HIDE DEF l, e
  <2>2. Part(t, l, u) = Part(s, l, u) /\ (Falls(t, l, u) <=> Falls(s, l, u))
    BY <2>1, PartRaised
  <2> QED BY <2>2 DEF l
<1> QED BY <1>3, <1>5, <1>6 DEF b, u

\* The open group, of which all powers are raised by e.
LEMMA OpenPart ==
    ASSUME NEW s, NEW c, NEW t, Grows(s, c, t), NEW e \in Int,
           \A k \in LastGroup(s) : PowerOf(t, k) = PowerOf(s, k) + e,
           NEW l, l = LastSpot(s, AllUnits) + 1
    PROVE  /\ Part(t, l, Len(s)) = Raised(Part(s, l, Len(s)), e)
           /\ e = 0 => Part(t, l, Len(s)) = Part(s, l, Len(s))
           /\ Falls(t, l, Len(s)) <=> Falls(s, l, Len(s))
<1>1. s \in Seq(Characters)
  BY GrownString
<1>2. LastSpot(s, AllUnits) \in Nat /\ Len(s) \in Nat /\ LastGroup(s) = l .. Len(s)
  BY <1>1, UnitsLast DEF LastGroup
<1>3. /\ l \in Nat /\ Len(s) \in Nat /\ Len(s) <= Len(s) /\ l >= 1
      /\ \A k \in l .. Len(s) : PowerOf(t, k) = PowerOf(s, k) + e
  BY <1>2
<1> DEFINE h == Len(s)
<1>4. h \in Nat /\ h <= Len(s) /\ \A k \in l .. h : PowerOf(t, k) = PowerOf(s, k) + e
  BY <1>3
<1> HIDE DEF h
<1>5. /\ Part(t, l, h) = Raised(Part(s, l, h), e)
      /\ e = 0 => Part(t, l, h) = Part(s, l, h)
      /\ Falls(t, l, h) <=> Falls(s, l, h)
  BY <1>3, <1>4, PartRaised
<1> QED BY <1>5 DEF h

\* One lemma for each kind of character: it is appended, or refused rightly.
LEMMA DigitParsed ==
    ASSUME NEW s, NEW c, NEW t, Grows(s, c, t), c \in Digits, NEW q \in Parser, ParsedSo(q, s),
           NEW r, r = InPlace!AppendChar(q, c).p
    PROVE  ParsedSo(r, t)
<1> DEFINE n == Len(s)
           b == LastSpot(s, BigUnits)
           u == LastSpot(s, AllUnits)
           T == Part(s, u + 1, n)
           d == q.tmp
           a == InPlace!AppendDigit(d, c)
           w == PowerOf(t, n + 1)
<1>0. /\ s \in Seq(Characters) /\ t \in Seq(Characters) /\ n \in Nat /\ Len(t) = n + 1
      /\ t[n + 1] = c /\ \A k \in 1 .. n : t[k] = s[k]
  BY GrownString
<1>1. b \in Nat /\ u \in Nat /\ b <= u /\ u <= n /\ LastGroup(s) = u + 1 .. n
  BY <1>0, UnitsLast DEF LastGroup
<1>2. c \notin AllUnits /\ c \notin BigUnits /\ c \notin SmallUnits /\ c # Point /\ c # Comma /\ c # Other
  BY UnitsAre DEF AllUnits
<1>3. r = [q EXCEPT !.tmp = a, !.isFirstDigit = FALSE, !.digitLen = @ + 1, !.hasHangingPoint = FALSE]
  <2>1. InPlace!AppendChar(q, c) = InPlace!AppendNumeral(q, c)
    BY DigitAnswers
  <2> QED BY <2>1 DEF InPlace!AppendNumeral, InPlace!Yes
<1>4. /\ r.total = q.total /\ r.subtotal = q.subtotal /\ r.tmp = a /\ r.err = q.err
      /\ r.isFirstDigit = FALSE /\ r.hasHangingPoint = FALSE /\ r.hasComma = q.hasComma
  BY <1>3 DEF Parser
<1>5. /\ LastSpot(t, BigUnits) = b /\ LastSpot(t, AllUnits) = u
      /\ NoPoint(t) <=> NoPoint(s)
      /\ ~NoPoint(s) => LastPoint(t) = LastPoint(s)
  BY <1>2, PointGrow
<1>6. /\ Part(t, 1, b) = Part(s, 1, b) /\ (Falls(t, 1, b) <=> Falls(s, 1, b))
      /\ Part(t, b + 1, u) = Part(s, b + 1, u)
      /\ Falls(t, b + 1, u) <=> Falls(s, b + 1, u)
  BY <1>2, ClosedParts
<1>7. /\ Pointed(q.total) /\ Stands(q.total, Part(s, 1, b))
      /\ Pointed(q.subtotal) /\ Stands(q.subtotal, Part(s, b + 1, u))
      /\ Pointed(d) /\ Stands(d, T) /\ d.scale = 0
      /\ Falls(s, 1, b) /\ Falls(s, b + 1, u) /\ Falls(s, u + 1, n)
  BY DEF ParsedSo, Sums
<1>8. IF NoPoint(s) THEN d.point = -1
      ELSE d.point # -1 /\ Len(d.digits) - d.point = DigitsIn(s, LastPoint(s) + 1, n)
  BY DEF ParsedSo, PointSeen
<1>9. /\ Pointed(a) /\ a.scale = 0 /\ a.point = d.point /\ Len(a.digits) = Len(d.digits) + 1
      /\ d.point = -1 => /\ Stands(a, Raised(T, 1) \cup {<<0, c>>})
                         /\ \A f \in T : f[1] \in Int /\ f[1] >= 0
      /\ d.point # -1 => /\ Stands(a, T \cup {<<d.point - Len(d.digits) - 1, c>>})
                         /\ \A f \in T : f[1] \in Int /\ f[1] >= d.point - Len(d.digits)
  BY <1>7, StandsDigit
<1>10. d.point \in Int /\ Len(d.digits) \in Int /\ DigitsIn(s, LastPoint(s) + 1, n) \in Nat
  <2>1. d.point \in Int /\ Len(d.digits) \in Int
    BY <1>7, PointedFields
  <2> QED BY <1>0, <2>1, DigitsInIs
<1>11. w = IF NoPoint(s) THEN 0 ELSE -(DigitsIn(s, LastPoint(s) + 1, n) + 1)
  BY PowerNew
<1>12. Part(t, n + 1, n + 1) = {<<w, c>>} /\ Falls(t, n + 1, n + 1)
  <2> DEFINE m == n + 1
  <2>1. m \in Nat /\ t[m] = c /\ m \in 1 .. Len(t)
    BY <1>0
  <2>2. m \in FigureSpots(t)
    BY <2>1 DEF FigureSpots
  <2>3. Fig(t, m) = <<w, c>>
    BY <2>1 DEF Fig
  <2> HIDE DEF m
  <2>4. Part(t, m, m) = {Fig(t, m)} /\ Falls(t, m, m)
    BY <1>0, <2>1, <2>2, PartOfFew
  <2> QED BY <2>3, <2>4 DEF m
<1>13. /\ Part(t, u + 1, n + 1) = Part(t, u + 1, n) \cup {<<w, c>>}
       /\ Falls(t, u + 1, n + 1) <=> Falls(t, u + 1, n) /\ \A f \in Part(t, u + 1, n) : f[1] > w
  <2> DEFINE l == u + 1
             h == n + 1
  <2>1. l \in Nat /\ h \in Nat /\ n \in Nat /\ l <= n + 1 /\ n <= h
    BY <1>0, <1>1
  <2>2. Part(t, n + 1, h) = {<<w, c>>} /\ Falls(t, n + 1, h)
    BY <1>12
  <2> HIDE DEF l, h, n, w
  <2>3. /\ Part(t, l, h) = Part(t, l, n) \cup Part(t, n + 1, h)
        /\ Falls(t, l, h) <=> /\ Falls(t, l, n) /\ Falls(t, n + 1, h)
                              /\ \A f \in Part(t, l, n), g \in Part(t, n + 1, h) : f[1] > g[1]
    <3>1. Part(t, l, h) = Part(t, l, n) \cup Part(t, n + 1, h)
      BY <1>0, <2>1, PartsUnion
    <3>2. Falls(t, l, h) <=> /\ Falls(t, l, n) /\ Falls(t, n + 1, h)
                             /\ \A f \in Part(t, l, n), g \in Part(t, n + 1, h) : f[1] > g[1]
      BY <1>0, <2>1, PartsMeet
    <3> QED BY <3>1, <3>2
  <2>4. Part(t, l, h) = Part(t, l, n) \cup {<<w, c>>}
    BY <2>2, <2>3
  <2>5. (\A f \in Part(t, l, n), g \in {<<w, c>>} : f[1] > g[1]) <=> \A f \in Part(t, l, n) : f[1] > w
    OBVIOUS
  <2>6. Falls(t, l, h) <=> Falls(t, l, n) /\ \A f \in Part(t, l, n) : f[1] > w
    BY <2>2, <2>3, <2>5
  <2> QED BY <2>4, <2>6 DEF l, h
<1>14. Stands(a, Part(t, u + 1, n + 1)) /\ Falls(t, u + 1, n + 1)
  <2>1. CASE NoPoint(s)
    <3>1. \A k \in LastGroup(s) : PowerOf(t, k) = PowerOf(s, k) + 1
      BY <2>1, PowerOpen
    <3>2. Part(t, u + 1, n) = Raised(T, 1) /\ (Falls(t, u + 1, n) <=> Falls(s, u + 1, n))
      <4> DEFINE e == 1
      <4>1. e \in Int /\ \A k \in LastGroup(s) : PowerOf(t, k) = PowerOf(s, k) + e
        BY <3>1
      <4> HIDE DEF e
      <4>2. Part(t, u + 1, n) = Raised(T, e) /\ (Falls(t, u + 1, n) <=> Falls(s, u + 1, n))
        BY <4>1, OpenPart
      <4> QED BY <4>2 DEF e
    <3>3. w = 0 /\ d.point = -1
      BY <1>8, <1>11, <2>1
    <3>4. \A f \in Raised(T, 1) : f[1] > 0
      BY <1>9, <3>3 DEF Raised
    <3> HIDE DEF T, w, d, a, n, u, b
    <3> QED BY <1>7, <1>9, <1>13, <3>2, <3>3, <3>4
  <2>2. CASE ~NoPoint(s)
    <3>1. \A k \in LastGroup(s) : PowerOf(t, k) = PowerOf(s, k) + 0
      <4> TAKE k \in LastGroup(s)
      <4>1. PowerOf(t, k) = PowerOf(s, k) /\ PowerOf(s, k) \in Int
        BY <1>2, <2>2, PowerOpen
      <4> QED BY <4>1
    <3>2. Part(t, u + 1, n) = T /\ (Falls(t, u + 1, n) <=> Falls(s, u + 1, n))
      <4> DEFINE e == 0
      <4>1. e \in Int /\ e = 0 /\ \A k \in LastGroup(s) : PowerOf(t, k) = PowerOf(s, k) + e
        BY <3>1
      <4> HIDE DEF e
      <4> QED BY <4>1, OpenPart
    <3>3. w = d.point - Len(d.digits) - 1 /\ d.point # -1
      BY <1>8, <1>10, <1>11, <2>2
    <3>4. \A f \in T : f[1] > w
      <4> HIDE DEF T, w
      <4> QED BY <1>9, <1>10, <3>3
    <3> HIDE DEF T, w, a, n, u, b
    <3> QED BY <1>7, <1>9, <1>13, <3>2, <3>3, <3>4
  <2> QED BY <2>1, <2>2
<1>15. Sums(r, t)
  <2> HIDE DEF T, w, d, a, n, u, b
  <2> QED BY <1>0, <1>4, <1>5, <1>6, <1>7, <1>9, <1>14 DEF Sums
<1>16. PointSeen(r, t)
  <2>1. CASE NoPoint(s)
    BY <1>4, <1>5, <1>8, <1>9, <2>1 DEF PointSeen
  <2>2. CASE ~NoPoint(s)
    <3> DEFINE m == LastPoint(s)
    <3>1. m \in u + 1 .. n + 1 /\ m \in LastGroup(s)
      BY <1>0, <2>2, LastPointIs
    <3>2. m + 1 \in Int /\ m + 1 <= n + 1
      BY <1>1, <3>1
    <3>3. DigitsIn(t, m + 1, n + 1) = DigitsIn(s, m + 1, n) + 1
      BY <3>2, DigitsInGrow
    <3>4. Len(a.digits) - a.point = DigitsIn(t, LastPoint(t) + 1, Len(t))
      BY <1>0, <1>5, <1>8, <1>9, <1>10, <2>2, <3>3
    <3> QED BY <1>4, <1>5, <1>8, <1>9, <2>2, <3>4 DEF PointSeen
  <2> QED BY <2>1, <2>2
<1>17. \A S : c \notin S => Spots(t, S) = Spots(s, S)
  BY SpotsAfter
<1>18. \A S : \A k \in Spots(s, S) : k \in 1 .. n
  BY DEF Spots
<1>19. Spots(t, {Point}) = Spots(s, {Point}) /\ Spots(t, {Other}) = Spots(s, {Other})
       /\ Spots(t, BigUnits) = Spots(s, BigUnits)
  <2>1. c \notin {Point} /\ c \notin {Other}
    BY <1>2
  <2> QED BY <1>2, <1>17, <2>1
<1>20. Flags(r, t)
  <2>1. ~Hanging(t)
    <3>1. n + 1 \in Spots(t, Digits)
      BY <1>0 DEF Spots
    <3>2. \A k \in Spots(t, {Point}) : ~(n + 1 <= k)
      <4>1. \A k \in Spots(t, {Point}) : k \in 1 .. n
        BY <1>18, <1>19
      <4> QED BY <1>0, <4>1
    <3> QED BY <3>1, <3>2 DEF Hanging
  <2>2. /\ q.err = "none" /\ (u < n => s[u + 1] \in Digits)
        /\ (b < u => Part(s, b + 1, u) # {}) /\ (0 < b => Part(s, 1, b) # {})
    BY DEF ParsedSo, Flags
  <2>3. t[u + 1] \in Digits
    <3>1. CASE u = n
      BY <1>0, <3>1
    <3>2. CASE u < n
      <4>1. u + 1 \in 1 .. n
        BY <1>0, <1>1, <3>2
      <4> QED BY <1>0, <2>2, <3>2, <4>1
    <3> QED BY <1>1, <1>0, <3>1, <3>2
  <2>4. u # n + 1
    BY <1>0, <1>1
  <2> HIDE DEF n, u, b
  <2> QED BY <1>0, <1>4, <1>5, <1>6, <2>1, <2>2, <2>3, <2>4 DEF Flags
<1>21. Plain(r, t)
  <2>1. CommaAt(t) = CommaAt(s)
    BY <1>0, <1>2 DEF CommaAt
  <2>2. \A k \in 1 .. n : (BigRight(t, k) <=> BigRight(s, k)) /\ (PointRight(t, k) <=> PointRight(s, k))
    BY <1>2, PlaceKept
  <2>3. \A k \in Spots(t, BigUnits) : BigRight(t, k)
    BY <1>18, <1>19, <2>2 DEF ParsedSo, Plain
  <2>4. ASSUME CommaAt(t) = {} PROVE ~r.hasComma /\ \A k \in Spots(t, {Point}) : PointRight(t, k)
    BY <1>4, <1>18, <1>19, <2>1, <2>2, <2>4 DEF ParsedSo, Plain
  <2>5. Spots(t, {Other}) = {}
    BY <1>19 DEF ParsedSo, Plain
  <2> QED BY <2>3, <2>4, <2>5 DEF Plain
<1> QED BY <1>15, <1>16, <1>20, <1>21 DEF ParsedSo

\* What a separator leaves of the figures.
LEMMA QuietParts ==
    ASSUME NEW s, NEW c, NEW t, Grows(s, c, t), c \in {Comma, Point}
    PROVE  LET u == LastSpot(s, AllUnits)
               n == Len(s)
           IN  /\ LastSpot(t, AllUnits) = u /\ Len(t) = n + 1
               /\ Part(t, u + 1, n + 1) = Part(s, u + 1, n)
               /\ Falls(t, u + 1, n + 1) <=> Falls(s, u + 1, n)
<1> DEFINE n == Len(s)
           u == LastSpot(s, AllUnits)
           l == u + 1
           h == n + 1
<1>0. /\ s \in Seq(Characters) /\ t \in Seq(Characters) /\ n \in Nat /\ Len(t) = n + 1 /\ t[n + 1] = c
  BY GrownString
<1>1. u \in Nat /\ u <= n
  BY <1>0, UnitsLast
<1>2. c \notin AllUnits /\ c \notin Digits /\ c \notin SmallUnits
  BY UnitsAre DEF AllUnits
<1>3. LastSpot(t, AllUnits) = u
  BY <1>2, SpotsAfter
<1>4. \A k \in LastGroup(s) : PowerOf(t, k) = PowerOf(s, k) + 0
  <2> TAKE k \in LastGroup(s)
  <2>1. PowerOf(t, k) = PowerOf(s, k) /\ PowerOf(s, k) \in Int
    BY <1>2, PowerOpen
  <2> QED BY <2>1
<1>5. Part(t, l, n) = Part(s, l, n) /\ (Falls(t, l, n) <=> Falls(s, l, n))
  <2> DEFINE e == 0
  <2>1. e \in Int /\ e = 0 /\ \A k \in LastGroup(s) : PowerOf(t, k) = PowerOf(s, k) + e
    BY <1>4
  <2>2. l = LastSpot(s, AllUnits) + 1
    OBVIOUS
  <2> HIDE DEF e, l
  <2> QED BY <2>1, <2>2, OpenPart
<1>6. l \in Nat /\ h \in Nat /\ n \in Nat /\ l <= n + 1 /\ n <= h
  BY <1>0, <1>1
<1>11. h = n + 1
  OBVIOUS
<1>7. h \notin FigureSpots(t)
  <2>1. ~ImpliedAt(t, h)
    BY <1>2, PowerNew
  <2> QED BY <1>0, <1>2, <2>1 DEF FigureSpots
<1> HIDE DEF n, u, l, h
<1>8. Part(t, n + 1, h) = {} /\ Falls(t, n + 1, h)
  <2>1. Part(t, h, h) = {} /\ Falls(t, h, h)
    BY <1>0, <1>6, <1>7, <1>11, PartOfFew
  <2> QED BY <1>11, <2>1
<1>9. Part(t, l, h) = Part(s, l, n)
  <2>1. Part(t, l, h) = Part(t, l, n) \cup Part(t, n + 1, h)
    BY <1>0, <1>6, PartsUnion
  <2> QED BY <1>5, <1>8, <2>1
<1>10. Falls(t, l, h) <=> Falls(s, l, n)
  <2>1. Falls(t, l, h) <=> /\ Falls(t, l, n) /\ Falls(t, n + 1, h)
                           /\ \A f \in Part(t, l, n), g \in Part(t, n + 1, h) : f[1] > g[1]
    BY <1>0, <1>6, PartsMeet
  <2> QED BY <1>5, <1>8, <2>1
<1> QED BY <1>0, <1>3, <1>9, <1>10 DEF n, u, l, h

\* An open group begins with a digit, so that there is something in tmp.
LEMMA OpenNotZero ==
    ASSUME NEW q, NEW s \in Seq(Characters), ParsedSo(q, s)
    PROVE  /\ InPlace!IsZero(q.tmp) <=> LastSpot(s, AllUnits) = Len(s)
           /\ Part(s, LastSpot(s, AllUnits) + 1, Len(s)) = {} <=> LastSpot(s, AllUnits) = Len(s)
<1> DEFINE n == Len(s)
           u == LastSpot(s, AllUnits)
           l == u + 1
<1>1. u \in Nat /\ n \in Nat /\ u <= n
  BY UnitsLast
<1>2. Pointed(q.tmp) /\ Stands(q.tmp, Part(s, l, n)) /\ (u < n => s[l] \in Digits)
  BY DEF ParsedSo, Sums, Flags
<1>3. CASE u < n
  <2>1. l \in 1 .. n /\ l \in l .. n
    BY <1>1, <1>3
  <2>2. l \in SpotsIn(s, l, n)
    BY <1>2, <1>3, <2>1 DEF SpotsIn, FigureSpots
  <2>3. Part(s, l, n) # {}
    BY <2>2 DEF Part
  <2> QED BY <1>1, <1>2, <1>3, <2>3, StandsForNone
<1>4. CASE u = n
  <2>1. l \in Nat /\ l > n
    BY <1>1, <1>4
  <2> HIDE DEF l
  <2>2. Part(s, l, n) = {}
    BY <1>1, <2>1, PartOfFew
  <2> QED BY <1>2, <1>4, <2>2, StandsForNone DEF l
<1> QED BY <1>1, <1>3, <1>4

LEMMA CommaParsed ==
    ASSUME NEW s, NEW c, NEW t, Grows(s, c, t), c = Comma, NEW q \in Parser, ParsedSo(q, s),
           InPlace!AppendChar(q, c).ok, NEW r, r = InPlace!AppendChar(q, c).p
    PROVE  ParsedSo(r, t)
<1> DEFINE n == Len(s)
           b == LastSpot(s, BigUnits)
           u == LastSpot(s, AllUnits)
<1>0. /\ s \in Seq(Characters) /\ t \in Seq(Characters) /\ n \in Nat /\ Len(t) = n + 1
      /\ t[n + 1] = c /\ \A k \in 1 .. n : t[k] = s[k]
  BY GrownString
<1>1. b \in Nat /\ u \in Nat /\ b <= u /\ u <= n
  BY <1>0, UnitsLast
<1>2. c \notin AllUnits /\ c \notin BigUnits /\ c # Point /\ c # Other /\ c \notin Digits
  <2>1. c \notin AllUnits /\ c # Point /\ c # Other /\ c \notin Digits
    BY DEF AllUnits, SmallUnits, BigUnits, Digits, Point, Other, Comma
  <2> QED BY <2>1 DEF AllUnits
<1>3. InPlace!CheckComma(q) /\ r = [q EXCEPT !.hasComma = TRUE, !.digitLen = 0]
  <2>1. InPlace!AppendChar(q, c) = InPlace!AppendComma(q)
    BY SeparatorAnswers
  <2> QED BY <2>1 DEF InPlace!AppendComma, InPlace!Yes, InPlace!NoFor, InPlace!No
<1>4. /\ r.total = q.total /\ r.subtotal = q.subtotal /\ r.tmp = q.tmp /\ r.err = q.err
      /\ r.isFirstDigit = q.isFirstDigit /\ r.hasHangingPoint = q.hasHangingPoint
      /\ ~q.isFirstDigit
  BY <1>3 DEF Parser, InPlace!CheckComma
<1>5. /\ LastSpot(t, BigUnits) = b /\ LastSpot(t, AllUnits) = u
      /\ NoPoint(t) <=> NoPoint(s)
      /\ ~NoPoint(s) => LastPoint(t) = LastPoint(s)
  BY <1>2, PointGrow
<1>6. /\ Part(t, 1, b) = Part(s, 1, b) /\ (Falls(t, 1, b) <=> Falls(s, 1, b))
      /\ Part(t, b + 1, u) = Part(s, b + 1, u)
      /\ Falls(t, b + 1, u) <=> Falls(s, b + 1, u)
  BY <1>2, ClosedParts
<1>7. /\ Part(t, u + 1, n + 1) = Part(s, u + 1, n)
      /\ Falls(t, u + 1, n + 1) <=> Falls(s, u + 1, n)
  BY QuietParts
<1> HIDE DEF n, u, b
<1>8. Sums(r, t)
  BY <1>0, <1>4, <1>5, <1>6, <1>7 DEF ParsedSo, Sums, n, u, b
<1>9. PointSeen(r, t)
  <2>1. CASE NoPoint(s)
    BY <1>4, <1>5, <2>1 DEF ParsedSo, PointSeen
  <2>2. CASE ~NoPoint(s)
    <3> DEFINE m == LastPoint(s)
    <3>1. m \in u + 1 .. n + 1 /\ m \in LastGroup(s)
      BY <1>0, <2>2, LastPointIs DEF n, u
    <3>2. m + 1 \in Int /\ m + 1 <= n + 1
      <4>1. LastGroup(s) = u + 1 .. n
        BY DEF LastGroup, n, u
      <4> QED BY <1>0, <1>1, <3>1, <4>1
    <3>3. DigitsIn(t, m + 1, n + 1) = DigitsIn(s, m + 1, n)
      <4>1. DigitsIn(t, m + 1, n + 1) = DigitsIn(s, m + 1, n) + 0
        BY <1>2, <3>2, DigitsInGrow DEF n
      <4>2. DigitsIn(s, m + 1, n) \in Nat
        BY <1>0, DigitsInIs
      <4> QED BY <4>1, <4>2
    <3> QED BY <1>0, <1>4, <1>5, <2>2, <3>3 DEF ParsedSo, PointSeen, n
  <2> QED BY <2>1, <2>2
<1>10. \A S : c \notin S => Spots(t, S) = Spots(s, S)
  BY SpotsAfter
<1>11. \A S : \A k \in Spots(s, S) : k \in 1 .. n
  BY DEF Spots, n
<1>12. /\ Spots(t, {Point}) = Spots(s, {Point}) /\ Spots(t, {Other}) = Spots(s, {Other})
       /\ Spots(t, BigUnits) = Spots(s, BigUnits) /\ Spots(t, Digits) = Spots(s, Digits)
  <2>1. c \notin {Point} /\ c \notin {Other}
    BY <1>2
  <2> QED BY <1>2, <1>10, <2>1
<1>13. Flags(r, t)
  <2>1. /\ q.err = "none" /\ (q.hasHangingPoint <=> Hanging(s)) /\ (q.isFirstDigit <=> u = n)
        /\ (u < n => s[u + 1] \in Digits)
        /\ (b < u => Part(s, b + 1, u) # {}) /\ (0 < b => Part(s, 1, b) # {})
    BY DEF ParsedSo, Flags, n, u, b
  <2>2. Hanging(t) <=> Hanging(s)
    BY <1>12 DEF Hanging
  <2>3. u < n /\ u + 1 \in 1 .. n /\ u # n + 1
    BY <1>0, <1>1, <1>4, <2>1
  <2>4. t[u + 1] \in Digits
    BY <1>0, <2>1, <2>3
  <2> QED BY <1>0, <1>4, <1>5, <1>6, <2>1, <2>2, <2>3, <2>4 DEF Flags
<1>14. Plain(r, t)
  <2>1. n + 1 \in CommaAt(t)
    BY <1>0 DEF CommaAt
  <2>2. \A k \in 1 .. n : BigRight(t, k) <=> BigRight(s, k)
    BY PlaceKept DEF n
  <2>3. \A k \in Spots(t, BigUnits) : BigRight(t, k)
    BY <1>11, <1>12, <2>2 DEF ParsedSo, Plain
  <2>4. Spots(t, {Other}) = {}
    BY <1>12 DEF ParsedSo, Plain
  <2> QED BY <2>1, <2>3, <2>4 DEF Plain
<1> QED BY <1>8, <1>9, <1>13, <1>14 DEF ParsedSo

\* Where a point finds a digit before it.
LEMMA DigitBefore ==
    ASSUME NEW s, NEW c, NEW t, Grows(s, c, t), NEW q, ParsedSo(q, s), CommaAt(s) = {}
    PROVE  (Len(s) + 1 > 1 /\ t[Len(s) + 1 - 1] \in Digits)
               <=> ~q.hasHangingPoint /\ ~q.isFirstDigit
<1> DEFINE n == Len(s)
           u == LastSpot(s, AllUnits)
<1>0. /\ s \in Seq(Characters) /\ n \in Nat /\ \A k \in 1 .. n : t[k] = s[k]
  BY GrownString
<1>1. u \in Nat /\ u <= n /\ LastGroup(s) = u + 1 .. n
  BY <1>0, UnitsLast DEF LastGroup
<1>2. (q.hasHangingPoint <=> Hanging(s)) /\ (q.isFirstDigit <=> u = n) /\ Spots(s, {Other}) = {}
  BY DEF ParsedSo, Flags, Plain
<1>3. \A S : \A k \in 1 .. n : k \in Spots(s, S) <=> s[k] \in S
  BY DEF Spots
<1>4. n + 1 - 1 = n
  BY <1>0
<1> HIDE DEF n, u
<1>5. CASE u = n
  <2>1. n = 0 \/ s[n] \in AllUnits
    <3>1. u # 0 => u \in Spots(s, AllUnits)
      BY <1>0, LastSpotIs DEF u
    <3> QED BY <1>5, <3>1 DEF Spots
  <2>2. n # 0 => n \in 1 .. n /\ n > 0
    BY <1>0
  <2>3. n # 0 => t[n] \notin Digits
    BY <1>0, <2>1, <2>2, UnitsAre
  <2>4. n = 0 => ~(n + 1 > 1)
    BY <1>0
  <2> QED BY <1>2, <1>4, <1>5, <2>3, <2>4 DEF n
<1>6. CASE u # n
  <2>1. n \in 1 .. n /\ n + 1 > 1 /\ t[n] = s[n] /\ n \in LastGroup(s)
    BY <1>0, <1>1, <1>6
  <2>2. ASSUME ~Hanging(s) PROVE s[n] \in Digits
    <3>1. s[n] \in Characters
      BY <1>0, <2>1, ElementOfSeq DEF n
    <3>2. s[n] \notin AllUnits
      BY <1>0, <2>1, OpenGroup
    <3>3. s[n] # Comma
      BY <2>1 DEF CommaAt, n
    <3>4. s[n] # Other
      BY <1>2, <1>3, <2>1
    <3>5. s[n] # Point
      <4> SUFFICES ASSUME s[n] = Point PROVE FALSE
        OBVIOUS
      <4>1. n \in Spots(s, {Point})
        BY <1>3, <2>1
      <4>2. \A j \in Spots(s, Digits) : j <= n
        BY DEF Spots, n
      <4> QED BY <2>2, <4>1, <4>2 DEF Hanging
    <3> QED BY <3>1, <3>2, <3>3, <3>4, <3>5, UnitsAre
  <2>3. ASSUME s[n] \in Digits PROVE ~Hanging(s)
    <3> SUFFICES ASSUME NEW k \in Spots(s, {Point}), \A j \in Spots(s, Digits) : j <= k PROVE FALSE
      BY DEF Hanging
    <3>1. n \in Spots(s, Digits) /\ k \in 1 .. n /\ s[k] = Point
      BY <1>3, <2>1, <2>3 DEF Spots, n
    <3>2. k = n
      BY <1>0, <3>1
    <3> QED BY <2>3, <3>1, <3>2, UnitsAre
  <2> QED BY <1>2, <1>4, <1>6, <2>1, <2>2, <2>3 DEF n
<1> QED BY <1>5, <1>6

LEMMA PointAnswers ==
    ASSUME NEW s, NEW c, NEW t, Grows(s, c, t), c = Point, NEW q \in Parser, ParsedSo(q, s),
           NEW r, r = InPlace!AppendChar(q, c).p
    PROVE  /\ InPlace!AppendChar(q, c).ok =>
                 /\ ~q.hasHangingPoint /\ ~q.isFirstDigit /\ NoPoint(s)
                 /\ r = [q EXCEPT !.hasHangingPoint = TRUE, !.tmp.point = Len(q.tmp.digits),
                                  !.hasComma = FALSE]
           /\ ~InPlace!AppendChar(q, c).ok =>
                 q.hasHangingPoint \/ q.isFirstDigit \/ q.hasComma \/ ~NoPoint(s)
<1> DEFINE h == [q EXCEPT !.hasHangingPoint = TRUE]
<1>1. InPlace!AppendChar(q, c) = InPlace!AppendPoint(q)
  BY SeparatorAnswers
<1>2. h.tmp = q.tmp
  BY DEF Parser
<1>3. InPlace!AppendPoint(q) =
        IF q.hasHangingPoint \/ q.isFirstDigit THEN InPlace!NoFor("point", q)
        ELSE IF q.hasComma /\ ~InPlace!CheckComma(q) THEN InPlace!NoFor("comma", h)
        ELSE IF q.tmp.scale # 0 \/ q.tmp.point >= 0 THEN InPlace!NoFor("point", h)
        ELSE InPlace!Yes([h EXCEPT !.tmp.point = Len(q.tmp.digits), !.hasComma = FALSE])
  BY DEF InPlace!AppendPoint
<1>4. [h EXCEPT !.tmp.point = Len(q.tmp.digits), !.hasComma = FALSE]
      = [q EXCEPT !.hasHangingPoint = TRUE, !.tmp.point = Len(q.tmp.digits), !.hasComma = FALSE]
  OBVIOUS
<1> HIDE DEF h
<1>5. /\ \A e, x : InPlace!NoFor(e, x).ok = FALSE
      /\ \A x : InPlace!Yes(x).ok = TRUE /\ InPlace!Yes(x).p = x
  BY DEF InPlace!NoFor, InPlace!No, InPlace!Yes
<1>6. q.tmp.scale = 0 /\ q.tmp.point \in {-1} \cup Nat
      /\ (IF NoPoint(s) THEN q.tmp.point = -1 ELSE q.tmp.point # -1)
  BY DEF ParsedSo, Sums, PointSeen, Parser, Decimal
<1>7. q.tmp.point >= 0 <=> ~NoPoint(s)
  BY <1>6
<1>8. /\ InPlace!AppendPoint(q).ok =>
           /\ ~q.hasHangingPoint /\ ~q.isFirstDigit /\ ~(q.tmp.point >= 0)
           /\ InPlace!AppendPoint(q).p = [h EXCEPT !.tmp.point = Len(q.tmp.digits), !.hasComma = FALSE]
      /\ ~InPlace!AppendPoint(q).ok =>
           q.hasHangingPoint \/ q.isFirstDigit \/ q.hasComma \/ q.tmp.point >= 0
  BY <1>3, <1>5, <1>6
<1> QED BY <1>1, <1>4, <1>7, <1>8

LEMMA PointParsed ==
    ASSUME NEW s, NEW c, NEW t, Grows(s, c, t), c = Point, NEW q \in Parser, ParsedSo(q, s),
           InPlace!AppendChar(q, c).ok, NEW r, r = InPlace!AppendChar(q, c).p
    PROVE  ParsedSo(r, t)
<1> DEFINE n == Len(s)
           b == LastSpot(s, BigUnits)
           u == LastSpot(s, AllUnits)
           d == q.tmp
           a == [d EXCEPT !.point = Len(d.digits)]
<1>0. /\ s \in Seq(Characters) /\ t \in Seq(Characters) /\ n \in Nat /\ Len(t) = n + 1
      /\ t[n + 1] = c /\ \A k \in 1 .. n : t[k] = s[k]
  BY GrownString
<1>1. b \in Nat /\ u \in Nat /\ b <= u /\ u <= n /\ LastGroup(s) = u + 1 .. n
  BY <1>0, UnitsLast DEF LastGroup
<1>2. c \notin AllUnits /\ c \notin BigUnits /\ c # Comma /\ c # Other /\ c \notin Digits
  <2>1. c \notin AllUnits /\ c # Comma /\ c # Other /\ c \notin Digits
    BY DEF AllUnits, SmallUnits, BigUnits, Digits, Point, Other, Comma
  <2> QED BY <2>1 DEF AllUnits
<1>3. /\ ~q.hasHangingPoint /\ ~q.isFirstDigit /\ NoPoint(s)
      /\ r = [q EXCEPT !.hasHangingPoint = TRUE, !.tmp.point = Len(q.tmp.digits), !.hasComma = FALSE]
  BY PointAnswers
<1>4. /\ r.total = q.total /\ r.subtotal = q.subtotal /\ r.tmp = a /\ r.err = q.err
      /\ r.isFirstDigit = q.isFirstDigit /\ r.hasHangingPoint = TRUE /\ r.hasComma = FALSE
  BY <1>3 DEF Parser
<1>5. /\ LastSpot(t, BigUnits) = b /\ LastSpot(t, AllUnits) = u
      /\ ~NoPoint(t) /\ LastPoint(t) = n + 1
  BY <1>2, <1>3, PointGrow
<1>6. /\ Part(t, 1, b) = Part(s, 1, b) /\ (Falls(t, 1, b) <=> Falls(s, 1, b))
      /\ Part(t, b + 1, u) = Part(s, b + 1, u)
      /\ Falls(t, b + 1, u) <=> Falls(s, b + 1, u)
  BY <1>2, ClosedParts
<1>7. /\ Part(t, u + 1, n + 1) = Part(s, u + 1, n)
      /\ Falls(t, u + 1, n + 1) <=> Falls(s, u + 1, n)
  BY QuietParts
<1>8. /\ q.err = "none" /\ (q.isFirstDigit <=> u = n) /\ (u < n => s[u + 1] \in Digits)
      /\ (b < u => Part(s, b + 1, u) # {}) /\ (0 < b => Part(s, 1, b) # {})
  BY DEF ParsedSo, Flags
<1>9. u < n
  BY <1>0, <1>1, <1>3, <1>8
<1>10. /\ Pointed(a) /\ Stands(a, Part(s, u + 1, n)) /\ a.scale = 0 /\ a.digits = d.digits
       /\ a.point = Len(d.digits) /\ a.point >= 1
  <2>1. Pointed(d) /\ Stands(d, Part(s, u + 1, n)) /\ d.scale = 0 /\ d.point = -1
    BY <1>3 DEF ParsedSo, Sums, PointSeen
  <2>2. d.digits # <<>>
    <3>1. ~(LastSpot(s, AllUnits) = Len(s))
      BY <1>0, <1>1, <1>9
    <3> QED BY <1>0, <3>1, OpenNotZero DEF InPlace!IsZero
  <2> HIDE DEF d, u, n
  <2> QED BY <2>1, <2>2, StandsPoint
<1> HIDE DEF n, u, b, a
<1>11. Sums(r, t)
  BY <1>0, <1>4, <1>5, <1>6, <1>7, <1>10 DEF ParsedSo, Sums, n, u, b
<1>12. PointSeen(r, t)
  <2>1. n + 1 + 1 \in Int /\ n + 1 \in Int /\ n + 1 + 1 > n + 1
    BY <1>0
  <2>2. DigitsIn(t, n + 1 + 1, n + 1) = 0
    BY <1>0, <2>1, DigitsInIs
  <2>3. Len(a.digits) - a.point = 0 /\ a.point # -1
    <3>1. Len(d.digits) \in Nat
      BY LenProperties DEF Parser, Decimal
    <3> QED BY <1>10, <3>1
  <2> HIDE DEF d
  <2> QED BY <1>0, <1>4, <1>5, <2>2, <2>3 DEF PointSeen
<1>13. \A S : Spots(t, S) = IF c \in S THEN Spots(s, S) \cup {n + 1} ELSE Spots(s, S)
  BY SpotsAfter DEF n
<1>14. \A S : \A k \in Spots(s, S) : k \in 1 .. n
  BY DEF Spots, n
<1>15. /\ Spots(t, {Point}) = Spots(s, {Point}) \cup {n + 1} /\ Spots(t, {Other}) = Spots(s, {Other})
       /\ Spots(t, BigUnits) = Spots(s, BigUnits) /\ Spots(t, Digits) = Spots(s, Digits)
  <2> DEFINE P == {Point}
             O == {Other}
  <2>1. c \in P /\ c \notin O
    BY <1>2
  <2> HIDE DEF P, O
  <2>2. Spots(t, P) = Spots(s, P) \cup {n + 1} /\ Spots(t, O) = Spots(s, O)
    BY <1>13, <2>1
  <2> QED BY <1>2, <1>13, <2>2 DEF P, O
<1>16. Flags(r, t)
  <2>1. Hanging(t)
    <3>1. \A j \in Spots(t, Digits) : j <= n + 1
      <4>1. \A j \in Spots(t, Digits) : j \in 1 .. n
        BY <1>14, <1>15
      <4> QED BY <1>0, <4>1
    <3> QED BY <1>15, <3>1 DEF Hanging
  <2>2. u + 1 \in 1 .. n /\ u # n + 1
    BY <1>0, <1>1, <1>9
  <2>3. t[u + 1] \in Digits
    BY <1>0, <1>8, <1>9, <2>2
  <2> QED BY <1>0, <1>3, <1>4, <1>5, <1>6, <1>8, <2>1, <2>2, <2>3 DEF Flags
<1>17. Plain(r, t)
  <2>1. CommaAt(t) = CommaAt(s)
    BY <1>0, <1>2 DEF CommaAt, n
  <2>2. \A k \in Spots(t, BigUnits) : BigRight(t, k)
    <3>1. \A k \in 1 .. n : BigRight(t, k) <=> BigRight(s, k)
      BY PlaceKept DEF n
    <3> QED BY <1>14, <1>15, <3>1 DEF ParsedSo, Plain
  <2>3. Spots(t, {Other}) = {}
    BY <1>15 DEF ParsedSo, Plain
  <2>4. ASSUME CommaAt(t) = {}, NEW k \in Spots(s, {Point}) PROVE PointRight(t, k)
    <3>1. PointRight(s, k) /\ k \in 1 .. n
      BY <1>14, <2>1, <2>4 DEF ParsedSo, Plain
    <3>2. k \notin LastGroup(s)
      BY <1>3 DEF NoPoint
    <3>3. k \in 1 .. u
      BY <1>0, <1>1, <3>1, <3>2
    <3> QED BY <3>1, <3>3, PlaceKept DEF n, u
  <2>5. ASSUME CommaAt(t) = {} PROVE PointRight(t, n + 1)
    <3>1. n + 1 > 1 /\ t[n + 1 - 1] \in Digits
      BY <1>3, <2>1, <2>5, DigitBefore DEF n
    <3>2. n + 1 \in LastGroup(t) /\ Spots(t, {Point}) \cap LastGroup(t) = {n + 1}
      <4>1. /\ LastGroup(t) = LastGroup(s) \cup {Len(s) + 1}
            /\ Spots(t, {Point}) \cap LastGroup(t) =
                  IF c = Point THEN (Spots(s, {Point}) \cap LastGroup(s)) \cup {Len(s) + 1}
                  ELSE Spots(s, {Point}) \cap LastGroup(s)
        BY <1>2, PointGrow, Zenon
      <4> QED BY <1>3, <4>1 DEF NoPoint, n
    <3>3. GroupOf(t, n + 1) = LastGroup(t)
      BY <1>0, <3>2, OpenGroup
    <3> DEFINE m == n + 1
    <3>4. m > 1 /\ t[m - 1] \in Digits
      <4>1. n \in Nat /\ n + 1 - 1 = n
        BY <1>0
      <4>2. t[n] \in Digits
        BY <3>1, <4>1
      <4>3. m - 1 = n /\ m > 1
        BY <3>1, <4>1
      <4> QED BY <4>2, <4>3
    <3>6. Spots(t, {Point}) \cap GroupOf(t, m) = {m}
      BY <3>2, <3>3, Zenon
    <3> HIDE DEF m
    <3>5. PointRight(t, m)
      BY <3>4, <3>6 DEF PointRight
    <3> QED BY <3>5 DEF m
  <2>6. ASSUME CommaAt(t) = {} PROVE ~r.hasComma /\ \A k \in Spots(t, {Point}) : PointRight(t, k)
    BY <1>4, <1>15, <2>4, <2>5, <2>6
  <2> QED BY <2>2, <2>3, <2>6 DEF Plain
<1> QED BY <1>11, <1>12, <1>16, <1>17 DEF ParsedSo

\* A point that is refused is none of a numeral.
LEMMA PointRefused ==
    ASSUME NEW s, NEW c, NEW t, Grows(s, c, t), c = Point, NEW q \in Parser, ParsedSo(q, s),
           ~InPlace!AppendChar(q, c).ok, CommaAt(t) = {}
    PROVE  ~Numeral!IsNumeral(t)
<1> DEFINE n == Len(s)
<1>0. /\ s \in Seq(Characters) /\ t \in Seq(Characters) /\ n \in Nat /\ Len(t) = n + 1
      /\ t[n + 1] = c /\ \A k \in 1 .. n : t[k] = s[k]
  BY GrownString
<1>1. CommaAt(s) = {} /\ ~q.hasComma
  <2>1. CommaAt(s) = {}
    BY <1>0 DEF CommaAt
  <2> QED BY <2>1 DEF ParsedSo, Plain
<1>2. q.hasHangingPoint \/ q.isFirstDigit \/ ~NoPoint(s)
  BY <1>1, PointAnswers
<1>3. c \notin AllUnits
  BY DEF AllUnits, SmallUnits, BigUnits, Point
<1>4. ~PointRight(t, n + 1)
  <2>1. CASE q.hasHangingPoint \/ q.isFirstDigit
    BY <1>1, <2>1, DigitBefore DEF PointRight
  <2>2. CASE ~NoPoint(s)
    <3>1. /\ LastGroup(t) = LastGroup(s) \cup {n + 1} /\ n + 1 \notin LastGroup(s)
          /\ Spots(t, {Point}) \cap LastGroup(t) =
                IF c = Point THEN (Spots(s, {Point}) \cap LastGroup(s)) \cup {n + 1}
                ELSE Spots(s, {Point}) \cap LastGroup(s)
      BY <1>3, PointGrow, Zenon
    <3>2. GroupOf(t, n + 1) = LastGroup(t)
      BY <1>0, <3>1, OpenGroup
    <3>3. PICK k \in Spots(s, {Point}) \cap LastGroup(s) : TRUE
      BY <2>2 DEF NoPoint
    <3> QED BY <3>1, <3>2, <3>3, ZenonT(60) DEF PointRight
  <2> QED BY <1>2, <2>1, <2>2
<1>5. n + 1 \in Spots(t, {Point})
  BY <1>0 DEF Spots
<1> QED BY <1>0, <1>4, <1>5, NumeralIf

LEMMA OtherRefused ==
    ASSUME NEW s, NEW c, NEW t, Grows(s, c, t), c = Other
    PROVE  ~Numeral!IsNumeral(t)
<1>1. t \in Seq(Characters) /\ Len(t) = Len(s) + 1 /\ t[Len(s) + 1] = c /\ Len(s) \in Nat
  BY GrownString
<1>2. Len(s) + 1 \in Spots(t, {Other})
  BY <1>1 DEF Spots
<1> QED BY <1>1, <1>2, NumeralIf

LEMMA UnitAnswers ==
    ASSUME NEW q, NEW c
    PROVE  /\ c \in SmallUnits => InPlace!AppendChar(q, c) = InPlace!AppendSmallUnit(q, -c)
           /\ c \in BigUnits => InPlace!AppendChar(q, c) = InPlace!AppendBigUnit(q, -c)
BY DEF InPlace!AppendChar, InPlace!Comma, InPlace!Point, InPlace!SmallUnits, InPlace!BigUnits,
       InPlace!Digits, InPlace!Other, SmallUnits, BigUnits

\* The parser that a unit leaves: of the number so far it has these sums.
UnitTaken(q, r, total, subtotal) ==
    /\ r.total = total /\ r.subtotal = subtotal
    /\ r.tmp = InPlace!NewDecimal /\ r.err = q.err /\ r.isFirstDigit = TRUE
    /\ r.hasComma = FALSE /\ r.hasHangingPoint = q.hasHangingPoint

LEMMA SmallUnitAnswers ==
    ASSUME NEW c \in SmallUnits, NEW q \in Parser, NEW r, r = InPlace!AppendChar(q, c).p,
           NEW a, a = InPlace!ShiftScale(q.tmp, -c)
    PROVE  /\ InPlace!AppendChar(q, c).ok <=> InPlace!Fits(q.subtotal, a)
           /\ InPlace!AppendChar(q, c).ok =>
                 UnitTaken(q, r, q.total, InPlace!Add(q.subtotal, a))
<1> DEFINE h == [q EXCEPT !.subtotal = InPlace!Add(@, a)]
           y == [h EXCEPT !.tmp = InPlace!NewDecimal]
           z == [y EXCEPT !.isFirstDigit = TRUE, !.digitLen = 0, !.hasComma = FALSE]
<1>1. InPlace!AppendChar(q, c) =
        IF InPlace!Fits(q.subtotal, a) THEN InPlace!Yes(InPlace!StartUnit(y))
        ELSE InPlace!No([h EXCEPT !.tmp = a])
  BY UnitAnswers DEF InPlace!AppendSmallUnit
<1>2. InPlace!StartUnit(y) = z
  BY DEF InPlace!StartUnit
<1>3. UnitTaken(q, z, q.total, InPlace!Add(q.subtotal, a))
  BY DEF Parser, UnitTaken
<1> HIDE DEF h, y, z
<1> QED BY <1>1, <1>2, <1>3 DEF InPlace!Yes, InPlace!No

\* What a small unit makes of the open group, or of nothing.
LEMMA SmallUnitPart ==
    ASSUME NEW s, NEW c, NEW t, Grows(s, c, t), c \in SmallUnits, NEW q, ParsedSo(q, s),
           NEW a, a = InPlace!ShiftScale(q.tmp, -c),
           NEW l, l = LastSpot(s, AllUnits) + 1, NEW m, m = Len(s) + 1
    PROVE  /\ Pointed(a) /\ Stands(a, Part(t, l, m)) /\ Falls(t, l, m) /\ Part(t, l, m) # {}
<1> DEFINE n == Len(s)
           u == LastSpot(s, AllUnits)
           e == -c
           d == q.tmp
<1>0. /\ s \in Seq(Characters) /\ t \in Seq(Characters) /\ n \in Nat /\ Len(t) = n + 1
      /\ t[m] = c
  BY GrownString
<1>1. u \in Nat /\ u <= n /\ LastGroup(s) = l .. n
  BY <1>0, UnitsLast DEF LastGroup
<1>2. c \in AllUnits /\ c \notin Digits /\ e \in Nat
  BY UnitsAre
<1>3. Pointed(d) /\ Stands(d, Part(s, l, n)) /\ d.scale = 0 /\ Falls(s, l, n)
  BY DEF ParsedSo, Sums
<1>4. /\ InPlace!IsZero(d) <=> u = n
      /\ Part(s, l, n) = {} <=> u = n
  BY <1>0, OpenNotZero
<1>5. /\ Pointed(a)
      /\ ~InPlace!IsZero(d) => Stands(a, Raised(Part(s, l, n), e))
      /\ InPlace!IsZero(d) => Stands(a, {<<e, 1>>})
  BY <1>2, <1>3, StandsRaised
<1>6. /\ ImpliedAt(t, m) <=> u = n
      /\ u = n => PowerOf(t, m) = e
  BY PowerNew
<1>7. \A k \in LastGroup(s) : PowerOf(t, k) = PowerOf(s, k) + e
  BY <1>2, PowerOpen
<1>8. /\ Part(t, l, n) = Raised(Part(s, l, n), e)
      /\ Falls(t, l, n) <=> Falls(s, l, n)
  BY <1>2, <1>7, OpenPart
<1>9. m \in FigureSpots(t) <=> u = n
  BY <1>0, <1>2, <1>6 DEF FigureSpots
<1>10. l \in Nat /\ m \in Nat /\ n \in Nat /\ l <= n + 1 /\ n <= m /\ m = n + 1
  BY <1>0, <1>1
<1> HIDE DEF n, u, e, d
<1>11. CASE u = n
  <2>1. l = m
    BY <1>11 DEF n, u
  <2>2. Fig(t, m) = <<e, 1>>
    BY <1>0, <1>2, <1>6, <1>11 DEF Fig
  <2>3. Part(t, l, m) = {<<e, 1>>} /\ Falls(t, l, m)
    BY <1>0, <1>9, <1>10, <1>11, <2>1, <2>2, PartOfFew
  <2> QED BY <1>4, <1>5, <1>11, <2>3
<1>12. CASE u # n
  <2>1. Part(t, n + 1, m) = {} /\ Falls(t, n + 1, m)
    <3> DEFINE k == n + 1
    <3>1. k \in Nat /\ k = m
      BY <1>10
    <3> HIDE DEF k
    <3>2. Part(t, k, m) = {} /\ Falls(t, k, m)
      BY <1>0, <1>9, <1>10, <1>12, <3>1, PartOfFew
    <3> QED BY <3>2 DEF k
  <2>2. Part(t, l, m) = Part(t, l, n)
    <3>1. Part(t, l, m) = Part(t, l, n) \cup Part(t, n + 1, m)
      BY <1>0, <1>10, PartsUnion
    <3> QED BY <2>1, <3>1
  <2>3. Falls(t, l, m)
    <3>1. Falls(t, l, m) <=> /\ Falls(t, l, n) /\ Falls(t, n + 1, m)
                             /\ \A f \in Part(t, l, n), g \in Part(t, n + 1, m) : f[1] > g[1]
      BY <1>0, <1>10, PartsMeet
    <3> QED BY <1>3, <1>8, <2>1, <3>1
  <2>4. Part(s, l, n) # {} => Raised(Part(s, l, n), e) # {}
    BY DEF Raised
  <2> QED BY <1>4, <1>5, <1>8, <1>12, <2>2, <2>3, <2>4
<1> QED BY <1>11, <1>12

\* A small unit is taken where the figures fall on.
LEMMA SmallUnitFits ==
    ASSUME NEW s, NEW c, NEW t, Grows(s, c, t), c \in SmallUnits, NEW q, ParsedSo(q, s),
           NEW a, a = InPlace!ShiftScale(q.tmp, -c),
           NEW b, b = LastSpot(s, BigUnits), NEW m, m = Len(s) + 1
    PROVE  /\ InPlace!Fits(q.subtotal, a) <=> Falls(t, b + 1, m)
           /\ Part(t, b + 1, m) # {}
           /\ InPlace!Fits(q.subtotal, a) =>
                 /\ Pointed(InPlace!Add(q.subtotal, a))
                 /\ Stands(InPlace!Add(q.subtotal, a), Part(t, b + 1, m))
<1> DEFINE u == LastSpot(s, AllUnits)
           l == u + 1
           o == b + 1
           d == q.subtotal
<1>0. s \in Seq(Characters) /\ t \in Seq(Characters) /\ Len(s) \in Nat
  BY GrownString
<1>1. b \in Nat /\ u \in Nat /\ b <= u /\ u <= Len(s)
  BY <1>0, UnitsLast
<1>2. c \notin BigUnits
  BY UnitsAre
<1>3. Pointed(d) /\ Stands(d, Part(s, o, u)) /\ Falls(s, o, u)
  BY DEF ParsedSo, Sums
<1>4. Part(t, o, u) = Part(s, o, u) /\ (Falls(t, o, u) <=> Falls(s, o, u))
  BY <1>2, ClosedParts
<1>5. Pointed(a) /\ Stands(a, Part(t, l, m)) /\ Falls(t, l, m) /\ Part(t, l, m) # {}
  BY SmallUnitPart
<1>6. o \in Nat /\ u \in Nat /\ m \in Nat /\ o <= u + 1 /\ u <= m /\ l = u + 1
  BY <1>0, <1>1
<1>9. o = b + 1
  OBVIOUS
<1> HIDE DEF u, l, o, d
<1>7. Part(t, o, m) = Part(t, o, u) \cup Part(t, l, m)
  BY <1>0, <1>6, PartsUnion
<1>8. Falls(t, o, m) <=> /\ Falls(t, o, u) /\ Falls(t, l, m)
                         /\ \A f \in Part(t, o, u), g \in Part(t, l, m) : f[1] > g[1]
  BY <1>0, <1>6, PartsMeet
<1>10. Stands(d, Part(t, o, u))
  BY <1>3, <1>4
<1>11. InPlace!Fits(d, a) <=> \A f \in Part(t, o, u), g \in Part(t, l, m) : f[1] > g[1]
  BY <1>3, <1>5, <1>10, StandsFits
<1>12. InPlace!Fits(d, a) => /\ Pointed(InPlace!Add(d, a))
                             /\ Stands(InPlace!Add(d, a), Part(t, o, u) \cup Part(t, l, m))
  BY <1>3, <1>5, <1>10, StandsSum
<1>13. Part(t, o, m) # {}
  BY <1>5, <1>7
<1> QED BY <1>3, <1>4, <1>5, <1>7, <1>8, <1>9, <1>11, <1>12, <1>13 DEF d

LEMMA SmallUnitRefused ==
    ASSUME NEW s, NEW c, NEW t, Grows(s, c, t), c \in SmallUnits, NEW q \in Parser, ParsedSo(q, s),
           ~InPlace!AppendChar(q, c).ok
    PROVE  ~Numeral!IsNumeral(t)
<1> DEFINE a == InPlace!ShiftScale(q.tmp, -c)
           b == LastSpot(s, BigUnits)
           m == Len(s) + 1
           l == 1
<1>0. /\ s \in Seq(Characters) /\ t \in Seq(Characters) /\ Len(s) \in Nat /\ Len(t) = m
  BY GrownString
<1>1. b \in Nat /\ b <= Len(s)
  <2>1. LastSpot(s, BigUnits) \in Nat /\ LastSpot(s, AllUnits) \in Nat
        /\ LastSpot(s, BigUnits) <= LastSpot(s, AllUnits) /\ LastSpot(s, AllUnits) <= Len(s)
    BY <1>0, UnitsLast
  <2> QED BY <1>0, <2>1
<1>2. ~Falls(t, b + 1, m)
  <2>1. ~InPlace!Fits(q.subtotal, a)
    BY SmallUnitAnswers
  <2> QED BY <2>1, SmallUnitFits
<1>3. l \in Nat /\ b \in Nat /\ m \in Nat /\ l <= b + 1 /\ b <= m
  BY <1>0, <1>1
<1> HIDE DEF l, b, m, a
<1>4. ~Falls(t, l, m)
  BY <1>0, <1>2, <1>3, PartsMeet
<1>5. ~Falls(t, 1, Len(t))
  BY <1>0, <1>4 DEF l
<1> QED BY <1>0, <1>5, NumeralIf

\* A group that is empty has no point.
LEMMA EmptyGroup ==
    ASSUME NEW s \in Seq(Characters), LastSpot(s, AllUnits) = Len(s)
    PROVE  NoPoint(s) /\ Part(s, Len(s) + 1, Len(s)) = {} /\ Falls(s, Len(s) + 1, Len(s))
<1> DEFINE n == Len(s)
           l == n + 1
<1>1. n \in Nat /\ l \in Nat /\ l > n /\ LastGroup(s) = {}
  <2>1. n \in Nat
    BY LenProperties
  <2> QED BY <2>1 DEF LastGroup
<1>2. NoPoint(s)
  BY <1>1 DEF NoPoint
<1> HIDE DEF n, l
<1>3. Part(s, l, n) = {} /\ Falls(s, l, n)
  BY <1>1, PartOfFew
<1> QED BY <1>2, <1>3 DEF n, l

\* A unit leaves the other characters where they are.
LEMMA UnitSpots ==
    ASSUME NEW s, NEW c, NEW t, Grows(s, c, t), c \in AllUnits, NEW q, ParsedSo(q, s)
    PROVE  /\ Spots(t, {Point}) = Spots(s, {Point}) /\ Spots(t, {Other}) = {}
           /\ Spots(t, Digits) = Spots(s, Digits) /\ (Hanging(t) <=> Hanging(s))
           /\ LastSpot(t, AllUnits) = Len(t)
           /\ CommaAt(t) = {} => \A k \in Spots(t, {Point}) : PointRight(t, k)
<1> DEFINE n == Len(s)
           P == {Point}
           O == {Other}
<1>0. /\ s \in Seq(Characters) /\ t \in Seq(Characters) /\ n \in Nat /\ Len(t) = n + 1
      /\ t[n + 1] = c /\ \A k \in 1 .. n : t[k] = s[k]
  BY GrownString
<1>1. c \notin P /\ c \notin O /\ c \notin Digits /\ c # Point /\ c # Comma
  BY UnitsAre
<1>2. \A S : /\ c \notin S => Spots(t, S) = Spots(s, S)
             /\ LastSpot(t, S) = IF c \in S THEN n + 1 ELSE LastSpot(s, S)
  BY SpotsAfter
<1> HIDE DEF P, O
<1>3. Spots(t, P) = Spots(s, P) /\ Spots(t, O) = Spots(s, O) /\ Spots(t, Digits) = Spots(s, Digits)
  BY <1>1, <1>2
<1>4. LastSpot(t, AllUnits) = Len(t)
  BY <1>0, <1>2
<1>5. Hanging(t) <=> Hanging(s)
  BY <1>3 DEF Hanging, P
<1>6. CommaAt(t) = CommaAt(s)
  BY <1>0, <1>1 DEF CommaAt
<1>7. \A k \in 1 .. n : PointRight(t, k) <=> PointRight(s, k)
  BY <1>1, PlaceKept
<1>8. \A k \in Spots(s, P) : k \in 1 .. n
  BY DEF Spots
<1>9. Spots(s, O) = {}
  BY DEF ParsedSo, Plain, O
<1>10. CommaAt(s) = {} => \A k \in Spots(s, P) : PointRight(s, k)
  BY DEF ParsedSo, Plain, P
<1>11. CommaAt(t) = {} => \A k \in Spots(t, P) : PointRight(t, k)
  BY <1>3, <1>6, <1>7, <1>8, <1>10
<1>12. /\ Spots(t, {Point}) = Spots(s, {Point}) /\ Spots(t, {Other}) = {}
       /\ CommaAt(t) = {} => \A k \in Spots(t, {Point}) : PointRight(t, k)
  BY <1>3, <1>9, <1>11 DEF P, O
<1> QED BY <1>3, <1>4, <1>5, <1>12

\* The parser that a unit leaves, which has begun a new group.
LEMMA NewGroupParsed ==
    ASSUME NEW s, NEW c, NEW t, Grows(s, c, t), c \in AllUnits, NEW q, ParsedSo(q, s),
           NEW r, UnitTaken(q, r, r.total, r.subtotal),
           NEW b, b = LastSpot(t, BigUnits), NEW m, m = Len(t),
           Pointed(r.total), Stands(r.total, Part(t, 1, b)), Falls(t, 1, b),
           Pointed(r.subtotal), Stands(r.subtotal, Part(t, b + 1, m)), Falls(t, b + 1, m),
           b < m => Part(t, b + 1, m) # {}, 0 < b => Part(t, 1, b) # {},
           \A k \in Spots(t, BigUnits) : BigRight(t, k)
    PROVE  ParsedSo(r, t)
<1>1. t \in Seq(Characters)
  BY GrownString
<1>2. /\ Spots(t, {Other}) = {} /\ (Hanging(t) <=> Hanging(s))
      /\ LastSpot(t, AllUnits) = m
      /\ CommaAt(t) = {} => \A k \in Spots(t, {Point}) : PointRight(t, k)
  BY UnitSpots
<1>3. NoPoint(t) /\ Part(t, m + 1, m) = {} /\ Falls(t, m + 1, m)
  BY <1>1, <1>2, EmptyGroup
<1>4. /\ Pointed(InPlace!NewDecimal) /\ Stands(InPlace!NewDecimal, {})
      /\ InPlace!NewDecimal.scale = 0 /\ InPlace!NewDecimal.point = -1
  BY StandsNothing
<1>5. Pointed(r.tmp) /\ Stands(r.tmp, Part(t, m + 1, m)) /\ r.tmp.scale = 0 /\ r.tmp.point = -1
  BY <1>3, <1>4 DEF UnitTaken
<1>6. q.err = "none" /\ (q.hasHangingPoint <=> Hanging(s))
  BY DEF ParsedSo, Flags
<1>12. /\ r.tmp = InPlace!NewDecimal /\ r.err = q.err /\ r.isFirstDigit = TRUE
       /\ r.hasComma = FALSE /\ r.hasHangingPoint = q.hasHangingPoint
  BY DEF UnitTaken
<1>7. m \in Nat
  BY <1>1, LenProperties
<1>8. Sums(r, t)
  BY <1>2, <1>3, <1>5 DEF Sums
<1>9. PointSeen(r, t)
  BY <1>3, <1>5 DEF PointSeen
<1>10. Flags(r, t)
  <2>1. /\ r.err = "none" /\ (r.hasHangingPoint <=> Hanging(t)) /\ (r.isFirstDigit <=> m = Len(t))
        /\ ~(m < Len(t))
    BY <1>2, <1>6, <1>7, <1>12
  <2> QED BY <1>2, <2>1 DEF Flags
<1>11. Plain(r, t)
  BY <1>2, <1>12 DEF Plain
<1> QED BY <1>8, <1>9, <1>10, <1>11 DEF ParsedSo

LEMMA SmallUnitParsed ==
    ASSUME NEW s, NEW c, NEW t, Grows(s, c, t), c \in SmallUnits, NEW q \in Parser, ParsedSo(q, s),
           InPlace!AppendChar(q, c).ok, NEW r, r = InPlace!AppendChar(q, c).p
    PROVE  ParsedSo(r, t)
<1> DEFINE a == InPlace!ShiftScale(q.tmp, -c)
           b == LastSpot(s, BigUnits)
           m == Len(s) + 1
<1>0. /\ s \in Seq(Characters) /\ t \in Seq(Characters) /\ Len(s) \in Nat /\ Len(t) = m
  BY GrownString
<1>1. b \in Nat /\ b <= Len(s)
  <2>1. LastSpot(s, BigUnits) \in Nat /\ LastSpot(s, AllUnits) \in Nat
        /\ LastSpot(s, BigUnits) <= LastSpot(s, AllUnits) /\ LastSpot(s, AllUnits) <= Len(s)
    BY <1>0, UnitsLast
  <2> QED BY <1>0, <2>1
<1>2. c \notin BigUnits /\ c \in AllUnits /\ c # Point
  BY UnitsAre
<1>3. /\ InPlace!Fits(q.subtotal, a)
      /\ UnitTaken(q, r, q.total, InPlace!Add(q.subtotal, a))
  BY SmallUnitAnswers
<1>9. r.total = q.total /\ r.subtotal = InPlace!Add(q.subtotal, a)
  BY <1>3 DEF UnitTaken
<1>4. /\ Falls(t, b + 1, m) /\ Part(t, b + 1, m) # {}
      /\ Pointed(r.subtotal) /\ Stands(r.subtotal, Part(t, b + 1, m))
  BY <1>3, <1>9, SmallUnitFits
<1>5. /\ LastSpot(t, BigUnits) = b
      /\ Part(t, 1, b) = Part(s, 1, b) /\ (Falls(t, 1, b) <=> Falls(s, 1, b))
  BY <1>2, ClosedParts
<1>6. /\ Pointed(q.total) /\ Stands(q.total, Part(s, 1, b)) /\ Falls(s, 1, b)
      /\ 0 < b => Part(s, 1, b) # {}
  BY DEF ParsedSo, Sums, Flags
<1>7. \A k \in Spots(t, BigUnits) : BigRight(t, k)
  <2>1. Spots(t, BigUnits) = Spots(s, BigUnits)
    BY <1>2, SpotsAfter
  <2>2. \A k \in Spots(s, BigUnits) : k \in 1 .. Len(s) /\ BigRight(s, k)
    BY DEF Spots, ParsedSo, Plain
  <2>3. \A k \in 1 .. Len(s) : BigRight(t, k) <=> BigRight(s, k)
    BY PlaceKept
  <2> QED BY <2>1, <2>2, <2>3
<1>8. Pointed(r.total) /\ Stands(r.total, Part(t, 1, b)) /\ Falls(t, 1, b)
      /\ (0 < b => Part(t, 1, b) # {})
  BY <1>5, <1>6, <1>9
<1> HIDE DEF a, b, m
<1> QED BY <1>0, <1>2, <1>3, <1>4, <1>5, <1>7, <1>8, <1>9, NewGroupParsed

LEMMA BigUnitAnswers ==
    ASSUME NEW c \in BigUnits, NEW q \in Parser, NEW r, r = InPlace!AppendChar(q, c).p,
           NEW a, a = InPlace!Add(q.subtotal, q.tmp), NEW y, y = InPlace!ShiftScale(a, -c)
    PROVE  /\ InPlace!AppendChar(q, c).ok <=>
                 /\ InPlace!Fits(q.subtotal, q.tmp) /\ ~InPlace!IsZero(a) /\ InPlace!Fits(q.total, y)
           /\ InPlace!AppendChar(q, c).ok =>
                 UnitTaken(q, r, InPlace!Add(q.total, y), InPlace!NewDecimal)
<1> DEFINE h == [q EXCEPT !.total = InPlace!Add(@, y), !.subtotal = InPlace!NewDecimal,
                          !.tmp = InPlace!NewDecimal]
           z == [h EXCEPT !.isFirstDigit = TRUE, !.digitLen = 0, !.hasComma = FALSE]
<1>1. InPlace!AppendChar(q, c) =
        IF ~InPlace!Fits(q.subtotal, q.tmp) \/ InPlace!IsZero(a)
        THEN InPlace!No([q EXCEPT !.subtotal = a])
        ELSE IF ~InPlace!Fits(q.total, y)
        THEN InPlace!No([q EXCEPT !.subtotal = y, !.total = InPlace!Add(@, y)])
        ELSE InPlace!Yes(InPlace!StartUnit(h))
  BY UnitAnswers DEF InPlace!AppendBigUnit
<1>2. InPlace!StartUnit(h) = z
  BY DEF InPlace!StartUnit
<1>3. UnitTaken(q, z, InPlace!Add(q.total, y), InPlace!NewDecimal)
  BY DEF Parser, UnitTaken
<1> HIDE DEF h, z
<1> QED BY <1>1, <1>2, <1>3 DEF InPlace!Yes, InPlace!No

\* Behind the last big unit the figures fall if the sums fit, and there is one
\* unless the string ends there.
LEMMA RestParsed ==
    ASSUME NEW s \in Seq(Characters), NEW q, ParsedSo(q, s), NEW b, b = LastSpot(s, BigUnits),
           NEW n, n = Len(s), NEW a, a = InPlace!Add(q.subtotal, q.tmp)
    PROVE  /\ InPlace!Fits(q.subtotal, q.tmp) <=> Falls(s, b + 1, n)
           /\ InPlace!Fits(q.subtotal, q.tmp) => Pointed(a) /\ Stands(a, Part(s, b + 1, n))
           /\ Part(s, b + 1, n) = {} <=> b = n
<1> DEFINE u == LastSpot(s, AllUnits)
           l == b + 1
           k == u + 1
<1>1. b \in Nat /\ u \in Nat /\ n \in Nat /\ b <= u /\ u <= n
  BY UnitsLast
<1>2. /\ Pointed(q.subtotal) /\ Stands(q.subtotal, Part(s, l, u)) /\ Falls(s, l, u)
      /\ Pointed(q.tmp) /\ Stands(q.tmp, Part(s, k, n)) /\ Falls(s, k, n)
      /\ b < u => Part(s, l, u) # {}
  BY DEF ParsedSo, Sums, Flags
<1>3. Part(s, k, n) = {} <=> u = n
  BY OpenNotZero
<1>4. l \in Nat /\ k = u + 1 /\ l <= u + 1 /\ l = b + 1
  BY <1>1
<1> HIDE DEF u, l, k
<1>5. Part(s, l, n) = Part(s, l, u) \cup Part(s, k, n)
  BY <1>1, <1>4, PartsUnion
<1>6. Falls(s, l, n) <=> /\ Falls(s, l, u) /\ Falls(s, k, n)
                         /\ \A f \in Part(s, l, u), g \in Part(s, k, n) : f[1] > g[1]
  BY <1>1, <1>4, PartsMeet
<1>7. InPlace!Fits(q.subtotal, q.tmp) <=>
         \A f \in Part(s, l, u), g \in Part(s, k, n) : f[1] > g[1]
  BY <1>2, StandsFits
<1>8. InPlace!Fits(q.subtotal, q.tmp) =>
         Pointed(a) /\ Stands(a, Part(s, l, u) \cup Part(s, k, n))
  BY <1>2, StandsSum
<1>9. Part(s, l, n) = {} <=> b = n
  <2>1. CASE b = n
    <3>1. l > n
      BY <1>1, <1>4, <2>1
    <3> QED BY <1>1, <1>4, <2>1, <3>1, PartOfFew
  <2>2. CASE b # n
    <3>1. b < u \/ u # n
      BY <1>1, <2>2
    <3> QED BY <1>2, <1>3, <1>5, <2>2, <3>1
  <2> QED BY <2>1, <2>2
<1> QED BY <1>2, <1>4, <1>5, <1>6, <1>7, <1>8, <1>9

\* What a big unit makes of the figures.
LEMMA BigUnitPart ==
    ASSUME NEW s, NEW c, NEW t, Grows(s, c, t), c \in BigUnits, NEW b, b = LastSpot(s, BigUnits),
           NEW n, n = Len(s), NEW m, m = n + 1
    PROVE  /\ Part(t, 1, b) = Part(s, 1, b) /\ (Falls(t, 1, b) <=> Falls(s, 1, b))
           /\ Part(t, b + 1, m) = Raised(Part(s, b + 1, n), -c)
           /\ Falls(t, b + 1, m) <=> Falls(s, b + 1, n)
<1> DEFINE u == LastSpot(s, AllUnits)
           l == b + 1
           e == -c
<1>0. s \in Seq(Characters) /\ t \in Seq(Characters) /\ Len(t) = m /\ t[m] = c
  BY GrownString
<1>1. b \in Nat /\ u \in Nat /\ n \in Nat /\ b <= u /\ u <= n /\ LastGroup(s) = u + 1 .. n
  BY <1>0, UnitsLast DEF LastGroup
<1>2. c \in AllUnits /\ c \notin Digits /\ c \notin SmallUnits /\ e \in Int
  BY UnitsAre
<1>3. \A k \in 1 .. u : /\ k <= b => PowerOf(t, k) = PowerOf(s, k) + 0
                        /\ k > b => PowerOf(t, k) = PowerOf(s, k) + e
  <2> SUFFICES ASSUME NEW k \in 1 .. u
               PROVE  /\ k <= b => PowerOf(t, k) = PowerOf(s, k) + 0
                      /\ k > b => PowerOf(t, k) = PowerOf(s, k) + e
    OBVIOUS
  <2>1. k \in 1 .. LastSpot(s, AllUnits)
    OBVIOUS
  <2>2. /\ k <= b => PowerOf(t, k) = PowerOf(s, k)
        /\ k > b => PowerOf(t, k) = PowerOf(s, k) + e
        /\ PowerOf(s, k) \in Int
    BY <2>1, PowerClosed
  <2> QED BY <2>2
<1>4. \A k \in LastGroup(s) : PowerOf(t, k) = PowerOf(s, k) + e
  BY <1>2, PowerOpen
<1>5. \A k \in l .. n : PowerOf(t, k) = PowerOf(s, k) + e
  <2> SUFFICES ASSUME NEW k \in l .. n PROVE PowerOf(t, k) = PowerOf(s, k) + e
    OBVIOUS
  <2>1. k \in LastGroup(s) \/ (k \in 1 .. u /\ k > b)
    BY <1>1
  <2> QED BY <1>3, <1>4, <2>1
<1>6. \A k \in 1 .. b : PowerOf(t, k) = PowerOf(s, k) + 0
  BY <1>1, <1>3
<1>7. m \notin FigureSpots(t)
  <2>1. ~ImpliedAt(t, m)
    BY <1>2, PowerNew
  <2> QED BY <1>0, <1>2, <2>1 DEF FigureSpots
<1>8. /\ l \in Nat /\ l >= 1 /\ l <= n + 1 /\ n <= m /\ m \in Nat /\ n <= Len(s) /\ b <= Len(s)
      /\ l = b + 1
  BY <1>1
<1> HIDE DEF u, l, e
<1>9. Part(t, 1, b) = Part(s, 1, b) /\ (Falls(t, 1, b) <=> Falls(s, 1, b))
  <2> DEFINE i1 == 1
             e0 == 0
  <2>1. i1 \in Nat /\ i1 >= 1 /\ e0 \in Int /\ e0 = 0
        /\ \A k \in i1 .. b : PowerOf(t, k) = PowerOf(s, k) + e0
    BY <1>6
  <2> HIDE DEF i1, e0
  <2>2. Part(t, i1, b) = Part(s, i1, b) /\ (Falls(t, i1, b) <=> Falls(s, i1, b))
    BY <1>1, <1>8, <2>1, PartRaised
  <2> QED BY <2>2 DEF i1
<1>10. Part(t, l, n) = Raised(Part(s, l, n), e) /\ (Falls(t, l, n) <=> Falls(s, l, n))
  <2>1. \A h \in Nat : (h <= Len(s) /\ \A k \in l .. h : PowerOf(t, k) = PowerOf(s, k) + e) =>
            Part(t, l, h) = Raised(Part(s, l, h), e) /\ (Falls(t, l, h) <=> Falls(s, l, h))
    <3> SUFFICES ASSUME NEW h \in Nat, h <= Len(s),
                        \A k \in l .. h : PowerOf(t, k) = PowerOf(s, k) + e
                 PROVE  Part(t, l, h) = Raised(Part(s, l, h), e) /\ (Falls(t, l, h) <=> Falls(s, l, h))
      OBVIOUS
    <3>1. l \in Nat /\ l >= 1 /\ e \in Int
      BY <1>2, <1>8
    <3>2. Part(t, l, h) = Raised(Part(s, l, h), e)
      BY <3>1, PartRaised
    <3>3. Falls(t, l, h) <=> Falls(s, l, h)
      BY <3>1, PartRaised
    <3> QED BY <3>2, <3>3
  <2> QED BY <1>1, <1>5, <1>8, <2>1, Zenon
<1>11. Part(t, m, m) = {} /\ Falls(t, m, m)
  BY <1>0, <1>7, <1>8, PartOfFew
<1>12. Part(t, l, m) = Part(t, l, n)
  <2>1. Part(t, l, m) = Part(t, l, n) \cup Part(t, n + 1, m)
    BY <1>0, <1>1, <1>8, PartsUnion
  <2> QED BY <1>11, <2>1
<1>13. Falls(t, l, m) <=> Falls(t, l, n)
  <2>1. Falls(t, l, m) <=> /\ Falls(t, l, n) /\ Falls(t, n + 1, m)
                           /\ \A f \in Part(t, l, n), g \in Part(t, n + 1, m) : f[1] > g[1]
    BY <1>0, <1>1, <1>8, PartsMeet, SMTT(30)
  <2> QED BY <1>11, <2>1
<1> QED BY <1>8, <1>9, <1>10, <1>12, <1>13 DEF e

\* A big unit is taken where the figures fall on, and there is one to multiply.
LEMMA BigUnitFits ==
    ASSUME NEW s, NEW c, NEW t, Grows(s, c, t), c \in BigUnits, NEW q, ParsedSo(q, s),
           NEW a, a = InPlace!Add(q.subtotal, q.tmp), NEW y, y = InPlace!ShiftScale(a, -c),
           InPlace!Fits(q.subtotal, q.tmp), ~InPlace!IsZero(a), NEW m, m = Len(s) + 1
    PROVE  /\ InPlace!Fits(q.total, y) <=> Falls(t, 1, m)
           /\ Part(t, 1, m) # {}
           /\ InPlace!Fits(q.total, y) =>
                 Pointed(InPlace!Add(q.total, y)) /\ Stands(InPlace!Add(q.total, y), Part(t, 1, m))
<1> DEFINE b == LastSpot(s, BigUnits)
           n == Len(s)
           l == b + 1
           o == 1
           d == q.total
           e == -c
<1>0. s \in Seq(Characters) /\ t \in Seq(Characters)
  BY GrownString
<1>1. b \in Nat /\ n \in Nat /\ b <= n
  <2>1. LastSpot(s, BigUnits) \in Nat /\ LastSpot(s, AllUnits) \in Nat /\ Len(s) \in Nat
        /\ LastSpot(s, BigUnits) <= LastSpot(s, AllUnits) /\ LastSpot(s, AllUnits) <= Len(s)
    BY <1>0, UnitsLast
  <2> QED BY <2>1
<1>2. e \in Nat
  BY UnitsAre
<1>3. Falls(s, l, n) /\ Pointed(a) /\ Stands(a, Part(s, l, n))
  BY <1>0, RestParsed
<1>4. /\ Part(t, o, b) = Part(s, o, b) /\ (Falls(t, o, b) <=> Falls(s, o, b))
      /\ Part(t, l, m) = Raised(Part(s, l, n), e)
      /\ Falls(t, l, m) <=> Falls(s, l, n)
  BY BigUnitPart
<1>5. Pointed(d) /\ Stands(d, Part(s, o, b)) /\ Falls(s, o, b)
  BY DEF ParsedSo, Sums
<1>6. /\ o \in Nat /\ l = b + 1 /\ o <= b + 1 /\ b <= m /\ m \in Nat
  BY <1>1
<1>7. y = InPlace!ShiftScale(a, e) /\ o = 1
  OBVIOUS
<1> HIDE DEF b, n, l, o, d, e
<1>8. Pointed(y) /\ Stands(y, Part(t, l, m))
  BY <1>2, <1>3, <1>4, <1>7, StandsRaised
<1>9. Part(t, l, m) # {}
  <2>1. Part(s, l, n) # {}
    BY <1>3, StandsForNone
  <2> QED BY <1>4, <2>1 DEF Raised
<1>10. Part(t, o, m) = Part(t, o, b) \cup Part(t, l, m)
  BY <1>0, <1>1, <1>6, PartsUnion
<1>11. Falls(t, o, m) <=> /\ Falls(t, o, b) /\ Falls(t, l, m)
                          /\ \A f \in Part(t, o, b), g \in Part(t, l, m) : f[1] > g[1]
  BY <1>0, <1>1, <1>6, PartsMeet
<1>12. Stands(d, Part(t, o, b))
  BY <1>4, <1>5
<1>13. InPlace!Fits(d, y) <=> \A f \in Part(t, o, b), g \in Part(t, l, m) : f[1] > g[1]
  BY <1>5, <1>8, <1>12, StandsFits
<1>14. InPlace!Fits(d, y) => /\ Pointed(InPlace!Add(d, y))
                             /\ Stands(InPlace!Add(d, y), Part(t, o, b) \cup Part(t, l, m))
  BY <1>5, <1>8, <1>12, StandsSum
<1>15. Part(t, o, m) # {}
  BY <1>9, <1>10
<1> QED BY <1>3, <1>4, <1>5, <1>7, <1>10, <1>11, <1>13, <1>14, <1>15 DEF d

\* A string that does not end with a big unit has something for the next one.
LEMMA BigUnitStands ==
    ASSUME NEW s, NEW c, NEW t, Grows(s, c, t), c \in BigUnits, NEW m, m = Len(s) + 1
    PROVE  BigRight(t, m) <=> LastSpot(s, BigUnits) # Len(s)
<1> DEFINE n == Len(s)
           b == LastSpot(s, BigUnits)
<1>0. /\ s \in Seq(Characters) /\ n \in Nat /\ \A k \in 1 .. n : t[k] = s[k]
  BY GrownString
<1>1. b \in 0 .. n /\ (\A k \in Spots(s, BigUnits) : k <= b) /\ (b # 0 => b \in Spots(s, BigUnits))
  BY <1>0, LastSpotIs
<1>2. \A k \in 1 .. n : k \in Spots(s, BigUnits) <=> s[k] \in BigUnits
  BY DEF Spots
<1> HIDE DEF n, b
<1>3. m = n + 1 /\ m - 1 = n /\ (m > 1 <=> n # 0) /\ (n # 0 => n \in 1 .. n)
  BY <1>0 DEF n
<1>4. n # 0 => (s[n] \in BigUnits <=> b = n)
  BY <1>0, <1>1, <1>2, <1>3
<1>5. n = 0 => b = n
  BY <1>1
<1>6. BigRight(t, m) <=> m > 1 /\ t[m - 1] \notin BigUnits
  BY DEF BigRight
<1>7. n # 0 => t[m - 1] = s[n]
  BY <1>0, <1>3
<1> QED BY <1>3, <1>4, <1>5, <1>6, <1>7 DEF n, b

LEMMA BigUnitParsed ==
    ASSUME NEW s, NEW c, NEW t, Grows(s, c, t), c \in BigUnits, NEW q \in Parser, ParsedSo(q, s),
           InPlace!AppendChar(q, c).ok, NEW r, r = InPlace!AppendChar(q, c).p
    PROVE  ParsedSo(r, t)
<1> DEFINE a == InPlace!Add(q.subtotal, q.tmp)
           y == InPlace!ShiftScale(a, -c)
           m == Len(s) + 1
           o == 1
<1>0. /\ s \in Seq(Characters) /\ t \in Seq(Characters) /\ Len(s) \in Nat /\ Len(t) = m
      /\ t[m] = c
  BY GrownString
<1>1. c \in AllUnits /\ c # Point
  BY UnitsAre
<1>2. /\ InPlace!Fits(q.subtotal, q.tmp) /\ ~InPlace!IsZero(a) /\ InPlace!Fits(q.total, y)
      /\ UnitTaken(q, r, InPlace!Add(q.total, y), InPlace!NewDecimal)
  BY BigUnitAnswers
<1>3. r.total = InPlace!Add(q.total, y) /\ r.subtotal = InPlace!NewDecimal
  BY <1>2 DEF UnitTaken
<1>4. /\ Falls(t, o, m) /\ Part(t, o, m) # {}
      /\ Pointed(r.total) /\ Stands(r.total, Part(t, o, m))
  BY <1>2, <1>3, BigUnitFits
<1>5. LastSpot(t, BigUnits) = m
  BY SpotsAfter
<1>6. LastSpot(t, AllUnits) = Len(t)
  BY <1>1, UnitSpots
<1>7. Part(t, m + 1, m) = {} /\ Falls(t, m + 1, m)
  BY <1>0, <1>6, EmptyGroup
<1>8. Pointed(r.subtotal) /\ Stands(r.subtotal, Part(t, m + 1, m))
  BY <1>3, <1>7, StandsNothing
<1>9. \A k \in Spots(t, BigUnits) : BigRight(t, k)
  <2>1. Spots(t, BigUnits) = Spots(s, BigUnits) \cup {m}
    BY SpotsAfter
  <2>2. \A k \in Spots(s, BigUnits) : k \in 1 .. Len(s) /\ BigRight(s, k)
    BY DEF Spots, ParsedSo, Plain
  <2>3. \A k \in 1 .. Len(s) : BigRight(t, k) <=> BigRight(s, k)
    BY PlaceKept
  <2>4. BigRight(t, m)
    <3>1. LastSpot(s, BigUnits) # Len(s)
      <4>1. Pointed(a) /\ Stands(a, Part(s, LastSpot(s, BigUnits) + 1, Len(s)))
            /\ (Part(s, LastSpot(s, BigUnits) + 1, Len(s)) = {} <=> LastSpot(s, BigUnits) = Len(s))
        BY <1>0, <1>2, RestParsed
      <4> QED BY <1>2, <4>1, StandsForNone
    <3> QED BY <3>1, BigUnitStands
  <2> QED BY <2>1, <2>2, <2>3, <2>4
<1>10. UnitTaken(q, r, r.total, r.subtotal)
  BY <1>2, <1>3
<1>11. ~(m < m)
  BY <1>0
<1> HIDE DEF a, y, m
<1>12. Pointed(r.total) /\ Stands(r.total, Part(t, 1, m)) /\ Falls(t, 1, m) /\ Part(t, 1, m) # {}
  BY <1>4
<1> HIDE DEF o
<1> QED BY <1>0, <1>1, <1>5, <1>7, <1>8, <1>9, <1>10, <1>11, <1>12, NewGroupParsed

LEMMA BigUnitRefused ==
    ASSUME NEW s, NEW c, NEW t, Grows(s, c, t), c \in BigUnits, NEW q \in Parser, ParsedSo(q, s),
           ~InPlace!AppendChar(q, c).ok
    PROVE  ~Numeral!IsNumeral(t)
<1> DEFINE a == InPlace!Add(q.subtotal, q.tmp)
           y == InPlace!ShiftScale(a, -c)
           b == LastSpot(s, BigUnits)
           n == Len(s)
           m == Len(s) + 1
           l == b + 1
           o == 1
<1>0. /\ s \in Seq(Characters) /\ t \in Seq(Characters) /\ n \in Nat /\ Len(t) = m
      /\ t[m] = c
  BY GrownString
<1>1. b \in Nat /\ b <= n
  <2>1. LastSpot(s, BigUnits) \in Nat /\ LastSpot(s, AllUnits) \in Nat
        /\ LastSpot(s, BigUnits) <= LastSpot(s, AllUnits) /\ LastSpot(s, AllUnits) <= Len(s)
    BY <1>0, UnitsLast
  <2> QED BY <1>0, <2>1
<1>2. CASE ~InPlace!Fits(q.subtotal, q.tmp)
  <2>1. ~Falls(s, l, n)
    BY <1>0, <1>2, RestParsed
  <2>2. ~Falls(t, l, m)
    BY <2>1, BigUnitPart
  <2>3. o \in Nat /\ b \in Nat /\ m \in Nat /\ o <= b + 1 /\ b <= m
    BY <1>0, <1>1
  <2> HIDE DEF o, b, m
  <2>4. ~Falls(t, o, m)
    BY <1>0, <2>2, <2>3, PartsMeet DEF l
  <2>5. ~Falls(t, 1, Len(t))
    BY <1>0, <2>4 DEF o
  <2> QED BY <1>0, <2>5, NumeralIf
<1>3. CASE InPlace!Fits(q.subtotal, q.tmp) /\ InPlace!IsZero(a)
  <2>1. b = n
    <3>1. Pointed(a) /\ Stands(a, Part(s, l, n)) /\ (Part(s, l, n) = {} <=> b = n)
      BY <1>0, <1>3, RestParsed
    <3> QED BY <1>3, <3>1, StandsForNone
  <2>2. ~BigRight(t, m)
    BY <2>1, BigUnitStands
  <2>3. m \in Spots(t, BigUnits)
    BY <1>0 DEF Spots
  <2> QED BY <1>0, <2>2, <2>3, NumeralIf
<1>4. CASE InPlace!Fits(q.subtotal, q.tmp) /\ ~InPlace!IsZero(a) /\ ~InPlace!Fits(q.total, y)
  <2>1. ~Falls(t, 1, m)
    BY <1>4, BigUnitFits
  <2> QED BY <1>0, <2>1, NumeralIf
<1>5. \/ ~InPlace!Fits(q.subtotal, q.tmp)
      \/ InPlace!Fits(q.subtotal, q.tmp) /\ InPlace!IsZero(a)
      \/ InPlace!Fits(q.subtotal, q.tmp) /\ ~InPlace!IsZero(a) /\ ~InPlace!Fits(q.total, y)
  BY BigUnitAnswers
<1> QED BY <1>2, <1>3, <1>4, <1>5

\* A character that is taken keeps what the parser holds true of the string.
LEMMA ParsedOn ==
    ASSUME NEW s, NEW c, NEW t, Grows(s, c, t), NEW q \in Parser, ParsedSo(q, s),
           InPlace!AppendChar(q, c).ok
    PROVE  ParsedSo(InPlace!AppendChar(q, c).p, t)
<1>1. c \in Digits \cup SmallUnits \cup BigUnits \cup {Comma, Point, Other}
  BY DEF Grows, Characters
<1>2. CASE c \in Digits
  BY <1>2, DigitParsed
<1>3. CASE c \in SmallUnits
  BY <1>3, SmallUnitParsed
<1>4. CASE c \in BigUnits
  BY <1>4, BigUnitParsed
<1>5. CASE c = Comma
  BY <1>5, CommaParsed
<1>6. CASE c = Point
  BY <1>6, PointParsed
<1>7. CASE c = Other
  <2>1. InPlace!AppendChar(q, c) = InPlace!No(q)
    BY <1>7 DEF InPlace!AppendChar, InPlace!Comma, InPlace!Point, InPlace!SmallUnits,
                InPlace!BigUnits, InPlace!Digits, InPlace!Other, Other
  <2> QED BY <2>1 DEF InPlace!No
<1> QED BY <1>1, <1>2, <1>3, <1>4, <1>5, <1>6, <1>7

\* A character that is refused is none of a numeral.
LEMMA RefusedOn ==
    ASSUME NEW s, NEW c, NEW t, Grows(s, c, t), NEW q \in Parser, ParsedSo(q, s),
           ~InPlace!AppendChar(q, c).ok, CommaAt(t) = {}
    PROVE  ~Numeral!IsNumeral(t)
<1>1. c \in Digits \cup SmallUnits \cup BigUnits \cup {Comma, Point, Other}
  BY DEF Grows, Characters
<1>2. CASE c \in Digits
  <2>1. InPlace!AppendChar(q, c) = InPlace!AppendNumeral(q, c)
    BY <1>2, DigitAnswers
  <2> QED BY <2>1 DEF InPlace!AppendNumeral, InPlace!Yes
<1>3. CASE c \in SmallUnits
  BY <1>3, SmallUnitRefused
<1>4. CASE c \in BigUnits
  BY <1>4, BigUnitRefused
<1>5. CASE c = Comma
  <2>1. Len(t) = Len(s) + 1 /\ t[Len(s) + 1] = c /\ Len(s) \in Nat
    BY GrownString
  <2>2. Len(s) + 1 \in CommaAt(t)
    BY <1>5, <2>1 DEF CommaAt
  <2> QED BY <2>2
<1>6. CASE c = Point
  BY <1>6, PointRefused
<1>7. CASE c = Other
  BY <1>7, OtherRefused
<1> QED BY <1>1, <1>2, <1>3, <1>4, <1>5, <1>6, <1>7

\* What done answers: it adds the sums up, where they do not overlap.
LEMMA EndAnswers ==
    ASSUME NEW q \in Parser, NEW a, a = InPlace!Add(q.subtotal, q.tmp)
    PROVE  /\ InPlace!Done(q).ok <=>
                 /\ ~q.hasHangingPoint /\ ~(q.hasComma /\ q.digitLen # 3)
                 /\ InPlace!Fits(q.subtotal, q.tmp) /\ InPlace!Fits(q.total, a)
                 /\ q.err = "none" /\ ~InPlace!IsZero(InPlace!Add(q.total, a))
           /\ InPlace!Done(q).ok => InPlace!Done(q).p.total = InPlace!Add(q.total, a)
<1> DEFINE f == InPlace!Fits(q.subtotal, q.tmp)
           h == [q EXCEPT !.subtotal = a, !.total = IF f THEN InPlace!Add(@, a) ELSE @]
           g == f /\ InPlace!Fits(q.total, a) /\ q.err = "none" /\ ~InPlace!IsZero(h.total)
<1>1. h.total = IF f THEN InPlace!Add(q.total, a) ELSE q.total
  BY DEF Parser
<1>2. InPlace!Done(q) =
        IF q.hasHangingPoint THEN InPlace!NoFor("point", h)
        ELSE IF q.hasComma /\ q.digitLen # 3 THEN InPlace!NoFor("comma", h)
        ELSE [ok |-> g, p |-> h]
  BY DEF InPlace!Done
<1>3. \A e, x : InPlace!NoFor(e, x).ok = FALSE
  BY DEF InPlace!NoFor, InPlace!No
<1>8. g \in BOOLEAN
  OBVIOUS
<1>9. g <=> f /\ InPlace!Fits(q.total, a) /\ q.err = "none" /\ ~InPlace!IsZero(h.total)
  OBVIOUS
<1> HIDE DEF h, f, g
<1>4. q.hasHangingPoint \/ (q.hasComma /\ q.digitLen # 3) => ~InPlace!Done(q).ok
  BY <1>2, <1>3
<1>5. ASSUME ~q.hasHangingPoint /\ ~(q.hasComma /\ q.digitLen # 3)
      PROVE  /\ InPlace!Done(q).ok <=> /\ f /\ InPlace!Fits(q.total, a) /\ q.err = "none"
                                       /\ ~InPlace!IsZero(InPlace!Add(q.total, a))
             /\ InPlace!Done(q).ok => InPlace!Done(q).p.total = InPlace!Add(q.total, a)
  <2>1. InPlace!Done(q) = [ok |-> g, p |-> h]
    BY <1>2, <1>5
  <2>2. InPlace!Done(q).ok = g /\ InPlace!Done(q).p = h
    BY <2>1
  <2> QED BY <1>1, <1>8, <1>9, <2>2
<1>6. InPlace!Done(q).ok <=>
         /\ ~q.hasHangingPoint /\ ~(q.hasComma /\ q.digitLen # 3)
         /\ f /\ InPlace!Fits(q.total, a) /\ q.err = "none"
         /\ ~InPlace!IsZero(InPlace!Add(q.total, a))
  BY <1>4, <1>5
<1>7. InPlace!Done(q).ok => InPlace!Done(q).p.total = InPlace!Add(q.total, a)
  BY <1>4, <1>5
<1> QED BY <1>6, <1>7 DEF f

\* The sums of a string that ends.
LEMMA WholeParsed ==
    ASSUME NEW s \in Seq(Characters), NEW q, ParsedSo(q, s), NEW n, n = Len(s),
           NEW a, a = InPlace!Add(q.subtotal, q.tmp), NEW z, z = InPlace!Add(q.total, a)
    PROVE  /\ InPlace!Fits(q.subtotal, q.tmp) /\ InPlace!Fits(q.total, a) <=> Falls(s, 1, n)
           /\ Falls(s, 1, n) => Pointed(z) /\ Stands(z, Part(s, 1, n))
           /\ Part(s, 1, n) = {} <=> s = <<>>
<1> DEFINE b == LastSpot(s, BigUnits)
           l == b + 1
           o == 1
           f == InPlace!Fits(q.subtotal, q.tmp)
<1>1. b \in Nat /\ n \in Nat /\ b <= n
  <2>1. LastSpot(s, BigUnits) \in Nat /\ LastSpot(s, AllUnits) \in Nat /\ Len(s) \in Nat
        /\ LastSpot(s, BigUnits) <= LastSpot(s, AllUnits) /\ LastSpot(s, AllUnits) <= Len(s)
    BY UnitsLast
  <2> QED BY <2>1
<1>2. /\ f <=> Falls(s, l, n)
      /\ f => Pointed(a) /\ Stands(a, Part(s, l, n))
      /\ Part(s, l, n) = {} <=> b = n
  BY RestParsed
<1>3. /\ Pointed(q.total) /\ Stands(q.total, Part(s, o, b)) /\ Falls(s, o, b)
      /\ 0 < b => Part(s, o, b) # {}
  BY DEF ParsedSo, Sums, Flags
<1>4. n = 0 <=> s = <<>>
  BY EmptySeq
<1>5. o \in Nat /\ o <= b + 1 /\ b <= n /\ l = b + 1 /\ o = 1
  BY <1>1
<1> HIDE DEF b, l, o, f
<1>6. Part(s, o, n) = Part(s, o, b) \cup Part(s, l, n)
  BY <1>1, <1>5, PartsUnion
<1>7. Falls(s, o, n) <=> /\ Falls(s, o, b) /\ Falls(s, l, n)
                         /\ \A g \in Part(s, o, b), h \in Part(s, l, n) : g[1] > h[1]
  BY <1>1, <1>5, PartsMeet
<1>8. f => (InPlace!Fits(q.total, a) <=> \A g \in Part(s, o, b), h \in Part(s, l, n) : g[1] > h[1])
  BY <1>2, <1>3, StandsFits
<1>9. f /\ InPlace!Fits(q.total, a) => Pointed(z) /\ Stands(z, Part(s, o, b) \cup Part(s, l, n))
  BY <1>2, <1>3, StandsSum
<1>10. Part(s, o, n) = {} <=> n = 0
  <2>1. CASE b = n /\ n = 0
    <3>1. o > n
      BY <1>5, <2>1
    <3> QED BY <1>1, <1>5, <2>1, <3>1, PartOfFew
  <2>2. CASE b # n
    BY <1>1, <1>2, <1>6, <2>2
  <2>3. CASE b = n /\ n # 0
    BY <1>1, <1>3, <1>6, <2>3
  <2> QED BY <2>1, <2>2, <2>3
<1>11. f /\ InPlace!Fits(q.total, a) <=> Falls(s, o, n)
  BY <1>2, <1>3, <1>7, <1>8
<1> QED BY <1>4, <1>5, <1>6, <1>9, <1>10, <1>11 DEF f

\* The end is accepted after a numeral, and its sum has the figures read.
LEMMA DoneParsed ==
    ASSUME NEW s \in Seq(Characters), NEW q \in Parser, ParsedSo(q, s), InPlace!Done(q).ok,
           NEW z, z = InPlace!Done(q).p.total
    PROVE  /\ Pointed(z) /\ Stands(z, Part(s, 1, Len(s))) /\ ~InPlace!IsZero(z)
           /\ CommaAt(s) = {} => Numeral!IsNumeral(s)
<1> DEFINE a == InPlace!Add(q.subtotal, q.tmp)
           o == 1
           T == Part(s, o, Len(s))
<1>1. /\ ~q.hasHangingPoint /\ InPlace!Fits(q.subtotal, q.tmp) /\ InPlace!Fits(q.total, a)
      /\ ~InPlace!IsZero(InPlace!Add(q.total, a)) /\ z = InPlace!Add(q.total, a)
  BY EndAnswers
<1>2. /\ Falls(s, o, Len(s)) /\ Pointed(z) /\ Stands(z, T)
      /\ T = {} <=> s = <<>>
  BY <1>1, WholeParsed
<1>3. T # {} /\ ~InPlace!IsZero(z)
  BY <1>1, <1>2, StandsForNone
<1>4. /\ ~Hanging(s) /\ Spots(s, {Other}) = {} /\ \A k \in Spots(s, BigUnits) : BigRight(s, k)
      /\ CommaAt(s) = {} => \A k \in Spots(s, {Point}) : PointRight(s, k)
  BY <1>1 DEF ParsedSo, Flags, Plain
<1>5. CommaAt(s) = {} => Numeral!IsNumeral(s)
  BY <1>2, <1>3, <1>4, NumeralIf
<1> QED BY <1>2, <1>3, <1>5

\* What it refuses is no numeral, if it is without commas.
LEMMA DoneRefused ==
    ASSUME NEW s \in Seq(Characters), NEW q \in Parser, ParsedSo(q, s), ~InPlace!Done(q).ok,
           CommaAt(s) = {}
    PROVE  ~Numeral!IsNumeral(s)
<1> DEFINE a == InPlace!Add(q.subtotal, q.tmp)
           z == InPlace!Add(q.total, a)
           o == 1
           T == Part(s, o, Len(s))
<1>1. q.err = "none" /\ (q.hasHangingPoint <=> Hanging(s)) /\ ~q.hasComma
  BY DEF ParsedSo, Flags, Plain
<1>2. /\ InPlace!Fits(q.subtotal, q.tmp) /\ InPlace!Fits(q.total, a) <=> Falls(s, o, Len(s))
      /\ Falls(s, o, Len(s)) => Pointed(z) /\ Stands(z, T)
      /\ T = {} <=> s = <<>>
  BY WholeParsed
<1>3. \/ Hanging(s)
      \/ ~Falls(s, o, Len(s))
      \/ Falls(s, o, Len(s)) /\ InPlace!IsZero(z)
  BY <1>1, <1>2, EndAnswers
<1>4. Falls(s, o, Len(s)) /\ InPlace!IsZero(z) => s = <<>>
  BY <1>2, StandsForNone
<1> QED BY <1>3, <1>4, NumeralIf

-----------------------------------------------------------------------------
(* What a string denotes, and what the string of a decimal does             *)

\* What a string denotes is what its figures count.
LEMMA DenotedIs ==
    ASSUME NEW s \in Seq(Characters)
    PROVE  Numeral!Denoted(s) = {f \in Part(s, 1, Len(s)) : f[2] # 0}
<1> DEFINE Old(k) == <<Numeral!Power(s, k), IF s[k] \in Digits THEN s[k] ELSE 1>>
           D == {k \in FigureSpots(s) : s[k] # 0}
<1>0. Len(s) \in Nat /\ DOMAIN s = 1 .. Len(s)
  BY LenProperties
<1>1. \A k \in 1 .. Len(s) : Numeral!Figures(s) = FigureSpots(s) /\ Old(k) = Fig(s, k)
  BY PowersSame DEF Fig
<1>2. Numeral!Figures(s) \subseteq 1 .. Len(s) /\ FigureSpots(s) \subseteq 1 .. Len(s)
  BY <1>0 DEF Numeral!Figures, FigureSpots
<1>3. Numeral!Figures(s) = FigureSpots(s)
  BY <1>1, <1>2
<1>4. Numeral!Denoted(s) = {Old(k) : k \in {j \in Numeral!Figures(s) : s[j] # 0}}
  BY CharsSame DEF Numeral!Denoted
<1>5. Numeral!Denoted(s) = {Fig(s, k) : k \in D}
  BY <1>1, <1>2, <1>3, <1>4
<1>6. \A k \in FigureSpots(s) : Fig(s, k)[2] # 0 <=> s[k] # 0
  <2> TAKE k \in FigureSpots(s)
  <2>1. s[k] \in Digits \/ s[k] \in SmallUnits
    BY DEF FigureSpots, ImpliedAt
  <2>2. s[k] \in SmallUnits => s[k] # 0
    BY DEF SmallUnits
  <2>3. Fig(s, k)[2] = IF s[k] \in Digits THEN s[k] ELSE 1
    BY DEF Fig
  <2> QED BY <2>1, <2>2, <2>3
<1> DEFINE o == 1
<1>7. SpotsIn(s, o, Len(s)) = FigureSpots(s)
  BY <1>2 DEF SpotsIn
<1> HIDE DEF o
<1>8. Part(s, o, Len(s)) = {Fig(s, k) : k \in FigureSpots(s)}
  BY <1>7 DEF Part
<1> HIDE DEF Old
<1>9. Numeral!Denoted(s) = {f \in Part(s, o, Len(s)) : f[2] # 0}
  BY <1>5, <1>6, <1>8
<1> QED BY <1>9 DEF o

\* What the character at h counts, in a string of digits with, behind n of
\* them, at most one point.
PlainPower(n, h) == IF h <= n THEN n - h ELSE n + 1 - h
PlainString(r, n) ==
    /\ r \in Seq(Digits \cup {Point}) /\ n \in Nat /\ n <= Len(r)
    /\ \A k \in 1 .. Len(r) : r[k] = Point <=> k = n + 1

LEMMA PlainChars ==
    ASSUME NEW r, NEW n, PlainString(r, n)
    PROVE  /\ r \in Seq(Characters) /\ Len(r) \in Nat /\ n \in Nat /\ n <= Len(r)
           /\ Spots(r, AllUnits) = {} /\ LastSpot(r, AllUnits) = 0
           /\ LastGroup(r) = 1 .. Len(r) /\ LastPoint(r) = n + 1
           /\ \A k \in 1 .. Len(r) : r[k] \in Digits <=> k # n + 1
<1>1. r \in Seq(Digits \cup {Point}) /\ Len(r) \in Nat /\ n \in Nat /\ n <= Len(r)
      /\ \A k \in 1 .. Len(r) : r[k] \in Digits \cup {Point} /\ (r[k] = Point <=> k = n + 1)
  BY LenProperties, ElementOfSeq DEF PlainString
<1>2. r \in Seq(Characters)
  <2>1. Digits \cup {Point} \subseteq Characters
    BY DEF Characters
  <2> QED BY <1>1, <2>1, SeqOfMore
<1>3. \A k \in 1 .. Len(r) : (r[k] \in Digits <=> k # n + 1) /\ r[k] \notin AllUnits
  BY <1>1, UnitsAre
<1>4. Spots(r, AllUnits) = {}
  BY <1>3 DEF Spots
<1>5. LastSpot(r, AllUnits) = 0
  BY <1>2, <1>4, LastSpotOnly
<1>6. LastGroup(r) = 1 .. Len(r)
  BY <1>5 DEF LastGroup
<1>7. LastPoint(r) = n + 1
  <2> DEFINE Q == {Point}
  <2>1. \A k \in 1 .. Len(r) : r[k] \in Q <=> k = n + 1
    BY <1>1
  <2>2. (NoPoint(r) <=> Spots(r, Q) \cap LastGroup(r) = {})
        /\ (~NoPoint(r) => LastPoint(r) \in Spots(r, Q))
        /\ (NoPoint(r) => LastPoint(r) = Len(r) + 1)
    BY <1>2, LastPointIs DEF NoPoint
  <2> HIDE DEF Q
  <2>3. Spots(r, Q) = {k \in 1 .. Len(r) : k = n + 1}
    BY <2>1 DEF Spots
  <2>4. CASE n = Len(r)
    <3>1. Spots(r, Q) = {}
      BY <1>1, <2>3, <2>4
    <3> QED BY <2>2, <2>4, <3>1
  <2>5. CASE n # Len(r)
    <3>1. n + 1 \in 1 .. Len(r)
      BY <1>1, <2>5
    <3>2. Spots(r, Q) = {n + 1}
      BY <2>3, <3>1
    <3> QED BY <1>6, <2>2, <3>1, <3>2
  <2> QED BY <2>4, <2>5
<1> QED BY <1>1, <1>2, <1>3, <1>4, <1>5, <1>6, <1>7

LEMMA PlainFigure ==
    ASSUME NEW r, NEW n, PlainString(r, n), NEW k \in 1 .. Len(r)
    PROVE  /\ k \in FigureSpots(r) <=> k # n + 1
           /\ k # n + 1 => Fig(r, k) = <<PlainPower(n, k), r[k]>>
<1>1. /\ r \in Seq(Characters) /\ Len(r) \in Nat /\ n \in Nat /\ n <= Len(r)
      /\ LastGroup(r) = 1 .. Len(r) /\ LastPoint(r) = n + 1
      /\ \A h \in 1 .. Len(r) : r[h] \in Digits <=> h # n + 1
  BY PlainChars
<1>2. k \in LastGroup(r)
  BY <1>1
<1> DEFINE m == n + 1 + 1
<1>3. /\ ~ImpliedAt(r, k) /\ PowerOf(r, k) = InGroup(r, k)
      /\ InGroup(r, k) = IF k < n + 1 THEN DigitsIn(r, k + 1, n) ELSE -DigitsIn(r, m, k)
  <2> DEFINE v == LastPoint(r)
             w == v - 1
             x == v + 1
  <2>1. ~ImpliedAt(r, k) /\ PowerOf(r, k) = InGroup(r, k)
    BY <1>1, <1>2, OpenGroup
  <2>2. InGroup(r, k) = IF k < v THEN DigitsIn(r, k + 1, w) ELSE -DigitsIn(r, x, k)
    BY <1>1, <1>2, OpenGroup
  <2>3. v = n + 1 /\ w = n /\ x = m
    BY <1>1
  <2> HIDE DEF v, w, x, m
  <2> QED BY <2>1, <2>2, <2>3
<1>4. k \in FigureSpots(r) <=> k # n + 1
  BY <1>1, <1>3 DEF FigureSpots
<1>5. CASE k <= n
  <2>1. k < n + 1 /\ k # n + 1 /\ k + 1 \in Int /\ n \in Int
    BY <1>1, <1>5
  <2>2. \A h \in k + 1 .. n : h \in 1 .. Len(r) /\ h # n + 1
    BY <1>1
  <2>3. Spots(r, Digits) \cap (k + 1 .. n) = k + 1 .. n
    BY <1>1, <2>2 DEF Spots
  <2>4. Cardinality(k + 1 .. n) = IF k + 1 > n THEN 0 ELSE n - (k + 1) + 1
    BY <2>1, FS_Interval
  <2>5. Cardinality(k + 1 .. n) = n - k
    BY <1>1, <1>5, <2>4
  <2>6. DigitsIn(r, k + 1, n) = n - k
    BY <2>3, <2>5 DEF DigitsIn
  <2>7. PowerOf(r, k) = n - k
    BY <1>3, <2>1, <2>6
  <2>8. Fig(r, k) = <<n - k, r[k]>>
    BY <1>1, <2>1, <2>7 DEF Fig
  <2> QED BY <1>4, <1>5, <2>8 DEF PlainPower
<1>6. CASE k > n /\ k # n + 1
  <2>1. ~(k < n + 1) /\ ~(k <= n) /\ m \in Int /\ k \in Int /\ k >= m /\ k - m + 1 = k - n - 1
    BY <1>1, <1>6
  <2>2. \A h \in m .. k : h \in 1 .. Len(r) /\ h # n + 1
    BY <1>1
  <2>9. InGroup(r, k) = -DigitsIn(r, m, k)
    BY <1>3, <2>1
  <2> HIDE DEF m
  <2>3. Spots(r, Digits) \cap (m .. k) = m .. k
    BY <1>1, <2>2 DEF Spots
  <2>4. Cardinality(m .. k) = IF m > k THEN 0 ELSE k - m + 1
    BY <2>1, FS_Interval
  <2>5. Cardinality(m .. k) = k - n - 1
    BY <1>1, <2>1, <2>4
  <2>6. DigitsIn(r, m, k) = k - n - 1
    BY <2>3, <2>5 DEF DigitsIn
  <2>7. PowerOf(r, k) = n + 1 - k
    BY <1>1, <1>3, <2>6, <2>9
  <2>8. Fig(r, k) = <<n + 1 - k, r[k]>>
    BY <1>1, <1>6, <2>7 DEF Fig
  <2> QED BY <1>4, <1>6, <2>1, <2>8 DEF PlainPower
<1>7. k <= n \/ (k > n /\ k # n + 1) \/ k = n + 1
  BY <1>1
<1> QED BY <1>4, <1>5, <1>6, <1>7

\* Of a string with a point, what is trimmed are zeros behind the point, and
\* the point.
LEMMA TrimIs ==
    ASSUME NEW y, NEW n, PlainString(y, n), n < Len(y), NEW r, r = InPlace!Trim(y)
    PROVE  /\ PlainString(r, n) /\ Len(r) <= Len(y) /\ \A k \in 1 .. Len(r) : r[k] = y[k]
           /\ \A k \in Len(r) + 1 .. Len(y) : k # n + 1 => y[k] = 0
<1> DEFINE Kept(k) == y[k] # 0 /\ \A j \in k + 1 .. Len(y) : y[j] = 0
           last == CHOOSE k \in DOMAIN y : Kept(k)
           m == IF y[last] = Point THEN last - 1 ELSE last
<1>1. /\ y \in Seq(Digits \cup {Point}) /\ Len(y) \in Nat /\ n \in Nat /\ DOMAIN y = 1 .. Len(y)
      /\ \A k \in 1 .. Len(y) : y[k] = Point <=> k = n + 1
      /\ n + 1 \in 1 .. Len(y) /\ y[n + 1] = Point
  <2>1. /\ y \in Seq(Digits \cup {Point}) /\ n \in Nat
        /\ \A k \in 1 .. Len(y) : y[k] = Point <=> k = n + 1
    BY DEF PlainString
  <2>2. Len(y) \in Nat /\ DOMAIN y = 1 .. Len(y)
    BY <2>1, LenProperties
  <2>3. n + 1 \in 1 .. Len(y)
    BY <2>1, <2>2
  <2> QED BY <2>1, <2>2, <2>3
<1>2. \E k \in DOMAIN y : Kept(k)
  <2> DEFINE K0 == {k \in 1 .. Len(y) : y[k] # 0}
  <2>1. K0 \in SUBSET Int /\ K0 # {}
    BY <1>1 DEF Point
  <2>2. IsFiniteSet(K0)
    <3>1. IsFiniteSet(1 .. Len(y)) /\ K0 \subseteq 1 .. Len(y)
      BY <1>1, FS_Interval
    <3> HIDE DEF K0
    <3> QED BY <3>1, FS_Subset
  <2>3. PICK h \in K0 : \A x \in K0 : h >= x
    <3> HIDE DEF K0
    <3> QED BY <2>1, <2>2, Greatest
  <2>4. \A j \in h + 1 .. Len(y) : y[j] = 0
    BY <1>1, <2>3
  <2> QED BY <1>1, <2>3, <2>4
<1>3. last \in 1 .. Len(y) /\ \A j \in last + 1 .. Len(y) : y[j] = 0
  BY <1>1, <1>2
<1>4. r = SubSeq(y, 1, m)
  BY DEF InPlace!Trim, InPlace!Point, Point
<1> HIDE DEF last
<1>5. last >= n + 1
  BY <1>1, <1>3 DEF Point
<1>6. (y[last] = Point <=> last = n + 1)
  BY <1>1, <1>3
<1>7. /\ m \in Nat /\ n <= m /\ m <= Len(y)
      /\ \A k \in m + 1 .. Len(y) : k # n + 1 => y[k] = 0
  BY <1>1, <1>3, <1>5, <1>6
<1> HIDE DEF m
<1>8. r \in Seq(Digits \cup {Point}) /\ Len(r) = m /\ \A k \in 1 .. m : r[k] = y[k]
  <2> DEFINE o == 1
             S == Digits \cup {Point}
  <2>1. /\ o \in Int /\ m \in Int /\ \A k \in o .. m : y[k] \in S
    BY <1>1, <1>7, ElementOfSeq
  <2> HIDE DEF o, S
  <2>2. /\ SubSeq(y, o, m) \in Seq(S)
        /\ Len(SubSeq(y, o, m)) = IF o <= m THEN m - o + 1 ELSE 0
        /\ \A k \in 1 .. m - o + 1 : SubSeq(y, o, m)[k] = y[o + k - 1]
    BY <2>1, SubSeqProperties
  <2>3. o = 1
    BY DEF o
  <2>4. Len(SubSeq(y, o, m)) = m
    BY <1>7, <2>2, <2>3
  <2>5. \A k \in 1 .. m : k \in 1 .. m - o + 1 /\ o + k - 1 = k
    BY <1>7, <2>3
  <2>6. r = SubSeq(y, o, m)
    BY <1>4, <2>3
  <2> QED BY <2>2, <2>4, <2>5, <2>6 DEF S
<1>9. PlainString(r, n)
  BY <1>1, <1>7, <1>8 DEF PlainString
<1> QED BY <1>7, <1>8, <1>9

\* The string with the point put between the digits.
LEMMA PointIn ==
    ASSUME NEW x \in Seq(Digits), NEW n \in Nat, n <= Len(x),
           NEW y, y = SubSeq(x, 1, n) \o <<Point>> \o SubSeq(x, n + 1, Len(x))
    PROVE  /\ PlainString(y, n) /\ Len(y) = Len(x) + 1
           /\ \A k \in 1 .. n : y[k] = x[k]
           /\ \A k \in n + 1 .. Len(x) : y[k + 1] = x[k]
<1> DEFINE S == Digits \cup {Point}
           w == SubSeq(x, 1, n)
           g == w \o <<Point>>
           f == SubSeq(x, n + 1, Len(x))
           z == Len(x)
<1>1. z \in Nat /\ n \in Nat /\ n <= z /\ \A k \in 1 .. z : x[k] \in Digits
  BY LenProperties, ElementOfSeq
<1>2. w \in Seq(Digits) /\ Len(w) = n /\ \A k \in 1 .. n : w[k] = x[k]
  <2> DEFINE o == 1
  <2>1. o \in Int /\ n \in Int /\ \A k \in o .. n : x[k] \in Digits
    BY <1>1
  <2> HIDE DEF o
  <2>2. /\ SubSeq(x, o, n) \in Seq(Digits)
        /\ Len(SubSeq(x, o, n)) = IF o <= n THEN n - o + 1 ELSE 0
        /\ \A k \in 1 .. n - o + 1 : SubSeq(x, o, n)[k] = x[o + k - 1]
    BY <2>1, SubSeqProperties
  <2>3. o = 1
    BY DEF o
  <2>4. Len(SubSeq(x, o, n)) = n
    BY <1>1, <2>2, <2>3
  <2>5. \A k \in 1 .. n : k \in 1 .. n - o + 1 /\ o + k - 1 = k
    BY <1>1, <2>3
  <2> QED BY <2>2, <2>3, <2>4, <2>5
<1>3. f \in Seq(Digits) /\ Len(f) = z - n /\ \A k \in n + 1 .. z : f[k - n] = x[k] /\ k - n \in 1 .. z - n
  <2> DEFINE o == n + 1
  <2>1. o \in Int /\ z \in Int /\ \A k \in o .. z : x[k] \in Digits
    BY <1>1
  <2>3. o = n + 1
    OBVIOUS
  <2> HIDE DEF o, z
  <2>2. /\ SubSeq(x, o, z) \in Seq(Digits)
        /\ Len(SubSeq(x, o, z)) = IF o <= z THEN z - o + 1 ELSE 0
        /\ \A k \in 1 .. z - o + 1 : SubSeq(x, o, z)[k] = x[o + k - 1]
    BY <2>1, SubSeqProperties
  <2>4. Len(SubSeq(x, o, z)) = z - n
    BY <1>1, <2>2, <2>3
  <2>5. \A k \in n + 1 .. z : k - n \in 1 .. z - o + 1 /\ o + (k - n) - 1 = k /\ k - n \in 1 .. z - n
    BY <1>1, <2>3
  <2>6. f = SubSeq(x, o, z)
    BY DEF o, z
  <2> HIDE DEF f
  <2>7. \A k \in n + 1 .. z : f[k - n] = x[k]
    BY <2>2, <2>5, <2>6
  <2> QED BY <2>2, <2>4, <2>5, <2>6, <2>7
<1>4. w \in Seq(S) /\ f \in Seq(S) /\ <<Point>> \in Seq(S)
  BY <1>2, <1>3, SeqOfMore
<1> HIDE DEF w, f, z
<1>5. /\ g \in Seq(S) /\ Len(g) = n + 1 /\ g[n + 1] = Point /\ \A k \in 1 .. n : g[k] = x[k]
  <2> DEFINE v == <<Point>>
  <2>1. Len(v) = 1 /\ v[1] = Point
    OBVIOUS
  <2>2. v \in Seq(S) /\ w \in Seq(S)
    BY <1>4
  <2> HIDE DEF v, S
  <2>3. /\ w \o v \in Seq(S) /\ Len(w \o v) = Len(w) + Len(v)
        /\ \A k \in 1 .. Len(w) + Len(v) : (w \o v)[k] = IF k <= Len(w) THEN w[k] ELSE v[k - Len(w)]
    BY <2>2, ConcatProperties
  <2>4. /\ w \o v \in Seq(S) /\ Len(w \o v) = n + 1
        /\ \A k \in 1 .. n + 1 : (w \o v)[k] = IF k <= n THEN w[k] ELSE v[k - n]
    BY <1>2, <2>1, <2>3
  <2>5. n + 1 \in 1 .. n + 1 /\ ~(n + 1 <= n) /\ n + 1 - n = 1 /\ \A k \in 1 .. n : k \in 1 .. n + 1 /\ k <= n
    BY <1>1
  <2>6. (w \o v)[n + 1] = Point
    BY <2>1, <2>4, <2>5
  <2>7. \A k \in 1 .. n : (w \o v)[k] = x[k]
    BY <1>2, <2>4, <2>5
  <2> QED BY <2>4, <2>6, <2>7 DEF v
<1> DEFINE v == g \o f
<1>6. y = v
  BY DEF w, f
<1> HIDE DEF g, S
<1>7. /\ g \o f \in Seq(S) /\ Len(g \o f) = Len(g) + Len(f)
      /\ \A k \in 1 .. Len(g) + Len(f) : (g \o f)[k] = IF k <= Len(g) THEN g[k] ELSE f[k - Len(g)]
  BY <1>4, <1>5, ConcatProperties
<1> HIDE DEF v
<1>14. v \in Seq(S) /\ Len(v) = Len(g) + Len(f)
       /\ \A k \in 1 .. Len(g) + Len(f) : v[k] = IF k <= Len(g) THEN g[k] ELSE f[k - Len(g)]
  BY <1>7 DEF v
<1>15. Len(g) = n + 1 /\ Len(f) = z - n /\ n + 1 + (z - n) = z + 1
  BY <1>1, <1>3, <1>5
<1>8. v \in Seq(S) /\ Len(v) = z + 1
      /\ \A k \in 1 .. z + 1 : v[k] = IF k <= n + 1 THEN g[k] ELSE f[k - (n + 1)]
  BY <1>14, <1>15
<1>9. \A k \in 1 .. n : v[k] = x[k] /\ x[k] \in Digits
  BY <1>1, <1>5, <1>8
<1>10. v[n + 1] = Point
  BY <1>1, <1>5, <1>8
<1>11. \A k \in n + 1 .. z : v[k + 1] = x[k] /\ x[k] \in Digits
  <2> TAKE k \in n + 1 .. z
  <2>1. k + 1 \in 1 .. z + 1 /\ ~(k + 1 <= n + 1) /\ k + 1 - (n + 1) = k - n /\ k \in 1 .. z
    BY <1>1
  <2>2. f[k - n] = x[k]
    BY <1>3
  <2> QED BY <1>1, <1>8, <2>1, <2>2
<1>12. \A k \in 1 .. z + 1 : v[k] = Point <=> k = n + 1
  <2> SUFFICES ASSUME NEW k \in 1 .. z + 1, k # n + 1 PROVE v[k] # Point
    BY <1>10
  <2>1. CASE k <= n
    BY <1>1, <1>9, <2>1, UnitsAre
  <2>2. CASE ~(k <= n)
    <3>1. k - 1 \in n + 1 .. z /\ k - 1 + 1 = k
      BY <1>1, <2>2
    <3> QED BY <1>11, <3>1, UnitsAre
  <2> QED BY <2>1, <2>2
<1>13. PlainString(v, n)
  BY <1>1, <1>8, <1>12 DEF PlainString, S
<1> QED BY <1>6, <1>8, <1>9, <1>11, <1>13 DEF z

\* The figures of a plain string are those of d: what is not 0 in one is in
\* the other, and counts the same.
PlainOf(r, n, d) ==
    /\ PlainString(r, n)
    /\ \A k \in 1 .. Len(d.digits) : d.digits[k] # 0 =>
          \E h \in 1 .. Len(r) : h # n + 1 /\ r[h] = d.digits[k] /\ PlainPower(n, h) = Base(d) - k
    /\ \A h \in 1 .. Len(r) : h # n + 1 /\ r[h] # 0 =>
          \E k \in 1 .. Len(d.digits) : r[h] = d.digits[k] /\ PlainPower(n, h) = Base(d) - k

\* A string of digits, with a point or without one, denotes these digits.
LEMMA PlainDenotes ==
    ASSUME NEW r, NEW n, NEW d, PlainOf(r, n, d)
    PROVE  Numeral!Denoted(r) = {f \in DecimalFigures(d) : f[2] # 0}
<1>1. PlainString(r, n)
  BY DEF PlainOf
<1>2. r \in Seq(Characters)
  BY <1>1, PlainChars
<1> DEFINE o == 1
           F == {f \in Part(r, o, Len(r)) : f[2] # 0}
<1>3. Numeral!Denoted(r) = F
  BY <1>2, DenotedIs
<1>4. \A k \in 1 .. Len(r) : /\ k \in FigureSpots(r) <=> k # n + 1
                             /\ k # n + 1 => Fig(r, k) = <<PlainPower(n, k), r[k]>>
  BY <1>1, PlainFigure
<1>5. \A f : f \in Part(r, o, Len(r)) <=>
                \E h \in 1 .. Len(r) : h # n + 1 /\ f = <<PlainPower(n, h), r[h]>>
  <2>1. SpotsIn(r, o, Len(r)) = {h \in 1 .. Len(r) : h # n + 1}
    BY <1>4 DEF SpotsIn, FigureSpots
  <2> HIDE DEF o
  <2> QED BY <1>4, <2>1 DEF Part
<1> HIDE DEF o
<1>6. ASSUME NEW f \in F PROVE f \in DecimalFigures(d) /\ f[2] # 0
  <2>1. PICK h \in 1 .. Len(r) : h # n + 1 /\ f = <<PlainPower(n, h), r[h]>>
    BY <1>5
  <2>2. r[h] # 0
    BY <2>1
  <2>3. PICK k \in 1 .. Len(d.digits) : r[h] = d.digits[k] /\ PlainPower(n, h) = Base(d) - k
    BY <2>1, <2>2 DEF PlainOf
  <2>4. f = FigureAt(d, k)
    BY <2>1, <2>3 DEF FigureAt
  <2> QED BY <2>4 DEF DecimalFigures
<1>7. ASSUME NEW f \in DecimalFigures(d), f[2] # 0 PROVE f \in F
  <2>1. PICK k \in 1 .. Len(d.digits) : f = <<Base(d) - k, d.digits[k]>>
    BY DEF DecimalFigures, FigureAt
  <2>2. d.digits[k] # 0
    BY <1>7, <2>1
  <2>3. PICK h \in 1 .. Len(r) : h # n + 1 /\ r[h] = d.digits[k] /\ PlainPower(n, h) = Base(d) - k
    BY <2>2 DEF PlainOf
  <2>4. f = <<PlainPower(n, h), r[h]>>
    BY <2>1, <2>3
  <2> QED BY <1>5, <1>7, <2>3, <2>4
<1> HIDE DEF F
<1> QED BY <1>3, <1>6, <1>7

LEMMA WholePlain ==
    ASSUME NEW d, NEW r \in Seq(Digits), Len(r) = Base(d), Len(d.digits) \in Nat,
           Len(d.digits) <= Len(r), \A k \in 1 .. Len(d.digits) : r[k] = d.digits[k],
           \A k \in Len(d.digits) + 1 .. Len(r) : r[k] = 0
    PROVE  PlainOf(r, Len(r), d)
<1> DEFINE n == Len(r)
           z == Len(d.digits)
<1>1. n \in Nat /\ z \in Nat /\ z <= n /\ Base(d) = n
  BY LenProperties
<1>2. r \in Seq(Digits \cup {Point})
  BY SeqOfMore
<1>3. \A k \in 1 .. n : r[k] # Point /\ k # n + 1
  <2>1. \A k \in 1 .. n : r[k] \in Digits
    BY ElementOfSeq
  <2> QED BY <1>1, <2>1, UnitsAre
<1>4. PlainString(r, n)
  BY <1>1, <1>2, <1>3 DEF PlainString
<1>5. \A k \in 1 .. n : PlainPower(n, k) = n - k
  BY <1>1 DEF PlainPower
<1> HIDE DEF n
<1>6. ASSUME NEW k \in 1 .. z, d.digits[k] # 0
      PROVE  \E h \in 1 .. n : h # n + 1 /\ r[h] = d.digits[k] /\ PlainPower(n, h) = Base(d) - k
  <2>1. k \in 1 .. n /\ r[k] = d.digits[k]
    BY <1>1
  <2> QED BY <1>1, <1>3, <1>5, <2>1
<1>7. ASSUME NEW h \in 1 .. n, r[h] # 0
      PROVE  \E k \in 1 .. z : r[h] = d.digits[k] /\ PlainPower(n, h) = Base(d) - k
  <2>1. h \in 1 .. z
    <3>1. h <= z \/ h \in z + 1 .. n
      BY <1>1
    <3>2. h \in z + 1 .. n => r[h] = 0
      BY DEF n
    <3> QED BY <1>1, <1>7, <3>1, <3>2
  <2> QED BY <1>1, <1>5, <2>1
<1> QED BY <1>4, <1>6, <1>7 DEF PlainOf, n

LEMMA BrokenPlain ==
    ASSUME NEW d, d.digits \in Seq(Digits), NEW n \in Nat, n < Len(d.digits), Base(d) = n,
           NEW y, PlainString(y, n), Len(y) = Len(d.digits) + 1,
           \A k \in 1 .. n : y[k] = d.digits[k],
           \A k \in n + 1 .. Len(d.digits) : y[k + 1] = d.digits[k],
           NEW r, r = InPlace!Trim(y)
    PROVE  PlainOf(r, n, d)
<1> DEFINE x == d.digits
           z == Len(x)
<1>1. z \in Nat /\ n \in Nat /\ n < z
  BY LenProperties
<1>2. /\ PlainString(y, n) /\ Len(y) = z + 1
      /\ \A k \in 1 .. n : y[k] = x[k]
      /\ \A k \in n + 1 .. z : y[k + 1] = x[k]
  OBVIOUS
<1>3. n < Len(y)
  BY <1>1, <1>2
<1>4. /\ PlainString(r, n) /\ Len(r) <= Len(y) /\ \A k \in 1 .. Len(r) : r[k] = y[k]
      /\ \A k \in Len(r) + 1 .. Len(y) : k # n + 1 => y[k] = 0
  BY <1>2, <1>3, TrimIs
<1> DEFINE m == Len(r)
<1>5. m \in Nat /\ n <= m
  BY <1>4, PlainChars
<1>6. /\ m <= z + 1 /\ \A k \in 1 .. m : r[k] = y[k]
      /\ \A k \in m + 1 .. z + 1 : k # n + 1 => y[k] = 0
  BY <1>2, <1>4
<1> HIDE DEF x, z, m
<1>7. ASSUME NEW k \in 1 .. z, x[k] # 0
      PROVE  \E h \in 1 .. m : h # n + 1 /\ r[h] = x[k] /\ PlainPower(n, h) = n - k
  <2>1. CASE k <= n
    <3>1. k \in 1 .. m /\ k \in 1 .. n /\ k # n + 1
      BY <1>1, <1>5, <2>1
    <3>2. r[k] = x[k]
      BY <1>2, <1>6, <3>1
    <3> QED BY <2>1, <3>1, <3>2 DEF PlainPower
  <2>2. CASE ~(k <= n)
    <3> DEFINE h == k + 1
    <3>1. h \in 1 .. z + 1 /\ k \in n + 1 .. z /\ h # n + 1 /\ ~(h <= n) /\ n + 1 - h = n - k
      BY <1>1, <2>2
    <3>2. y[h] = x[k]
      BY <1>2, <3>1
    <3> HIDE DEF h
    <3>3. h \in 1 .. m \/ h \in m + 1 .. z + 1
      BY <1>1, <1>5, <3>1
    <3>4. h \in 1 .. m
      BY <1>6, <1>7, <3>1, <3>2, <3>3
    <3> QED BY <1>6, <3>1, <3>2, <3>4 DEF PlainPower
  <2> QED BY <2>1, <2>2
<1>8. ASSUME NEW h \in 1 .. m, h # n + 1
      PROVE  \E k \in 1 .. z : r[h] = x[k] /\ PlainPower(n, h) = n - k
  <2>1. CASE h <= n
    <3>1. h \in 1 .. z /\ h \in 1 .. n
      BY <1>1, <1>5, <2>1
    <3> QED BY <1>2, <1>6, <2>1, <3>1 DEF PlainPower
  <2>2. CASE ~(h <= n)
    <3> DEFINE k == h - 1
    <3>1. k \in 1 .. z /\ k \in n + 1 .. z /\ k + 1 = h /\ n + 1 - h = n - k
      BY <1>1, <1>5, <1>6, <1>8, <2>2
    <3> HIDE DEF k
    <3>2. r[h] = x[k]
      BY <1>2, <1>6, <3>1
    <3> QED BY <2>2, <3>1, <3>2 DEF PlainPower
  <2> QED BY <2>1, <2>2
<1> QED BY <1>4, <1>7, <1>8 DEF PlainOf, x, z, m

\* A decimal is rendered as a plain string of its figures.
LEMMA RenderDenotes ==
    ASSUME NEW d, Pointed(d), ~InPlace!IsZero(d), NEW r, r = InPlace!Render(d)
    PROVE  /\ \E n \in Nat : PlainString(r, n)
           /\ Numeral!Denoted(r) = {f \in DecimalFigures(d) : f[2] # 0}
<1> DEFINE m == InPlace!NormalizeScale(d)
           whole == SubSeq(m.digits, 1, m.point)
           fraction == SubSeq(m.digits, m.point + 1, Len(m.digits))
           y == whole \o <<Point>> \o fraction
<1>1. /\ Pointed(m) /\ m.digits = d.digits /\ Base(m) = Base(d)
      /\ m.point = -1 \/ (m.scale = 0 /\ m.point >= 1 /\ m.point < Len(m.digits))
  BY NormalBase
<1>2. r = IF m.scale > 0 THEN m.digits \o InPlace!Zeros(m.scale)
          ELSE IF m.point < 0 THEN m.digits
          ELSE InPlace!Trim((IF m.point = 0 THEN <<0>> ELSE whole) \o <<Point>> \o fraction)
  BY DEF InPlace!Render, InPlace!Point, Point
<1>3. m.digits \in Seq(Digits) /\ Len(m.digits) \in Nat /\ m.scale \in Nat /\ m.point \in {-1} \cup Nat
      /\ Base(m) = (IF m.point >= 0 THEN m.point ELSE Len(m.digits)) + m.scale
  BY <1>1, PointedFields DEF Base
<1> HIDE DEF m, whole, fraction
<1>4. \E n \in Nat : PlainOf(r, n, m)
  <2>1. CASE m.scale > 0
    <3> DEFINE u == InPlace!Zeros(m.scale)
               x == m.digits
               v == x \o u
    <3>1. m.point = -1 /\ Base(m) = Len(x) + m.scale
      BY <1>1, <1>3, <2>1
    <3>2. u \in Seq(Digits) /\ Len(u) = m.scale /\ \A k \in 1 .. m.scale : u[k] = 0
      BY <1>3, ZerosAre
    <3>3. r = v
      BY <1>2, <2>1
    <3>8. x \in Seq(Digits) /\ Len(x) \in Nat /\ m.scale \in Nat
      BY <1>3
    <3> HIDE DEF u
    <3>4. /\ v \in Seq(Digits) /\ Len(v) = Len(x) + Len(u)
          /\ \A k \in 1 .. Len(x) + Len(u) : v[k] = IF k <= Len(x) THEN x[k] ELSE u[k - Len(x)]
      BY <3>2, <3>8, ConcatProperties
    <3> DEFINE z == Len(x)
               e == m.scale
    <3>9. z \in Nat /\ e \in Nat
      BY <3>8
    <3> HIDE DEF v, z, e
    <3>5. Len(v) = z + e /\ \A k \in 1 .. z + e : v[k] = IF k <= z THEN x[k] ELSE u[k - z]
      BY <3>2, <3>4 DEF z, e
    <3>6. \A k \in 1 .. z : v[k] = x[k]
      BY <3>5, <3>9
    <3>7. \A k \in z + 1 .. z + e : v[k] = 0
      <4> TAKE k \in z + 1 .. z + e
      <4>1. k \in 1 .. z + e /\ ~(k <= z) /\ k - z \in 1 .. e
        BY <3>9
      <4> QED BY <3>2, <3>5, <4>1 DEF e
    <3>10. Len(v) = Base(m) /\ z <= Len(v) /\ Len(v) \in Nat
      BY <3>1, <3>5, <3>9 DEF z, e
    <3>11. PlainOf(v, Len(v), m)
      BY <3>4, <3>5, <3>6, <3>7, <3>8, <3>10, WholePlain DEF z
    <3> QED BY <3>3, <3>10, <3>11
  <2>2. CASE ~(m.scale > 0) /\ m.point < 0
    <3> DEFINE x == m.digits
    <3>1. r = x /\ Len(x) = Base(m) /\ x \in Seq(Digits) /\ Len(x) \in Nat /\ Len(x) <= Len(x)
          /\ \A k \in Len(x) + 1 .. Len(x) : x[k] = 0
      BY <1>2, <1>3, <2>2
    <3>2. PlainOf(x, Len(x), m)
      BY <3>1, WholePlain
    <3> QED BY <3>1, <3>2
  <2>3. CASE ~(m.scale > 0) /\ ~(m.point < 0)
    <3>1. /\ m.point \in Nat /\ m.point # 0 /\ m.point < Len(m.digits) /\ Base(m) = m.point
      BY <1>1, <1>3, <2>3
    <3>2. r = InPlace!Trim(y)
      BY <1>2, <2>3, <3>1
    <3> DEFINE n == m.point
               x == m.digits
    <3>4. y = SubSeq(x, 1, n) \o <<Point>> \o SubSeq(x, n + 1, Len(x))
      BY DEF whole, fraction
    <3>5. x \in Seq(Digits) /\ n \in Nat /\ n <= Len(x)
      BY <1>3, <3>1
    <3> HIDE DEF y, n, x
    <3>6. /\ PlainString(y, n) /\ Len(y) = Len(x) + 1
          /\ \A k \in 1 .. n : y[k] = x[k]
          /\ \A k \in n + 1 .. Len(x) : y[k + 1] = x[k]
      BY <3>4, <3>5, PointIn, Zenon
    <3>7. x = m.digits /\ n = m.point
      BY DEF x, n
    <3>3. PlainOf(r, m.point, m)
      BY <3>1, <3>2, <3>5, <3>6, <3>7, BrokenPlain
    <3> QED BY <3>1, <3>3
  <2> QED BY <2>1, <2>2, <2>3
<1>5. DecimalFigures(m) = DecimalFigures(d)
  BY <1>1 DEF DecimalFigures, FigureAt
<1>6. Numeral!Denoted(r) = {f \in DecimalFigures(m) : f[2] # 0}
  BY <1>4, PlainDenotes
<1>7. \E n \in Nat : PlainString(r, n)
  BY <1>4 DEF PlainOf
<1> QED BY <1>5, <1>6, <1>7

-----------------------------------------------------------------------------
(* Every string is read for what it denotes                                 *)

\* The total is that of the string, and this is a numeral, if without commas.
ReadFor(q, s) ==
    /\ Pointed(q.total) /\ Stands(q.total, Part(s, 1, Len(s))) /\ ~InPlace!IsZero(q.total)
    /\ CommaAt(s) = {} => Numeral!IsNumeral(s)

\* Accepted it is a numeral, rejected it is none.
Verdict(x, q, s) ==
    /\ x = "reading" => ParsedSo(q, s)
    /\ x = "accepted" => ReadFor(q, s)
    /\ x = "rejected" /\ CommaAt(s) = {} => ~Numeral!IsNumeral(s)

FiguresRead == Verdict(status, parser, read)

LEMMA FiguresReadKept ==
    ASSUME Numeral!InputsAssumption
    PROVE  /\ Numeral!Init => FiguresRead
           /\ Numeral!TypeOK /\ FiguresRead /\ [Numeral!Next]_(Numeral!vars) => FiguresRead'
<1>1. ASSUME Numeral!Init PROVE FiguresRead
  <2>1. status = "reading" /\ parser = InPlace!NewParser /\ read = <<>>
    BY <1>1, NumeralSame DEF Numeral!Init
  <2>2. ParsedSo(parser, read)
    BY <2>1, ParsedNothing
  <2> QED BY <2>1, <2>2 DEF FiguresRead, Verdict
<1>2. ASSUME Numeral!TypeOK, FiguresRead, NEW c \in Inputs, Numeral!Feed(c) PROVE FiguresRead'
  <2>1. /\ read \in Seq(Characters) /\ c \in Characters /\ parser \in Parser
    BY <1>2, InputsAre, SeqOfMore, NumeralSame DEF Numeral!TypeOK
  <2> DEFINE r == InPlace!AppendChar(parser, c)
  <2>2. /\ status = "reading" /\ read' = Append(read, c) /\ parser' = r.p
        /\ status' = IF r.ok THEN "reading" ELSE "rejected"
    BY <1>2, NumeralSame DEF Numeral!Feed
  <2>3. Grows(read, c, read')
    BY <2>1, <2>2 DEF Grows
  <2>4. ParsedSo(parser, read)
    BY <1>2, <2>2 DEF FiguresRead, Verdict
  <2>5. r.ok => ParsedSo(r.p, read')
    BY <2>1, <2>3, <2>4, ParsedOn
  <2>6. ~r.ok /\ CommaAt(read') = {} => ~Numeral!IsNumeral(read')
    BY <2>1, <2>3, <2>4, RefusedOn
  <2> HIDE DEF r
  <2>7. Verdict(status', parser', read')
    BY <2>2, <2>5, <2>6 DEF Verdict
  <2> QED BY <2>7 DEF FiguresRead
<1>3. ASSUME Numeral!TypeOK, FiguresRead, Numeral!Finish PROVE FiguresRead'
  <2>1. read \in Seq(Characters) /\ parser \in Parser
    BY <1>3, InputsAre, SeqOfMore, NumeralSame DEF Numeral!TypeOK
  <2> DEFINE r == InPlace!Done(parser)
  <2>2. /\ status = "reading" /\ read' = read /\ parser' = r.p
        /\ status' = IF r.ok THEN "accepted" ELSE "rejected"
    BY <1>3, NumeralSame DEF Numeral!Finish
  <2>3. ParsedSo(parser, read)
    BY <1>3, <2>2 DEF FiguresRead, Verdict
  <2>4. r.ok => ReadFor(r.p, read)
    BY <2>1, <2>3, DoneParsed DEF ReadFor
  <2>5. ~r.ok /\ CommaAt(read) = {} => ~Numeral!IsNumeral(read)
    BY <2>1, <2>3, DoneRefused
  <2> HIDE DEF r
  <2>6. Verdict(status', parser', read)
    BY <2>2, <2>4, <2>5 DEF Verdict
  <2>7. Verdict(status', parser', read')
    BY <2>2, <2>6
  <2> QED BY <2>7 DEF FiguresRead
<1>4. ASSUME FiguresRead, UNCHANGED Numeral!vars PROVE FiguresRead'
  <2>1. status' = status /\ parser' = parser /\ read' = read
    BY <1>4 DEF Numeral!vars
  <2>2. Verdict(status', parser', read')
    BY <1>4, <2>1 DEF FiguresRead
  <2> QED BY <2>2 DEF FiguresRead
<1> QED BY <1>1, <1>2, <1>3, <1>4 DEF Numeral!Next

\* What stands for a string renders as one that denotes the same.
LEMMA FiguresMeanRead ==
    ASSUME Numeral!InputsAssumption, Numeral!TypeOK, FiguresRead
    PROVE  Numeral!ValueRight /\ Numeral!NumeralsExactly
<1>1. read \in Seq(Characters) /\ DOMAIN read = 1 .. Len(read)
  BY InputsAre, SeqOfMore, LenProperties DEF Numeral!TypeOK
<1>2. ASSUME status = "accepted"
      PROVE  /\ Numeral!At(Numeral!Render(parser.total), Numeral!Digits \cup {Numeral!Point}) =
                    DOMAIN Numeral!Render(parser.total)
             /\ Numeral!Denoted(Numeral!Render(parser.total)) = Numeral!Denoted(read)
  <2> DEFINE z == parser.total
             r == InPlace!Render(z)
             o == 1
             T == Part(read, o, Len(read))
  <2>1. Pointed(z) /\ Stands(z, T) /\ ~InPlace!IsZero(z)
    BY <1>2 DEF FiguresRead, Verdict, ReadFor
  <2>2. Numeral!Render(z) = r
    BY RenderSame
  <2>3. (\E n \in Nat : PlainString(r, n)) /\ Numeral!Denoted(r) = {f \in DecimalFigures(z) : f[2] # 0}
    BY <2>1, RenderDenotes
  <2>4. Numeral!Denoted(read) = {f \in T : f[2] # 0}
    BY <1>1, DenotedIs
  <2> HIDE DEF z, r, T, o
  <2>5. {f \in DecimalFigures(z) : f[2] # 0} = {f \in T : f[2] # 0}
    BY <2>1 DEF Stands
  <2>6. r \in Seq(Digits \cup {Point})
    BY <2>3 DEF PlainString
  <2>7. DOMAIN r = 1 .. Len(r) /\ \A h \in 1 .. Len(r) : r[h] \in Digits \cup {Point}
    BY <2>6, LenProperties, ElementOfSeq
  <2>8. Numeral!At(r, Numeral!Digits \cup {Numeral!Point}) = DOMAIN r
    BY <2>7, CharsSame DEF Numeral!At
  <2>9. Numeral!Denoted(r) = Numeral!Denoted(read)
    BY <2>3, <2>4, <2>5
  <2> QED BY <2>2, <2>8, <2>9 DEF z
<1>3. Numeral!At(read, {Numeral!Comma}) = CommaAt(read)
  BY <1>1, CharsSame DEF Numeral!At, CommaAt
<1>4. Numeral!NumeralsExactly
  BY <1>3 DEF Numeral!NumeralsExactly, FiguresRead, Verdict, ReadFor
<1> QED BY <1>2, <1>4 DEF Numeral!ValueRight

\* Whatever string it is fed with, the parser (number.go:116-227) accepts those
\* numerals, and no other strings, whose figures count ever smaller powers; it
\* renders what it accepts as plain digits that denote the same number, takes
\* commas by threes from the end only, and gives for a string that ends with a
\* separator too many the total of the numeral before it.
THEOREM SpecNumeralsRead ==
    ASSUME Numeral!InputsAssumption
    PROVE  Numeral!Spec => []NumeralsRead
<1> DEFINE Inv == Numeral!TypeOK /\ ParserReadSo /\ CommasReadSo /\ FiguresRead
<1>1. ASSUME Numeral!Init PROVE Inv
  BY <1>1, NumeralTyped, ParserReadSoKept, CommasReadSoKept, FiguresReadKept
<1>2. ASSUME Inv, [Numeral!Next]_(Numeral!vars) PROVE Inv'
  BY <1>2, NumeralTyped, ParserReadSoKept, CommasReadSoKept, FiguresReadKept
<1>3. ASSUME Inv PROVE NumeralsRead
  <2>1. Numeral!ValueRight /\ Numeral!NumeralsExactly
    BY <1>3, FiguresMeanRead
  <2>2. Numeral!SeparatorDropped
    BY <1>3, SeparatorIsDropped
  <2>3. read \in Seq(Characters)
    BY <1>3, InputsAre, SeqOfMore DEF Numeral!TypeOK
  <2>4. Numeral!CommasByThrees
    BY <1>3, <2>3, ByThreesIf DEF CommasReadSo
  <2> QED BY <2>1, <2>2, <2>4 DEF NumeralsRead, Numeral!NumeralsRead
<1> QED BY <1>1, <1>2, <1>3, PTL DEF Numeral!Spec
=============================================================================
