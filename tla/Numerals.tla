------------------------------ MODULE Numerals ------------------------------
(***************************************************************************)
(* The decimals and the parser state of                                     *)
(* internal/adapter/plugin/pathrewrite/number.go, as operators.             *)
(*                                                                         *)
(* A character is what numeralValues makes of it: a digit is its value, a   *)
(* unit minus its power of ten.                                             *)
(***************************************************************************)
EXTENDS Integers, SequencesExt

Comma == 100
Point == 101
Other == 102     \* any character numeralValues does not know
Digits == 0 .. 9
SmallUnits == -3 .. -1
BigUnits == {-4, -8, -12}
Characters == Digits \cup SmallUnits \cup BigUnits \cup {Comma, Point, Other}

-----------------------------------------------------------------------------
(* decimal: digits times 10^scale, with the decimal point before index point *)

Decimal == [digits : Seq(Digits), scale : Nat, point : {-1} \cup Nat, allZero : BOOLEAN]

NewDecimal == [digits |-> <<>>, scale |-> 0, point |-> -1, allZero |-> TRUE]

IsZero(d) == d.digits = <<>>

AppendDigit(d, n) == [d EXCEPT !.digits = Append(@, n), !.allZero = @ /\ n = 0]

ShiftScale(d, n) == [d EXCEPT !.digits = IF @ = <<>> THEN <<1>> ELSE @, !.scale = @ + n]

NormalizeScale(d) ==
    LET fraction == Len(d.digits) - d.point
    IN  IF d.point < 0 THEN d
        ELSE IF fraction > d.scale THEN [d EXCEPT !.point = @ + d.scale, !.scale = 0]
        ELSE [d EXCEPT !.scale = @ - fraction, !.point = -1]

\* intLength, of a normalised decimal.
IntLength(d) == IF d.point >= 0 THEN d.point ELSE Len(d.digits) + d.scale

\* What add answers: no digit of o falls on one of d.
Fits_OneOver(d, o) == \/ IsZero(o) \/ IsZero(d)
                      \/ NormalizeScale(d).scale + 1 >= IntLength(NormalizeScale(o))
Fits(d, o) == \/ IsZero(o) \/ IsZero(d)
              \/ NormalizeScale(d).scale >= IntLength(NormalizeScale(o))

Zeros(n) == [k \in 1 .. n |-> 0]

\* What add leaves in d.
Add(d, o) ==
    LET a == NormalizeScale(d)
        b == NormalizeScale(o)
        head == a.digits \o Zeros(a.scale - IntLength(b))
    IN  IF IsZero(o) THEN d
        ELSE IF IsZero(d) THEN [o EXCEPT !.allZero = d.allZero]
        ELSE IF ~Fits(d, o) THEN a
        ELSE [a EXCEPT !.digits = head \o b.digits, !.scale = b.scale,
                       !.point = IF b.point >= 0 THEN Len(head) + b.point ELSE @]

\* TrimRight of the zeros after the point, then of the point.
Trim(s) == LET last == CHOOSE i \in DOMAIN s : s[i] # 0 /\ \A j \in i + 1 .. Len(s) : s[j] = 0
           IN  SubSeq(s, 1, IF s[last] = Point THEN last - 1 ELSE last)

\* decimal.String
Render(d) ==
    LET n == NormalizeScale(d)
        whole == SubSeq(n.digits, 1, n.point)
        fraction == SubSeq(n.digits, n.point + 1, Len(n.digits))
    IN  IF IsZero(d) THEN <<0>>
        ELSE IF n.scale > 0 THEN n.digits \o Zeros(n.scale)
        ELSE IF n.point < 0 THEN n.digits
        ELSE Trim((IF n.point = 0 THEN <<0>> ELSE whole) \o <<Point>> \o fraction)

-----------------------------------------------------------------------------
(* numberParser                                                             *)

Parser == [digitLen : Nat, isFirstDigit : BOOLEAN, hasComma : BOOLEAN, hasHangingPoint : BOOLEAN,
           err : {"none", "point", "comma"}, total : Decimal, subtotal : Decimal, tmp : Decimal]

NewParser == [digitLen |-> 0, isFirstDigit |-> TRUE, hasComma |-> FALSE, hasHangingPoint |-> FALSE,
              err |-> "none", total |-> NewDecimal, subtotal |-> NewDecimal, tmp |-> NewDecimal]

\* An answer of append or done, with the parser it leaves.
Yes(p) == [ok |-> TRUE, p |-> p]
No(p) == [ok |-> FALSE, p |-> p]
NoFor(err, p) == No([p EXCEPT !.err = err])

CheckComma(p) ==
    /\ ~p.isFirstDigit
    /\ IF p.hasComma THEN p.digitLen = 3
       ELSE p.digitLen <= 3 /\ ~IsZero(p.tmp) /\ ~p.tmp.allZero

StartUnit(p) == [p EXCEPT !.isFirstDigit = TRUE, !.digitLen = 0, !.hasComma = FALSE]

AppendComma(p) == IF CheckComma(p) THEN Yes([p EXCEPT !.hasComma = TRUE, !.digitLen = 0])
                  ELSE NoFor("comma", p)

AppendPoint(p) ==
    LET q == [p EXCEPT !.hasHangingPoint = TRUE]
    IN  IF p.hasHangingPoint \/ p.isFirstDigit THEN NoFor("point", p)
        ELSE IF p.hasComma /\ ~CheckComma(p) THEN NoFor("comma", q)
        ELSE IF p.tmp.scale # 0 \/ p.tmp.point >= 0 THEN NoFor("point", q)
        ELSE Yes([q EXCEPT !.tmp.point = Len(p.tmp.digits), !.hasComma = FALSE])

AppendSmallUnit(p, e) ==
    LET tmp == ShiftScale(p.tmp, e)
        q == [p EXCEPT !.subtotal = Add(@, tmp)]
    IN  IF Fits(p.subtotal, tmp) THEN Yes(StartUnit([q EXCEPT !.tmp = NewDecimal]))
        ELSE No([q EXCEPT !.tmp = tmp])

AppendBigUnit(p, e) ==
    LET sub == Add(p.subtotal, p.tmp)
        scaled == ShiftScale(sub, e)
    IN  IF ~Fits(p.subtotal, p.tmp) \/ IsZero(sub) THEN No([p EXCEPT !.subtotal = sub])
        ELSE IF ~Fits(p.total, scaled)
        THEN No([p EXCEPT !.subtotal = scaled, !.total = Add(@, scaled)])
        ELSE Yes(StartUnit([p EXCEPT !.total = Add(@, scaled), !.subtotal = NewDecimal,
                                     !.tmp = NewDecimal]))

AppendNumeral(p, n) == Yes([p EXCEPT !.tmp = AppendDigit(@, n), !.isFirstDigit = FALSE,
                                     !.digitLen = @ + 1, !.hasHangingPoint = FALSE])

\* numberParser.append
AppendChar(p, c) == CASE c = Comma         -> AppendComma(p)
                      [] c = Point         -> AppendPoint(p)
                      [] c \in SmallUnits  -> AppendSmallUnit(p, -c)
                      [] c \in BigUnits    -> AppendBigUnit(p, -c)
                      [] c \in Digits      -> AppendNumeral(p, c)
                      [] c = Other         -> No(p)

\* append of each character of s, up to the first that fails.
AppendAll(p, s) == FoldLeft(LAMBDA r, c : IF r.ok THEN AppendChar(r.p, c) ELSE r, Yes(p), s)

\* numberParser.done: the sums are taken before the separators are looked at.
Done(p) ==
    LET sub == Add(p.subtotal, p.tmp)
        fits == Fits(p.subtotal, p.tmp)
        q == [p EXCEPT !.subtotal = sub, !.total = IF fits THEN Add(@, sub) ELSE @]
    IN  IF p.hasHangingPoint THEN NoFor("point", q)
        ELSE IF p.hasComma /\ p.digitLen # 3 THEN NoFor("comma", q)
        ELSE [ok |-> fits /\ Fits(p.total, sub) /\ p.err = "none" /\ ~IsZero(q.total), p |-> q]

\* The parse of a whole string, as the test of the parser does it.
Parse(s) == LET r == AppendAll(NewParser, s) IN IF r.ok THEN Done(r.p) ELSE r
=============================================================================
