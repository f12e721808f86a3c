---------------------------- MODULE NumberParser ----------------------------
(***************************************************************************)
(* A numberParser that is fed one character after the other and told that  *)
(* the input ends, against what a numeral is and denotes.                   *)
(***************************************************************************)
EXTENDS Numerals

CONSTANTS Inputs,    \* the characters that may come
          MaxLength  \* bound: characters

VARIABLES p,       \* the parser
          read,    \* history: the characters it was fed
          status   \* "reading", "accepted" or "rejected"

vars == <<p, read, status>>

\* The characters that may come are those numeralValues tells apart.
InputsAssumption == Inputs \subseteq Characters

Init == p = NewParser /\ read = <<>> /\ status = "reading"

Feed(c) ==
    /\ status = "reading" /\ Len(read) < MaxLength
    /\ p' = AppendChar(p, c).p
    /\ read' = Append(read, c)
    /\ status' = IF AppendChar(p, c).ok THEN "reading" ELSE "rejected"

Finish ==
    /\ status = "reading"
    /\ p' = Done(p).p
    /\ status' = IF Done(p).ok THEN "accepted" ELSE "rejected"
    /\ UNCHANGED read

Next == Finish \/ \E c \in Inputs : Feed(c)

Spec == Init /\ [][Next]_vars

-----------------------------------------------------------------------------
(* What a numeral denotes: the set of its digits other than 0, each with the *)
(* power of ten it counts. A unit that follows no digit stands for 1.        *)

Units == SmallUnits \cup BigUnits
FirstOf(S, default) == IF S = {} THEN default ELSE Min(S)
LastOf(S, default) == IF S = {} THEN default ELSE Max(S)

At(s, S) == {i \in DOMAIN s : s[i] \in S}
GroupBegin(s, i) == LastOf({j \in At(s, Units) : j < i}, 0) + 1
GroupEnd(s, i) == FirstOf({j \in At(s, Units) : j >= i}, Len(s) + 1)
Group(s, i) == GroupBegin(s, i) .. GroupEnd(s, i) - 1
Implied(s, i) == s[i] \in SmallUnits /\ Group(s, i) = {}

PowerInGroup(s, i) ==
    LET point == FirstOf(At(s, {Point}) \cap Group(s, i), GroupEnd(s, i))
    IN  CASE Implied(s, i) -> 0
          [] i < point     -> Cardinality(At(s, Digits) \cap (i + 1 .. point - 1))
          [] OTHER         -> -Cardinality(At(s, Digits) \cap (point + 1 .. i))

Exponent(s, j) == IF j \in DOMAIN s THEN -s[j] ELSE 0
Power(s, i) ==
    LET small == GroupEnd(s, i)
        big == FirstOf({j \in At(s, BigUnits) : j >= i}, Len(s) + 1)
    IN  PowerInGroup(s, i) + Exponent(s, big) + (IF small < big THEN Exponent(s, small) ELSE 0)

Figures(s) == {i \in DOMAIN s : s[i] \in Digits \/ Implied(s, i)}
Denoted(s) == {<<Power(s, i), IF s[i] \in Digits THEN s[i] ELSE 1>> :
                  i \in {j \in Figures(s) : s[j] # 0}}

\* A numeral without commas: its figures count ever smaller powers, a big unit
\* has something to multiply, and a point stands behind a digit, once in its
\* group, with a digit to come.
IsNumeral(s) ==
    /\ s # <<>> /\ At(s, {Other}) = {}
    /\ \A i, j \in Figures(s) : i < j => Power(s, i) > Power(s, j)
    /\ \A i \in At(s, BigUnits) : i > 1 /\ s[i - 1] \notin BigUnits
    /\ \A i \in At(s, {Point}) : /\ i > 1 /\ s[i - 1] \in Digits
                                 /\ At(s, {Point}) \cap Group(s, i) = {i}
                                 /\ \E j \in At(s, Digits) : i < j

-----------------------------------------------------------------------------
(* Properties *)

TypeOK == /\ p \in Parser /\ read \in Seq(Inputs)
          /\ status \in {"reading", "accepted", "rejected"}

\* What a parser accepts it renders as plain digits that denote the same number
\* (number.go:116).
ValueRight ==
    status = "accepted" =>
        /\ At(Render(p.total), Digits \cup {Point}) = DOMAIN Render(p.total)
        /\ Denoted(Render(p.total)) = Denoted(read)

\* Of the strings without commas, a parser accepts the numerals and no others.
NumeralsExactly ==
    At(read, {Comma}) = {} =>
        /\ status = "accepted" => IsNumeral(read)
        /\ status = "rejected" => ~IsNumeral(read)

\* Of the strings of digits and commas, it accepts those whose commas stand
\* before every third digit from the end, if at all, behind a number that is
\* not 0 (number.go:204).
CommasByThrees ==
    LET commas == At(read, {Comma})
        grouped == /\ commas = {i \in DOMAIN read : (Len(read) - i) % 4 = 3} /\ 1 \notin commas
                   /\ \E i \in 1 .. Min(commas) - 1 : read[i] # 0
    IN  (read # <<>> /\ At(read, Digits) \cup commas = DOMAIN read) =>
            /\ status = "accepted" => commas = {} \/ grouped
            /\ status = "rejected" => commas # {} /\ ~grouped

\* When the end comes upon a last comma or point, the total is that of the
\* numeral before it, if that is one: JoinNumeric joins it under that form
\* (pathrewrite.go:39).
SeparatorDropped ==
    (status = "rejected" /\ p.err # "none" /\ Len(read) > 1 /\ AppendAll(NewParser, read).ok) =>
        LET before == Parse(Front(read))
        IN  (Last(read) \in {Comma, Point} /\ before.ok) => Render(p.total) = Render(before.p.total)

\* The parser reads the numerals, no others, for what they denote.
NumeralsRead == ValueRight /\ NumeralsExactly /\ CommasByThrees /\ SeparatorDropped
=============================================================================
