----------------------------- MODULE JoinNumeric -----------------------------
(***************************************************************************)
(* JoinNumeric.Rewrite of internal/adapter/plugin/pathrewrite/pathrewrite.go: *)
(* one pass that reads the path and writes another, and goes back when a    *)
(* separator turns out not to belong to a number. A step is an iteration of  *)
(* its loop. It implements JoinInPlace.                                     *)
(***************************************************************************)
EXTENDS Numerals

CONSTANTS Paths, Normalize

Node == [form : Seq(Characters), cats : SUBSET {"NUMERIC", "KANJINUMERIC"}, numeral : BOOLEAN,
         parts : Seq(Seq(Characters))]

\* The nodes of a best path stand for themselves.
ASSUME PathsAssumption == Paths \subseteq Seq(Node)
ASSUME PartsAssumption ==
    \A nodes \in Paths : \A k \in DOMAIN nodes : nodes[k].parts = <<nodes[k].form>>

VARIABLES in,             \* the path it is given
          out,            \* the path it makes
          next,           \* number of nodes of in that out stands for
          i, begin, p, commaAsDigit, periodAsDigit, done

flags == <<commaAsDigit, periodAsDigit>>
vars == <<in, out, next, i, begin, p, flags, done>>

\* The path in place: what is out, then what is not yet.
path == out \o SubSeq(in, next + 1, Len(in))
Moved(k) == k - next + Len(out)
InPlace == INSTANCE JoinInPlace WITH
    i <- Moved(i), begin <- IF begin = 0 THEN 0 ELSE Moved(begin)

Init ==
    /\ in \in Paths /\ out = <<>> /\ next = 0
    /\ i = 1 /\ begin = 0 /\ p = InPlace!NewParser
    /\ commaAsDigit = TRUE /\ periodAsDigit = TRUE /\ done = FALSE

\* join(b, e, q), if it answers true.
Written(b, e, q) ==
    out \o SubSeq(in, next + 1, b - 1) \o <<InPlace!Join(SubSeq(in, b, e - 1), q)>>
Emit(b, e, q) == out' = Written(b, e, q) /\ next' = e - 1
Joins(b, e, q) == InPlace!WorthJoining(SubSeq(in, b, e - 1), q)

Reading == IF begin = 0 THEN InPlace!NewParser ELSE p
Separators_StillDigits(q, ok) == UNCHANGED flags
Separators(q, ok) == /\ commaAsDigit' = (commaAsDigit /\ (ok \/ q.err # "comma"))
                     /\ periodAsDigit' = (periodAsDigit /\ (ok \/ q.err # "point"))

\* A node of a number, or a separator that counts as one. Where the parser
\* refuses a separator, the numeral is read again without its kind.
AppendNode ==
    /\ ~done /\ i <= Len(in) /\ InPlace!IsNumber(in[i], commaAsDigit, periodAsDigit)
    /\ LET from == IF begin = 0 THEN i ELSE begin
           r == InPlace!AppendAll(Reading, in[i].form)
       IN  /\ p' = r.p
           /\ begin' = IF r.ok THEN from ELSE 0
           /\ i' = IF r.ok \/ r.p.err = "none" THEN i + 1 ELSE from
           /\ Separators(r.p, r.ok)
    /\ UNCHANGED <<in, out, next, done>>

\* What every iteration on another node ends with.
PassNode_Rearm ==
    /\ begin' = 0 /\ commaAsDigit' = TRUE /\ periodAsDigit' = TRUE
    /\ UNCHANGED <<in, done>>
PassNode ==
    /\ begin' = 0
    /\ commaAsDigit' = (commaAsDigit \/ in[i].form # <<Comma>>)
    /\ periodAsDigit' = (periodAsDigit \/ in[i].form # <<Point>>)
    /\ UNCHANGED <<in, done>>

AtOther == ~done /\ i <= Len(in) /\ ~InPlace!IsNumber(in[i], commaAsDigit, periodAsDigit)

SkipNode ==
    /\ AtOther /\ begin = 0
    /\ i' = i + 1
    /\ PassNode /\ UNCHANGED <<out, next, p>>

\* Where it goes on when a number is not worth joining.
BackTo_Further(b) == b + 3
BackTo(b) == b + 2

\* The numeral before the node ends as a number.
EndNumber ==
    /\ AtOther /\ begin # 0 /\ InPlace!Done(p).ok
    /\ p' = InPlace!Done(p).p
    /\ IF Joins(begin, i, p') THEN Emit(begin, i, p') /\ i' = i + 1
       ELSE i' = BackTo(begin) /\ UNCHANGED <<out, next>>
    /\ PassNode

\* It does not, for its last separator: the separator is left out.
EndSeparated ==
    /\ AtOther /\ begin # 0 /\ ~InPlace!Done(p).ok
    /\ InPlace!EndsWithSeparator(in[i - 1], InPlace!Done(p).p)
    /\ p' = InPlace!Done(p).p
    /\ IF Joins(begin, i - 1, p') THEN Emit(begin, i - 1, p') /\ i' = i + 1
       ELSE i' = begin + 3 /\ UNCHANGED <<out, next>>
    /\ PassNode

\* It does not.
EndNothing ==
    /\ AtOther /\ begin # 0 /\ ~InPlace!Done(p).ok
    /\ ~InPlace!EndsWithSeparator(in[i - 1], InPlace!Done(p).p)
    /\ p' = InPlace!Done(p).p /\ i' = i + 1
    /\ PassNode /\ UNCHANGED <<out, next>>

\* The end of the path: the last numeral, and whatever is left. The loop's
\* locals mean nothing after it.
Return_Forgets ==
    /\ ~done /\ i > Len(in)
    /\ out' = path /\ next' = Len(in) /\ i' = Len(in) + 1 /\ done' = TRUE /\ begin' = 0
    /\ UNCHANGED <<in, p, flags>>
Return ==
    /\ ~done /\ i > Len(in)
    /\ LET r == InPlace!Done(p)
           last == IF r.ok THEN i ELSE i - 1
           joins == /\ begin # 0 /\ Joins(begin, last, r.p)
                    /\ r.ok \/ InPlace!EndsWithSeparator(in[i - 1], r.p)
       IN  /\ p' = IF begin = 0 THEN p ELSE r.p
           /\ out' = IF joins THEN Written(begin, last, r.p) \o SubSeq(in, last, Len(in)) ELSE path
    /\ next' = Len(in) /\ i' = Len(in) + 1 /\ done' = TRUE /\ begin' = 0
    /\ UNCHANGED <<in, flags>>

Next == AppendNode \/ SkipNode \/ EndNumber \/ EndSeparated \/ EndNothing \/ Return

Spec == Init /\ [][Next]_vars /\ WF_vars(Next)
-----------------------------------------------------------------------------
(* Properties *)

TypeOK ==
    /\ in \in Seq(Node) /\ out \in Seq(Node) /\ next \in 0 .. Len(in)
    /\ i \in 1 .. Len(in) + 1 /\ begin \in {0} \cup next + 1 .. i /\ p \in Parser
    /\ flags \in BOOLEAN \X BOOLEAN /\ done \in BOOLEAN

\* The pass makes the path that joining in place would make, step for step
\* (pathrewrite.go:27, equivalence_test.go:21).
JoinsInPlace == InPlace!Spec

\* However often separators send the loop back, it ends: what was refused is not
\* taken for a part of the number again (pathrewrite.go:25).
Terminates == <>done

\* No word of digits has a separator in its form.
SeparatorsApart ==
    \A k \in DOMAIN in : in[k].cats # {} => \A m \in DOMAIN in[k].form : in[k].form[m] \notin {Comma, Point}

\* No node is lost, repeated or moved on the way.
Parts(nodes) == FlattenSeq([k \in DOMAIN nodes |-> nodes[k].parts])
PartsKept == Parts(path) = Parts(in)

\* The characters a node of the result was made of.
Source(n) == FlattenSeq(n.parts)

\* A joined node has the form of the number it was read as, also where its
\* last separator was given up.
JoinedForm ==
    \A k \in DOMAIN path :
        (Normalize /\ Len(path[k].parts) > 1 /\ InPlace!Parse(Source(path[k])).ok) =>
            path[k].form = InPlace!Render(InPlace!Parse(Source(path[k])).p.total)

\* Numbers without separators are joined whole: a run of number nodes between
\* others, of numeral part of speech, that reads as a number.
IsRun(b, e) ==
    /\ \A k \in b .. e : in[k].cats # {}
    /\ \A k \in {b - 1, e + 1} \cap DOMAIN in : in[k].cats = {} /\ in[k].form \notin {<<Comma>>, <<Point>>}
NumberRun(b, e) ==
    /\ IsRun(b, e) /\ in[b].numeral
    /\ InPlace!Parse(FlattenSeq(Parts(SubSeq(in, b, e)))).ok
RunsJoined ==
    done => \A b \in DOMAIN in : \A e \in b .. Len(in) : NumberRun(b, e) =>
        \E k \in DOMAIN path : /\ Len(Parts(SubSeq(path, 1, k - 1))) = b - 1
                               /\ Len(path[k].parts) = e - b + 1

\* Nodes are joined because they have been read as a number: where they could
\* not be, the separator is given up and the rest read again
\* (pathrewrite.go:25).
JoinedAreNumbers ==
    \A k \in DOMAIN path : Len(path[k].parts) > 1 => InPlace!Parse(Source(path[k])).ok

\* The path it makes: all nodes are there, numbers are joined whole, and what
\* is joined has the form of its number.
NumbersJoined == PartsKept /\ JoinedForm /\ RunsJoined
=============================================================================
