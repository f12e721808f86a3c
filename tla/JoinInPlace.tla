---------------------------- MODULE JoinInPlace ----------------------------
(***************************************************************************)
(* What JoinNumeric has to do: the rewriter of Sudachi, which joins numerals *)
(* in the path itself, as equivalence_test.go (refJoinNumeric) keeps it for *)
(* comparison. A step is an iteration of its loop.                          *)
(*                                                                         *)
(* A node is its normalised form, the categories all its characters share,  *)
(* whether it has the part of speech of numerals, and the forms of the nodes *)
(* of the best path it stands for.                                          *)
(***************************************************************************)
EXTENDS Numerals

CONSTANTS Paths,     \* the best paths
          Normalize  \* WithJoinNumeric's second argument

VARIABLES path,           \* the path, joined up to where the loop is
          i,              \* the node the loop is at
          begin,          \* the first node of the numeral, 0 if there is none
          p,              \* the parser
          commaAsDigit, periodAsDigit,
          done

flags == <<commaAsDigit, periodAsDigit>>
vars == <<path, i, begin, p, flags, done>>

Init ==
    /\ path \in Paths /\ i = 1 /\ begin = 0 /\ p = NewParser
    /\ commaAsDigit = TRUE /\ periodAsDigit = TRUE /\ done = FALSE

-----------------------------------------------------------------------------
(* join and JoinNodes, which both rewriters use                             *)

JoinNodes(nodes, form) ==
    [form |-> form, cats |-> {c \in nodes[1].cats : \A k \in DOMAIN nodes : c \in nodes[k].cats},
     numeral |-> nodes[1].numeral, parts |-> FlattenSeq([k \in DOMAIN nodes |-> nodes[k].parts])]

WorthJoining(nodes, q) ==
    /\ nodes # <<>> /\ nodes[1].numeral
    /\ Len(nodes) > 1 \/ (Normalize /\ Render(q.total) # nodes[1].form)

Join(nodes, q) ==
    JoinNodes(nodes, IF Normalize THEN Render(q.total)
                     ELSE FlattenSeq([k \in DOMAIN nodes |-> nodes[k].form]))

IsNumber(n, comma, period) ==
    \/ n.cats \cap {"NUMERIC", "KANJINUMERIC"} # {}
    \/ (comma /\ n.form = <<Comma>>)
    \/ (period /\ n.form = <<Point>>)

EndsWithSeparator(n, q) == \/ (q.err = "comma" /\ n.form = <<Comma>>)
                           \/ (q.err = "point" /\ n.form = <<Point>>)

-----------------------------------------------------------------------------
Spliced(b, e, q) ==
    LET nodes == SubSeq(path, b, e - 1)
    IN  IF WorthJoining(nodes, q)
        THEN SubSeq(path, 1, b - 1) \o <<Join(nodes, q)>> \o SubSeq(path, e, Len(path))
        ELSE path

ReadNumber ==
    /\ ~done /\ i <= Len(path) /\ IsNumber(path[i], commaAsDigit, periodAsDigit)
    /\ LET from == IF begin = 0 THEN i ELSE begin
           r == AppendAll(IF begin = 0 THEN NewParser ELSE p, path[i].form)
       IN  /\ p' = r.p
           /\ begin' = IF r.ok THEN from ELSE 0
           /\ i' = IF r.ok \/ r.p.err = "none" THEN i + 1 ELSE from
           /\ commaAsDigit' = (commaAsDigit /\ (r.ok \/ r.p.err # "comma"))
           /\ periodAsDigit' = (periodAsDigit /\ (r.ok \/ r.p.err # "point"))
    /\ UNCHANGED <<path, done>>

ReadOther ==
    /\ ~done /\ i <= Len(path) /\ ~IsNumber(path[i], commaAsDigit, periodAsDigit)
    /\ LET r == Done(p)
           separator == EndsWithSeparator(path[i - 1], r.p)
       IN  IF begin = 0 THEN i' = i + 1 /\ UNCHANGED <<path, p>>
           ELSE /\ p' = r.p
                /\ path' = IF r.ok THEN Spliced(begin, i, r.p)
                           ELSE IF separator THEN Spliced(begin, i - 1, r.p) ELSE path
                /\ i' = IF r.ok THEN begin + 2 ELSE IF separator THEN begin + 3 ELSE i + 1
    /\ begin' = 0
    /\ commaAsDigit' = (commaAsDigit \/ path[i].form # <<Comma>>)
    /\ periodAsDigit' = (periodAsDigit \/ path[i].form # <<Point>>)
    /\ UNCHANGED done

\* The loop's locals mean nothing after it.
End ==
    /\ ~done /\ i > Len(path)
    /\ LET r == Done(p)
           last == Len(path)
       IN  IF begin = 0 THEN UNCHANGED <<path, p>>
           ELSE /\ p' = r.p
                /\ path' = IF r.ok THEN Spliced(begin, last + 1, r.p)
                           ELSE IF EndsWithSeparator(path[last], r.p) THEN Spliced(begin, last, r.p)
                           ELSE path
    /\ done' = TRUE /\ i' = Len(path') + 1 /\ begin' = 0
    /\ UNCHANGED flags

Next == ReadNumber \/ ReadOther \/ End

Spec == Init /\ [][Next]_vars
=============================================================================
