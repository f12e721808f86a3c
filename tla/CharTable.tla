----------------------------- MODULE CharTable -----------------------------
(***************************************************************************)
(* The table of character categories: ParseCharDef of                       *)
(* internal/infrastructure/resource/resource.go reads char.def line by line, *)
(* and NewTable of internal/domain/chars/table.go makes of its overlapping  *)
(* ranges stretches that do not overlap, in which Category finds a          *)
(* character by binary search.                                              *)
(***************************************************************************)
EXTENDS Integers, SequencesExt

CONSTANTS Lines,       \* the lines of char.def there may be, comments left out
          MaxLines,    \* bound: lines of a file
          MaxRune,     \* the largest rune, of an int32
          BmpSize      \* len(Table.bmp)

VARIABLES def,         \* char.def
          n,           \* lines read
          ranges, infos,
          starts, cats,  \* the stretches of Table
          bmp,
          stage        \* "reading", "filling", "ready" or "failed"

vars == <<def, n, ranges, infos, starts, cats, bmp, stage>>

\* What is read of a range: two runes, which int32 holds.
LinesAssumption ==
    /\ MaxRune \in Nat /\ BmpSize \in Nat /\ MaxLines \in Nat
    /\ \A l \in Lines : l.kind = "range" => /\ l.lo \in -MaxRune - 1 .. MaxRune
                                            /\ l.hi \in -MaxRune - 1 .. MaxRune

Init ==
    /\ def \in UNION {[1 .. k -> Lines] : k \in 0 .. MaxLines}
    /\ n = 0 /\ ranges = <<>> /\ infos = <<>> /\ starts = <<>> /\ cats = <<>>
    /\ bmp = <<>> /\ stage = "reading"

-----------------------------------------------------------------------------
(* ParseCharDef *)

Line == def[n + 1]

\* rune(end) + 1.
AfterRune(c) == IF c = MaxRune THEN -MaxRune - 1 ELSE c + 1

Known(l) == l.cats # {} /\ "unknown" \notin l.cats

\* 0xlo..hi and the categories of the range, known by their names or not.
ParseCharRange ==
    /\ stage = "reading" /\ n < Len(def) /\ Line.kind = "range"
    /\ IF Known(Line)
       THEN /\ ranges' = Append(ranges, [begin |-> Line.lo, end |-> AfterRune(Line.hi), cats |-> Line.cats])
            /\ UNCHANGED stage
       ELSE stage' = "failed" /\ UNCHANGED ranges
    /\ n' = n + 1 /\ UNCHANGED <<def, infos, starts, cats, bmp>>

\* INVOKE, GROUP and LENGTH of a category, of which the last line counts.
ParseCategoryInfo ==
    /\ stage = "reading" /\ n < Len(def) /\ Line.kind = "info"
    /\ IF Line.cat = "unknown" THEN stage' = "failed" /\ UNCHANGED infos
       ELSE /\ infos' = [c \in DOMAIN infos \cup {Line.cat} |->
                             IF c = Line.cat THEN Line.length ELSE infos[c]]
            /\ UNCHANGED stage
    /\ n' = n + 1 /\ UNCHANGED <<def, ranges, starts, cats, bmp>>

-----------------------------------------------------------------------------
(* NewTable *)

Bounds_Begins == {0} \cup {ranges[k].begin : k \in DOMAIN ranges}
Bounds == {0} \cup UNION {{ranges[k].begin, ranges[k].end} : k \in DOMAIN ranges}

CatsFrom(b) ==
    LET of == UNION {ranges[k].cats : k \in {k \in DOMAIN ranges : ranges[k].begin <= b /\ b < ranges[k].end}}
    IN  IF of = {} THEN {"DEFAULT"} ELSE of

Valid(r) == r.begin < r.end

\* slices.Sort and Compact: of the members the k-th has k - 1 below it.
Ascending(S) ==
    [k \in 1 .. Cardinality(S) |-> CHOOSE b \in S : Cardinality({a \in S : a < b}) = k - 1]

NewTable ==
    /\ stage = "reading" /\ n = Len(def)
    /\ IF \E k \in DOMAIN ranges : ~Valid(ranges[k])
       THEN stage' = "failed" /\ UNCHANGED <<starts, cats>>
       ELSE /\ stage' = "filling"
            /\ starts' = Ascending(Bounds)
            /\ cats' = [k \in DOMAIN starts' |-> CatsFrom(starts'[k])]
    /\ UNCHANGED <<def, n, ranges, infos, bmp>>

\* lookup: slices.BinarySearch answers the first start that is not before c.
Found(c) == Min({k \in DOMAIN starts : c <= starts[k]} \cup {Len(starts) + 1})
lookup(c) == cats[IF c \in Range(starts) THEN Found(c) ELSE Found(c) - 1]

FillBmp ==
    /\ stage = "filling" /\ Len(bmp) < BmpSize
    /\ bmp' = Append(bmp, lookup(Len(bmp)))
    /\ UNCHANGED <<def, n, ranges, infos, starts, cats, stage>>

Return ==
    /\ stage = "filling" /\ Len(bmp) = BmpSize
    /\ stage' = "ready"
    /\ UNCHANGED <<def, n, ranges, infos, starts, cats, bmp>>

Next == ParseCharRange \/ ParseCategoryInfo \/ NewTable \/ FillBmp \/ Return

Spec == Init /\ [][Next]_vars

Category(c) == IF c < BmpSize THEN bmp[c + 1] ELSE lookup(c)
Info(cat) == IF cat \in DOMAIN infos THEN infos[cat] ELSE -1
-----------------------------------------------------------------------------
(* Properties *)

TypeOK ==
    /\ n \in 0 .. Len(def) /\ stage \in {"reading", "filling", "ready", "failed"}
    /\ \A k \in DOMAIN ranges : ranges[k].cats # {} /\ "unknown" \notin ranges[k].cats
    /\ Len(starts) = Len(cats) /\ Len(bmp) \in 0 .. BmpSize
    /\ \A k \in 1 .. Len(starts) - 1 : starts[k] < starts[k + 1]

\* A character has the categories of all ranges it is in, and the default one
\* if it is in none (table.go:14), in the first 0x10000 as beyond them.
InLine(c, l) == l.kind = "range" /\ l.lo <= c /\ c <= l.hi
UnionOfRanges ==
    stage = "ready" => \A c \in 0 .. MaxRune :
        LET of == {k \in DOMAIN def : InLine(c, def[k])}
        IN  Category(c) = IF of = {} THEN {"DEFAULT"} ELSE UNION {def[k].cats : k \in of}

\* What char.def says wrong is not dropped: a table is made only of a file
\* whose every line is understood, and no range of it is empty.
AllOrNothing ==
    stage = "ready" => \A k \in DOMAIN def :
        IF def[k].kind = "info" THEN def[k].cat # "unknown" /\ def[k].cat \in DOMAIN infos
        ELSE def[k].cats # {} /\ "unknown" \notin def[k].cats /\ def[k].lo <= def[k].hi

\* A table is what its file says, or there is none.
TableAsDefined == UnionOfRanges /\ AllOrNothing
=============================================================================
