---------------------------- MODULE JoinKatakana ----------------------------
(***************************************************************************)
(* JoinKatakanaOOV.Rewrite of                                               *)
(* internal/adapter/plugin/pathrewrite/pathrewrite.go: one pass that reads  *)
(* the best path and joins the katakana around each unknown or short word.  *)
(* A step is an iteration of its loop.                                      *)
(*                                                                         *)
(* A node is a stretch of the text, from character begin + 1 to end, and    *)
(* whether its word is unknown.                                             *)
(***************************************************************************)
EXTENDS FiniteSetsExt, SequencesExt

CONSTANTS Texts,     \* the categories of a text's characters
          minLength

VARIABLES cats,          \* the text
          in, out,       \* the path it is given, the path it makes
          next,          \* number of nodes of in that out stands for
          i, done

vars == <<cats, in, out, next, i, done>>

\* A text has the categories of each of its characters.
TextsAssumption == \A text \in Texts : text \in Seq(Range(text))

\* A path tiles the text.
Node == [begin : 0 .. Len(cats), end : 0 .. Len(cats), oov : BOOLEAN]
Tiles(nodes) ==
    /\ \A k \in DOMAIN nodes :
           /\ nodes[k].begin < nodes[k].end
           /\ nodes[k].begin = IF k = 1 THEN 0 ELSE nodes[k - 1].end
    /\ (nodes = <<>> /\ cats = <<>>) \/ (nodes # <<>> /\ Last(nodes).end = Len(cats))

\* The node k of a path is from one end to the next.
Path(ends, unknown) ==
    [k \in DOMAIN ends |->
        [begin |-> IF k = 1 THEN 0 ELSE ends[k - 1], end |-> ends[k], oov |-> k \in unknown]]

Ascending(S) ==
    [k \in 1 .. Cardinality(S) |-> CHOOSE b \in S : Cardinality({a \in S : a < b}) = k - 1]

Init ==
    /\ cats \in Texts
    /\ \E cuts \in SUBSET (1 .. Len(cats) - 1) :
           LET ends == Ascending(cuts \cup ({Len(cats)} \ {0}))
           IN  \E unknown \in SUBSET DOMAIN ends : in = Path(ends, unknown)
    /\ out = <<>> /\ next = 0 /\ i = 1 /\ done = FALSE

CategoryOfRange(begin, end) ==
    {c \in UNION Range(cats) : begin < end /\ \A k \in begin + 1 .. end : c \in cats[k]}

IsKatakana(n) == "KATAKANA" \in CategoryOfRange(n.begin, n.end)
Trigger(n) == n.oov \/ n.end - n.begin < minLength

\* JoinOOVNodes.
JoinOOVNodes(nodes) ==
    [begin |-> nodes[1].begin, end |-> Last(nodes).end,
     oov |-> \E k \in DOMAIN nodes : nodes[k].oov]

\* The katakana around node i, without the nodes no unknown word begins with.
End == Min({k \in i + 1 .. Len(in) + 1 : k > Len(in) \/ ~IsKatakana(in[k])})
Begin ==
    LET back == Min({b \in next + 1 .. i : \A k \in b .. i : IsKatakana(in[k])})
    IN  Min({b \in back .. End : b = End \/ "NOOOVBOW" \notin cats[in[b].begin + 1]})

AtKatakana == ~done /\ i <= Len(in) /\ Trigger(in[i]) /\ IsKatakana(in[i])

Resume_OneOver(end) == next' = end /\ i' = end + 1
Resume(end) == next' = end - 1 /\ i' = end + 1

JoinRun ==
    /\ AtKatakana /\ End - Begin > 1
    /\ out' = out \o SubSeq(in, next + 1, Begin - 1) \o <<JoinOOVNodes(SubSeq(in, Begin, End - 1))>>
    /\ Resume(End)
    /\ UNCHANGED <<cats, in, done>>

PassNode ==
    /\ ~done /\ i <= Len(in)
    /\ AtKatakana => End - Begin <= 1
    /\ i' = i + 1
    /\ UNCHANGED <<cats, in, out, next, done>>

Return ==
    /\ ~done /\ i > Len(in)
    /\ out' = out \o SubSeq(in, next + 1, Len(in))
    /\ next' = Len(in) /\ done' = TRUE
    /\ UNCHANGED <<cats, in, i>>

Next == JoinRun \/ PassNode \/ Return

Spec == Init /\ [][Next]_vars
-----------------------------------------------------------------------------
(* Properties *)

TypeOK ==
    /\ cats \in Texts /\ in \in Seq(Node) /\ out \in Seq(Node)
    /\ next \in 0 .. Len(in) /\ i \in 1 .. Len(in) + 2 /\ done \in BOOLEAN

\* However it joins, what it has made and what it has yet to read tile the
\* text: no word is lost or repeated.
TextTiled == Tiles(out \o SubSeq(in, next + 1, Len(in)))

\* The runs of katakana, as far as they may be joined.
Runs == {r \in (DOMAIN in) \X (DOMAIN in) :
            /\ \A k \in r[1] .. r[2] : IsKatakana(in[k])
            /\ \A k \in {r[1] - 1, r[2] + 1} \cap DOMAIN in : ~IsKatakana(in[k])}
Whole(r) == {k \in r[1] .. r[2] :
                \E b \in r[1] .. k : "NOOOVBOW" \notin cats[in[b].begin + 1]}
Joinable == {r \in Runs : /\ r[1] <= r[2] /\ Cardinality(Whole(r)) > 1
                          /\ \E k \in r[1] .. r[2] : Trigger(in[k])}
JoinedRun(r) == JoinOOVNodes([k \in 1 .. Cardinality(Whole(r)) |-> in[Min(Whole(r)) + k - 1]])

\* It joins each run of katakana that holds an unknown or short word, whole,
\* from its first node an unknown word may begin with, and leaves all other
\* nodes as they are (JoinKatakanaOOV, pathrewrite.go:116).
RunsJoined ==
    done => Range(out) = {JoinedRun(r) : r \in Joinable}
                         \cup {in[k] : k \in DOMAIN in \ UNION {Whole(r) : r \in Joinable}}

\* The path it makes: it tiles the text, with the runs joined.
KatakanaJoined == TextTiled /\ RunsJoined
=============================================================================
