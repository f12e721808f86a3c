------------------------------ MODULE Morphemes ------------------------------
(***************************************************************************)
(* The second half of Tokenize (internal/usecase/tokenize/tokenizer.go and  *)
(* path.go): the nodes of the best path get their word infos, rewriters     *)
(* join some of them, modes A and B split words into units, and every node  *)
(* left becomes a morpheme with a range of the original text.               *)
(*                                                                         *)
(* The text is one that Build made of AnalysisText; the map to the original *)
(* is any that TextBuilder can leave: non-decreasing, from 0 to the end.    *)
(***************************************************************************)
EXTENDS AnalysisText

CONSTANTS Lexicon,      \* word id -> [head, unitsA, unitsB, pos]
          Ids,          \* the word ids that may occur: some of no word
          Posses,       \* the part-of-speech ids of the grammar
          OovPos,       \* part of speech of unknown and joined words
          MaxOriginal,  \* bound: bytes of the original
          MaxJoins      \* bound: joins by path rewriters

WordInfo == [head : Nat, unitsA : Seq(Ids), unitsB : Seq(Ids), pos : Nat]

ASSUME MorphemesAssumption ==
    /\ DOMAIN Lexicon \subseteq Ids /\ Ids \subseteq Nat
    /\ Lexicon \in [DOMAIN Lexicon -> WordInfo]
    /\ Posses \subseteq Nat /\ OovPos \in Nat
    /\ MaxOriginal \in Nat /\ MaxJoins \in Nat

VARIABLES m2o,     \* Text.m2o; m2o[b + 1] is the code's m2o[b]
          mode,    \* "A", "B", "C", or a Mode that is none of them
          nodes,   \* the path: nodes with their infos
          splitAt, \* split: index of the node its loop is at
          rest,    \* split: units of that node not made yet
          begin,   \* split: byte the next unit begins at
          out,     \* split: its result
          ms,      \* toMorphemes: its result
          joins,   \* history: number of joins
          phase    \* where Tokenize is

splitVars == <<splitAt, rest, begin, out>>
morphemesVars == <<textVars, m2o, mode, nodes, splitVars, ms, joins, phase>>

Oov == -1     \* OOVID(posID) and InvalidID: only IsOOV is asked of them
PathNode == [begin : Nat, end : Nat, word : Ids \cup {Oov}, beginByte : Nat, endByte : Nat,
         info : WordInfo, joined : BOOLEAN]
Morpheme == [begin : Nat, end : Nat, oov : BOOLEAN]

\* What TextBuilder can leave: MapMonotone and MapAnchored.
Maps(len, orig) ==
    {m \in [1 .. len + 1 -> 0 .. orig] :
        /\ m[1] = 0 /\ m[len + 1] = orig
        /\ \A i, j \in 1 .. len + 1 : i <= j => m[i] <= m[j]}

NothingMade ==
    /\ m2o = <<>>
    /\ nodes = <<>> /\ splitAt = 1 /\ rest = <<>> /\ begin = 0 /\ out = <<>>
    /\ ms = <<>> /\ joins = 0 /\ phase = "build"

MorphemesInit ==
    /\ TextInit /\ chars # <<>>
    /\ mode \in {"A", "B", "C", "other"} /\ NothingMade

PrepareText ==
    /\ phase = "build" /\ Build
    /\ UNCHANGED <<m2o, mode, nodes, splitVars, ms, joins, phase>>

FindPath ==
    /\ phase = "build" /\ Built
    /\ m2o' \in UNION {Maps(ByteLen, n) : n \in 0 .. MaxOriginal}
    /\ phase' = "infos"
    /\ UNCHANGED <<textVars, mode, nodes, splitVars, ms, joins>>

-----------------------------------------------------------------------------
(* toPath: the nodes of the best path tile the text and are of any words.   *)

PathEnd == IF nodes = <<>> THEN 0 ELSE nodes[Len(nodes)].end

Synthesized(len, pos) == [head |-> len % 2 ^ 16, unitsA |-> <<>>, unitsB |-> <<>>, pos |-> pos]

\* The node from PathEnd to character e.
NodeTo(e, w, info) ==
    [begin |-> PathEnd, end |-> e, word |-> w, beginByte |-> ByteOffset(PathEnd),
     endByte |-> ByteOffset(e), info |-> info, joined |-> FALSE]

LookUpInfo(e, w) ==
    /\ phase = "infos" /\ w \in DOMAIN Lexicon \cup {Oov}
    /\ nodes' = Append(nodes, NodeTo(e, w,
                  IF w = Oov THEN Synthesized(ByteOffset(e) - ByteOffset(PathEnd), OovPos)
                  ELSE Lexicon[w]))
    /\ UNCHANGED <<textVars, m2o, mode, splitVars, ms, joins, phase>>

\* Lexicon.Info has no such word.
LookUpFails(w) ==
    /\ phase = "infos" /\ PathEnd < CharLen /\ w \notin DOMAIN Lexicon \cup {Oov}
    /\ phase' = "failed"
    /\ UNCHANGED <<textVars, m2o, mode, nodes, splitVars, ms, joins>>

EndInfos ==
    /\ phase = "infos" /\ PathEnd = CharLen
    /\ phase' = "rewrite"
    /\ UNCHANGED <<textVars, m2o, mode, nodes, splitVars, ms, joins>>

-----------------------------------------------------------------------------
(* Path rewriters: joins of neighbours, by either of two functions.         *)

Joined(i, j, w, info) ==
    [begin |-> nodes[i].begin, end |-> nodes[j].end, word |-> w,
     beginByte |-> nodes[i].beginByte, endByte |-> nodes[j].endByte, info |-> info,
     joined |-> TRUE]

\* The sums of the first numbers of a sequence, and of all of them.
Sums(s) == LET sum[k \in 0 .. Len(s)] == IF k = 0 THEN 0 ELSE sum[k - 1] + s[k] IN sum
Total(s) == Sums(s)[Len(s)]

Replace(i, j, n) == SubSeq(nodes, 1, i - 1) \o <<n>> \o SubSeq(nodes, j + 1, Len(nodes))

\* JoinNodes: an unknown word of the part of speech of the first.
JoinNodes(i, j) ==
    /\ phase = "rewrite" /\ joins < MaxJoins
    /\ LET heads == [k \in 1 .. j - i + 1 |-> nodes[i + k - 1].info.head]
       IN  nodes' = Replace(i, j, Joined(i, j, Oov, Synthesized(Total(heads), nodes[i].info.pos)))
    /\ joins' = joins + 1
    /\ UNCHANGED <<textVars, m2o, mode, splitVars, ms, phase>>

\* JoinOOVNodes: of known words the one of the largest id, but with an info of
\* its own, without units.
InfoOfJoined_Word(w, len) == IF w = Oov THEN Synthesized(len, OovPos) ELSE Lexicon[w]
InfoOfJoined(w, len) == Synthesized(len, OovPos)

JoinOOVNodes(i, j) ==
    /\ phase = "rewrite" /\ joins < MaxJoins /\ i < j
    /\ LET words == {nodes[k].word : k \in i .. j}
           w == IF Oov \in words THEN Oov ELSE CHOOSE x \in words : \A y \in words : y <= x
       IN  nodes' = Replace(i, j, Joined(i, j, w,
                      InfoOfJoined(w, nodes[j].endByte - nodes[i].beginByte)))
    /\ joins' = joins + 1
    /\ UNCHANGED <<textVars, m2o, mode, splitVars, ms, phase>>

-----------------------------------------------------------------------------
(* split *)

\* Mode C returns the path as it is.
SkipSplit ==
    /\ phase = "rewrite" /\ mode = "C"
    /\ out' = nodes /\ phase' = "morphemes"
    /\ UNCHANGED <<textVars, m2o, mode, nodes, splitAt, rest, begin, ms, joins>>

StartSplit ==
    /\ phase = "rewrite" /\ mode # "C"
    /\ phase' = "split"
    /\ UNCHANGED <<textVars, m2o, mode, nodes, splitVars, ms, joins>>

UnitsOf(n) == IF n.word = Oov THEN <<>>
              ELSE IF mode = "A" THEN n.info.unitsA ELSE n.info.unitsB

\* Of an unknown word no mode is asked.
KnownMode == mode # "other" \/ nodes[splitAt].word = Oov

KeepNode ==
    /\ phase = "split" /\ splitAt <= Len(nodes) /\ KnownMode /\ Len(UnitsOf(nodes[splitAt])) <= 1
    /\ out' = Append(out, nodes[splitAt]) /\ splitAt' = splitAt + 1
    /\ UNCHANGED <<textVars, m2o, mode, nodes, rest, begin, ms, joins, phase>>

StartUnits ==
    /\ phase = "split" /\ splitAt <= Len(nodes) /\ KnownMode /\ Len(UnitsOf(nodes[splitAt])) > 1
    /\ rest' = UnitsOf(nodes[splitAt]) /\ begin' = nodes[splitAt].beginByte
    /\ phase' = "units"
    /\ UNCHANGED <<textVars, m2o, mode, nodes, splitAt, out, ms, joins>>

ModeFails ==
    /\ phase = "split" /\ splitAt <= Len(nodes) /\ ~KnownMode
    /\ phase' = "failed"
    /\ UNCHANGED <<textVars, m2o, mode, nodes, splitVars, ms, joins>>

\* The last unit takes what is left, and none goes past the node.
UnitEnd_LastAsIs(n, e) == IF e > n.endByte THEN n.endByte ELSE e
UnitEnd(n, e) == IF Len(rest) = 1 \/ e > n.endByte THEN n.endByte ELSE e

MakeUnit ==
    /\ phase = "units" /\ rest # <<>> /\ Head(rest) \in DOMAIN Lexicon
    /\ LET info == Lexicon[Head(rest)]
           end == UnitEnd(nodes[splitAt], begin + info.head)
       IN  /\ out' = Append(out, [begin |-> CharIndex(begin), end |-> CharIndex(end),
                                  word |-> Head(rest), beginByte |-> begin, endByte |-> end,
                                  info |-> info, joined |-> FALSE])
           /\ begin' = end
    /\ rest' = Tail(rest)
    /\ UNCHANGED <<textVars, m2o, mode, nodes, splitAt, ms, joins, phase>>

UnitFails ==
    /\ phase = "units" /\ rest # <<>> /\ Head(rest) \notin DOMAIN Lexicon
    /\ phase' = "failed"
    /\ UNCHANGED <<textVars, m2o, mode, nodes, splitVars, ms, joins>>

EndUnits ==
    /\ phase = "units" /\ rest = <<>>
    /\ splitAt' = splitAt + 1 /\ phase' = "split"
    /\ UNCHANGED <<textVars, m2o, mode, nodes, rest, begin, out, ms, joins>>

EndSplit ==
    /\ phase = "split" /\ splitAt > Len(nodes)
    /\ phase' = "morphemes"
    /\ UNCHANGED <<textVars, m2o, mode, nodes, splitVars, ms, joins>>

-----------------------------------------------------------------------------
(* toMorphemes *)

OriginalRange_Characters(n) == <<m2o[n.begin + 1], m2o[n.end + 1]>>
OriginalRange(n) == <<m2o[n.beginByte + 1], m2o[n.endByte + 1]>>

MakeMorpheme ==
    /\ phase = "morphemes" /\ Len(ms) < Len(out) /\ out[Len(ms) + 1].info.pos \in Posses
    /\ LET n == out[Len(ms) + 1]
       IN  ms' = Append(ms, [begin |-> OriginalRange(n)[1], end |-> OriginalRange(n)[2],
                             oov |-> n.word = Oov])
    /\ UNCHANGED <<textVars, m2o, mode, nodes, splitVars, joins, phase>>

MorphemeFails ==
    /\ phase = "morphemes" /\ Len(ms) < Len(out) /\ out[Len(ms) + 1].info.pos \notin Posses
    /\ phase' = "failed"
    /\ UNCHANGED <<textVars, m2o, mode, nodes, splitVars, ms, joins>>

ReturnMorphemes ==
    /\ phase = "morphemes" /\ Len(ms) = Len(out)
    /\ phase' = "done"
    /\ UNCHANGED <<textVars, m2o, mode, nodes, splitVars, ms, joins>>

MorphemesNext ==
    \/ PrepareText \/ FindPath
    \/ \E w \in Ids \cup {Oov} : \/ \E e \in PathEnd + 1 .. CharLen : LookUpInfo(e, w)
                                \/ LookUpFails(w)
    \/ EndInfos
    \/ \E i \in DOMAIN nodes : \E j \in i .. Len(nodes) : JoinNodes(i, j) \/ JoinOOVNodes(i, j)
    \/ SkipSplit \/ StartSplit \/ KeepNode \/ StartUnits \/ ModeFails
    \/ MakeUnit \/ UnitFails \/ EndUnits \/ EndSplit
    \/ MakeMorpheme \/ MorphemeFails \/ ReturnMorphemes

MorphemesSpec == MorphemesInit /\ [][MorphemesNext]_morphemesVars

-----------------------------------------------------------------------------
(* Properties *)

\* Consecutive nodes meet, in bytes and in characters.
Meet(s) == \A k \in 1 .. Len(s) - 1 : /\ s[k].endByte = s[k + 1].beginByte
                                       /\ s[k].end = s[k + 1].begin

Covers(s, last) == /\ Len(s) > 0 /\ s[1].begin = 0 /\ s[Len(s)].end = last
                   /\ \A k \in 1 .. Len(s) - 1 : s[k].end = s[k + 1].begin

\* However the rewriters join and whatever lengths the dictionary gives to
\* units, the result of split tiles the text, no unit runs backwards and none
\* lies across the border of two nodes (tokenizer.go:195).
SplitTiles ==
    phase \in {"morphemes", "done"} =>
        /\ Meet(out) /\ Covers(out, CharLen)
        /\ \A k \in DOMAIN out : out[k].beginByte <= out[k].endByte
        /\ \A n \in DOMAIN nodes : \E k \in DOMAIN out : out[k].endByte = nodes[n].endByte

\* The surfaces of the morphemes, put end to end, are the original text
\* (builder.go:89).
SurfacesCover ==
    phase = "done" => /\ Covers(ms, m2o[Len(m2o)])
                   /\ \A k \in DOMAIN ms : ms[k].begin <= ms[k].end

\* A joined word stays whole in every mode, although it may carry the id of a
\* dictionary word that has units (path.go:66).
JoinedStayWhole ==
    phase = "done" => \A n \in DOMAIN nodes : nodes[n].joined =>
        \E k \in DOMAIN out : out[k] = nodes[n]

\* Units of a dictionary word whose lengths add up to its node get exactly
\* these lengths: the clamps take effect only on a node that does not fit.
Heads(u) == [k \in DOMAIN u |-> Lexicon[u[k]].head]
Fits(n) == LET u == UnitsOf(n)
           IN  /\ Len(u) > 1 /\ \A k \in DOMAIN u : u[k] \in DOMAIN Lexicon
               /\ Total(Heads(u)) = n.endByte - n.beginByte
Within(u, n) == n.beginByte <= u.beginByte /\ u.endByte <= n.endByte
UnitsAsLong ==
    phase = "done" /\ mode # "C" => \A n \in DOMAIN nodes : Fits(nodes[n]) =>
        \A k \in DOMAIN out :
            Within(out[k], nodes[n]) /\ out[k].beginByte < out[k].endByte
                => out[k].endByte - out[k].beginByte = Lexicon[out[k].word].head

\* What split makes of a path: units that tile it, as long as their words.
UnitsTile == SplitTiles /\ UnitsAsLong
=============================================================================
