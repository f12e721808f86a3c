--------------------------------- MODULE Oov ---------------------------------
(***************************************************************************)
(* The unknown-word providers of internal/adapter/plugin/oov/oov.go, on the *)
(* built text of AnalysisText. MeCab proposes, for every category of the    *)
(* character, the whole run (GROUP) and the first 1..LENGTH characters of   *)
(* it; Simple proposes one word up to the next position where a word may    *)
(* begin, and only where nothing was created.                               *)
(***************************************************************************)
EXTENDS AnalysisText, SequencesExt

CONSTANTS FlagOrder,     \* the categories from the lowest bit up
          CategoryInfo,  \* char.def: category -> [invoke, group, length]
          Candidates,    \* unk.def: category -> the parameters of its words
          SimpleParam    \* the parameter of the words of Simple

OovNode(b, e, p) ==
    [begin |-> b, end |-> e, left |-> p.left, right |-> p.right, cost |-> p.cost,
     oov |-> TRUE]

Min2(a, b) == IF a <= b THEN a ELSE b

\* appendNodes, for each length in turn.
NodesOf(cat, offset, lengths) ==
    LET n == Len(Candidates[cat])
    IN  [k \in 1 .. n * Len(lengths) |->
            OovNode(offset, offset + lengths[((k - 1) \div n) + 1],
                    Candidates[cat][((k - 1) % n) + 1])]

\* The lengths MeCab proposes for a category: the group first, and not again.
Lengths(cat, run) ==
    LET info == CategoryInfo[cat]
        limit == IF info.group THEN run - 1 ELSE run
        short == [l \in 1 .. Min2(info.length, limit) |-> l]
    IN  IF info.group THEN <<run>> \o short ELSE short

\* A category without INVOKE proposes nothing where a word exists; one without
\* definition or candidates proposes nothing at all.
Proposes(cat, created) ==
    /\ cat \in DOMAIN CategoryInfo /\ cat \in DOMAIN Candidates
    /\ CategoryInfo[cat].invoke \/ created = {}

MeCab(offset, created) ==
    LET nodesOf(cat) == IF cat \in Category(offset) /\ Proposes(cat, created)
                        THEN NodesOf(cat, offset, Lengths(cat, CategoryRun(offset)))
                        ELSE <<>>
    IN  FlattenSeq([k \in DOMAIN FlagOrder |-> nodesOf(FlagOrder[k])])

Simple(offset, created) ==
    IF created # {} THEN <<>>
    ELSE <<OovNode(offset, offset + WordCandidateLength(offset), SimpleParam)>>
=============================================================================
