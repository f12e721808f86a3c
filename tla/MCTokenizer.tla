----------------------------- MODULE MCTokenizer -----------------------------
(* Short texts of the kinds char.def distinguishes, the shipped category     *)
(* definitions, and costs small enough to tie.                               *)
EXTENDS Tokenizer

Kanji  == [width |-> 3, cats |-> {"KANJI"}]
Kata   == [width |-> 3, cats |-> {"KATAKANA"}]
Small  == [width |-> 3, cats |-> {"KATAKANA", NoOOVBOW}]
Letter == [width |-> 1, cats |-> {"ALPHA"}]
Joiner == [width |-> 3, cats |-> Named \cup {NoOOVBOW2}]

Mark   == [width |-> 3, cats |-> {"SYMBOL", NoOOVBOW}]     \* has no unknown words

MCTexts == {<<>>, <<Kanji, Kanji>>, <<Kata, Small, Kanji>>, <<Small, Kata>>, <<Kanji, Mark>>,
            <<Letter, Letter, Kanji>>, <<Kanji, Joiner, Letter>>, <<Mark, Letter>>}

Configured == <<"MeCab", "Simple">>     \* by newTokenizer
MCProviderLists == {Configured, <<"MeCab">>}
Shipped == {Configured}
MCIds == {0, 1, 2}
MCFlagOrder == <<"DEFAULT", "SPACE", "KANJI", "SYMBOL", "NUMERIC", "ALPHA", "HIRAGANA",
                 "KATAKANA", "KANJINUMERIC", "GREEK", "CYRILLIC", NoOOVBOW, NoOOVBOW2>>

Info(i, g, l) == [invoke |-> i, group |-> g, length |-> l]
MCCategoryInfo == [c \in {"DEFAULT", "KANJI", "ALPHA", "KATAKANA"} |->
    CASE c = "DEFAULT" -> Info(FALSE, TRUE, 0)
      [] c = "KANJI" -> Info(FALSE, FALSE, 2)
      [] c = "ALPHA" -> Info(TRUE, TRUE, 0)
      [] c = "KATAKANA" -> Info(TRUE, TRUE, 2)]

WithParam(l, r, c) == [left |-> l, right |-> r, cost |-> c]
MCCandidates == [c \in {"KANJI", "ALPHA", "KATAKANA"} |->
    IF c = "ALPHA" THEN <<WithParam(1, 0, 1), WithParam(0, 1, 2)>> ELSE <<WithParam(1, 0, 1)>>]
MCSimpleParam == WithParam(2, 2, 3)
MCParams == {WithParam(1, 0, 1), WithParam(0, 1, -1)}

Matrix(f(_, _)) == [p \in MCIds \X MCIds |-> f(p[1], p[2])]
MCMatrices == {Matrix(LAMBDA l, r : 0), Matrix(LAMBDA l, r : IF l = r THEN 2 ELSE 0)}

\* For narrow costs: words of cost 1 or 2 on connections of cost 1, and of cost
\* 0 to the end of the text.
LongTexts == {[i \in 1 .. n |-> Kanji] : n \in 3 .. 4}
NarrowTexts == LongTexts \cup {<<>>, <<Mark, Kanji, Kanji>>}
TwoParams == {WithParam(1, 1, 1), WithParam(1, 1, 2)}
OnesBetweenWords == {Matrix(LAMBDA l, r : IF r = 0 THEN 0 ELSE 1)}
=============================================================================
