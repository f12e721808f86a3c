--------------------------- MODULE MCAnalysisText ---------------------------
(* Every text of up to MaxChars characters of the kinds that the shipped    *)
(* char.def distinguishes: one category, several, a mark that only          *)
(* continues a word, a joiner, a letter.                                    *)
EXTENDS AnalysisText

CONSTANT MaxChars     \* bound: characters of a text

Wood   == [width |-> 3, cats |-> {"KANJI"}]
Zero   == [width |-> 3, cats |-> {"SYMBOL", "KANJI", "KANJINUMERIC"}]
Comma  == [width |-> 3, cats |-> {"SYMBOL"}]
Letter == [width |-> 1, cats |-> {"ALPHA"}]
Greek  == [width |-> 2, cats |-> {"GREEK"}]
Small  == [width |-> 3, cats |-> {"KATAKANA", NoOOVBOW}]
Accent == [width |-> 2, cats |-> Named \cup {NoOOVBOW}]
Joiner == [width |-> 3, cats |-> Named \cup {NoOOVBOW2}]

Kinds == {Wood, Zero, Comma, Letter, Greek, Small, Accent, Joiner}

MCTexts == UNION {[1 .. n -> Kinds] : n \in 0 .. MaxChars}
=============================================================================
