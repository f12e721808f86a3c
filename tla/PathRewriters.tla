--------------------------- MODULE PathRewriters ----------------------------
(***************************************************************************)
(* The two path rewriters, which newTokenizer puts one behind the other,    *)
(* each on any path: JoinNumeric and JoinKatakana; and the parser that the   *)
(* first one asks, on any string.                                           *)
(***************************************************************************)
EXTENDS JoinNumeric

CONSTANTS Inputs, MaxLength,
          KTexts, minLength
VARIABLES parser, read, status,
          cats, kIn, kOut, kNext, kI, kDone

parserVars == <<parser, read, status>>
katakanaVars == <<cats, kIn, kOut, kNext, kI, kDone>>

Numeral == INSTANCE NumberParser WITH p <- parser
Katakana == INSTANCE JoinKatakana WITH
    Texts <- KTexts, in <- kIn, out <- kOut, next <- kNext, i <- kI, done <- kDone

\* The parser accepts the numerals, no others, for what they denote
\* (NumberParser; number.go).
NumeralsRead == Numeral!NumeralsRead

\* The path keeps tiling the text, and exactly the runs of katakana with an
\* unknown or short word are joined (JoinKatakana; pathrewrite.go).
KatakanaJoined == Katakana!KatakanaJoined

\* No index leaves its path, also where a loop goes on two or three nodes
\* behind another (pathrewrite.go:28, 116), and what is made is a path and a
\* parser again.
TypesOK == TypeOK /\ Numeral!TypeOK /\ Katakana!TypeOK
=============================================================================
