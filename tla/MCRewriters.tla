---------------------------- MODULE MCRewriters ----------------------------
(***************************************************************************)
(* The path rewriters and the number parser, each on all small inputs:     *)
(* part names the one a behaviour is about, and the others stay as they    *)
(* are for an empty path and an empty string.                              *)
(***************************************************************************)
EXTENDS MCJoinNumeric, PathRewriters

CONSTANTS MaxGrouped,    \* bound: characters of a string of digits and commas
          MaxText        \* bound: characters of a text with katakana

VARIABLE part     \* "numerals", "parser", "commas" or "katakana"

-----------------------------------------------------------------------------
(* Digits, small and big units and separators; and, for longer strings with *)
(* several commas, digits and commas only.                                  *)

MCInputs == {0, 1, -1, -2, -4, Comma, Point}

Grouped == INSTANCE NumberParser WITH
    Inputs <- {0, 1, Comma}, MaxLength <- MaxGrouped, p <- parser

ASSUME NumeralAssumption == Numeral!InputsAssumption

-----------------------------------------------------------------------------
(* All paths through all texts of three kinds of characters.               *)

TextsOfKatakana ==
    UNION {[1 .. n -> {{"KATAKANA"}, {"KATAKANA", "NOOOVBOW"}, {"ALPHA"}}] : n \in 0 .. MaxText}

ASSUME KatakanaAssumption == Katakana!TextsAssumption

-----------------------------------------------------------------------------
MCInit ==
    /\ part \in {"numerals", "parser", "commas", "katakana"}
    /\ part # "numerals" => in = <<>>
    /\ part # "katakana" => cats = <<>>
    /\ Init /\ Numeral!Init /\ Katakana!Init

MCNext ==
    /\ UNCHANGED part
    /\ \/ part = "numerals" /\ Next /\ UNCHANGED <<parserVars, katakanaVars>>
       \/ part = "parser" /\ Numeral!Next /\ UNCHANGED <<vars, katakanaVars>>
       \/ part = "commas" /\ Grouped!Next /\ UNCHANGED <<vars, katakanaVars>>
       \/ part = "katakana" /\ Katakana!Next /\ UNCHANGED <<vars, parserVars>>

mcVars == <<part, vars, parserVars, katakanaVars>>
MCSpec == MCInit /\ [][MCNext]_mcVars /\ WF_vars(part = "numerals" /\ Next)

\* However often separators send the loop back, it ends, unless a word of digits
\* has a separator in its form: such a word is read again as a number word, also
\* when separators count as none (pathrewrite.go:50, 62).
NumeralsTerminate == (part = "numerals" /\ SeparatorsApart) ~> done
=============================================================================
