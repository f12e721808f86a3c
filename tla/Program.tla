------------------------------ MODULE Program -------------------------------
(***************************************************************************)
(* What surrounds the analysis of a text: the life of the Analyzer, the     *)
(* command that owns one, the parts Open makes (Setup) and the table of     *)
(* char.def (CharTable). They share no state: Open has returned before an   *)
(* analysis begins, and the table is complete before it is used.            *)
(***************************************************************************)
EXTENDS Analyzer, CommandLine

CONSTANTS POSLists, ContextCounts, RewriteLines, UnkLines, MaxLines, Categories, Bits, SimpleId
VARIABLES sStage, dict, joinNumeric, joinKatakana, ignore, replace, defs, cands, sN, simple,
          rewriters, written

setupVars == <<sStage, dict, joinNumeric, joinKatakana, ignore, replace, defs, cands, sN, simple,
               rewriters, written>>

Setup == INSTANCE Setup WITH stage <- sStage, n <- sN

\* Open makes the tokenizer its definitions describe, or fails and leaves
\* nothing behind (Setup; sudachin.go:77).
MadeAsWritten == Setup!MadeAsWritten

-----------------------------------------------------------------------------
CONSTANTS DefLines,        \* lines char.def may have
          MaxDefinition,   \* bound: lines of char.def
          MaxRune, BmpSize
VARIABLES def, tN, ranges, infos, starts, cats, bmp, tStage

tableVars == <<def, tN, ranges, infos, starts, cats, bmp, tStage>>

Table == INSTANCE CharTable WITH
    Lines <- DefLines, MaxLines <- MaxDefinition, stage <- tStage, n <- tN

\* The table is what char.def says, or there is none (CharTable; table.go:14).
TableAsDefined == Table!TableAsDefined

\* In each part the variables have their types: no release without a mapping,
\* no id outside its width, no bound of a range twice, no buffer past its size.
TypesOK == TypeOK /\ CommandTypeOK /\ Setup!TypeOK /\ Table!TypeOK
=============================================================================
