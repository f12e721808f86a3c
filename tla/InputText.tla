----------------------------- MODULE InputText ------------------------------
(***************************************************************************)
(* The stages of a text before there is a lattice: Builder, which makes any *)
(* edits (TextBuilder), the three plugins, which choose them               *)
(* (InputPlugins), and the indexes of the text that is left (AnalysisText). *)
(* They are independent: what is said of one holds of each state of it,     *)
(* whatever the others do.                                                  *)
(***************************************************************************)
EXTENDS TextBuilder, AnalysisText

CONSTANTS PluginTexts, Characters, Replacement, Ignored, Lower, Nfkc, Marks, Mark,
          Left, Right, Kanji, Reading, MaxReading
VARIABLES pStage, pCurrent, pI, pEdits, runStart, runLen

pluginVars == <<pStage, pCurrent, pI, pEdits, runStart, runLen>>

Plugins == INSTANCE InputPlugins WITH
    Texts <- PluginTexts, stage <- pStage, current <- pCurrent, i <- pI, edits <- pEdits

\* No plugin makes the analysis of a text fail (InputPlugins; builder.go:74).
NeverRejected == Plugins!NeverRejected

\* The normaliser applies its longest rules, at each place (InputPlugins;
\* default.go:16).
LongestRules == Plugins!LongestRules

\* The other two plugins pass over none of what they remove (InputPlugins;
\* prolonged.go:8, yomigana.go:10).
NothingPassedOver == Plugins!NothingPassedOver

\* In each stage the variables have their types: the map has an entry for every
\* byte, the plugins stay inside the text, and so do the edits they register.
TypesOK == TypeOK /\ Plugins!TypeOK /\ TextTypeOK
=============================================================================
