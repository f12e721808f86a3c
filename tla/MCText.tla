------------------------------- MODULE MCText -------------------------------
(***************************************************************************)
(* The stages a text goes through before there is a lattice, each on its   *)
(* own small inputs, so that a stage meets more than what the one before   *)
(* can hand it: Builder with any replacements, the three plugins, and the  *)
(* indexes of the text under analysis. part names the stage a behaviour is *)
(* about; the others stay as they are for an empty text.                   *)
(***************************************************************************)
EXTENDS InputText, MCAnalysisText

CONSTANT MaxPluginText     \* bound: characters of a text the plugins rewrite

VARIABLE part     \* "builder", "plugins" or "analysis"

\* One and two byte characters, so that edits delete, shrink, grow and split.
One == <<TRUE>>
Two == <<TRUE, FALSE>>
MCOriginals == {<<>>, One \o One, Two \o One}
MCWiths == {<<>>, One, Two}

-----------------------------------------------------------------------------
(* "A" and "a" are a wide and a narrow letter, "~" is a mark by            *)
(* compatibility, "K" a kanji, "k" a letter of its reading, and "^" is     *)
(* both, as a character of every category is.                              *)

Letters == {"K", "(", ")", "k", "A", "a", "-", "~"}
Bracketed == {"K", "(", ")", "k", "^"}
PluginCharacters == Letters \cup Bracketed
MCPluginTexts == UNION {[1 .. n -> Letters] \cup [1 .. n -> Bracketed] : n \in 0 .. MaxPluginText}
Rules == [key \in {<<"k">>, <<"k", "-">>, <<"A", "-", "(">>, <<"a", "k">>} |->
    CASE key = <<"k">> -> <<"k">> [] key = <<"k", "-">> -> <<"-">>
      [] key = <<"a", "k">> -> <<"K", "k">> [] OTHER -> <<"a">>]
MCLower == [c \in PluginCharacters |-> IF c = "A" THEN "a" ELSE c]
MCNfkc == [c \in PluginCharacters |->
              CASE c = "~" -> <<"-", "-">> [] c = "A" -> <<"a">> [] OTHER -> <<c>>]
MCMark == <<"-">>

ASSUME PluginsAssumption == Plugins!RulesAssumption

-----------------------------------------------------------------------------
MCInit ==
    /\ part \in {"builder", "plugins", "analysis"}
    /\ part # "plugins" => pCurrent = <<>>
    /\ part # "analysis" => chars = <<>>
    /\ part # "builder" => original = <<>>
    /\ Init /\ Plugins!Init /\ TextInit

MCNext ==
    \/ part = "builder" /\ Next /\ UNCHANGED <<part, pluginVars, textVars>>
    \/ part = "plugins" /\ Plugins!Next /\ UNCHANGED <<part, vars, textVars>>
    \/ part = "analysis" /\ Build /\ UNCHANGED <<part, vars, pluginVars>>

mcVars == <<part, vars, pluginVars, textVars>>
MCSpec == MCInit /\ [][MCNext]_mcVars
=============================================================================
