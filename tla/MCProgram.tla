----------------------------- MODULE MCProgram -----------------------------
(***************************************************************************)
(* What surrounds the analysis of a text: the life of the Analyzer, the     *)
(* command, the parts Open makes and the table of char.def. Each is checked *)
(* on its own: part names the one a behaviour is about, and the others stay *)
(* in one of their initial states.                                         *)
(***************************************************************************)
EXTENDS Program

VARIABLE part     \* "analyzer", "command", "setup", "rewrites" or "table"

\* Up to two inputs of up to two lines, of one or two pieces or not analysed.
UpToTwo(S) == UNION {[1 .. k -> S] : k \in 0 .. 2}
MCInputs == UpToTwo(UpToTwo({Bad, 1, 2}))

-----------------------------------------------------------------------------
(* Ids of two bits, and lines of unk.def that name each kind of id; or all *)
(* of a rewrite.def, with an unk.def of one line.                          *)

OneLine == [cat |-> "c1", left |-> 0, right |-> 0, pos |-> "noun"]
UnkLinesOfIds == [cat : {"c1", "c2"}, left : {-3, -1, 1}, right : {-1, 0, 2}, pos : {"noun", "numeral"}]

MCPOSLists == {<<"noun", "symbol", "numeral">>, <<"symbol", "noun", "symbol">>,
               <<"numeral", "noun">>, <<"symbol">>}
MCContextCounts == 1 .. 3
MCUnkLines == UnkLinesOfIds \cup {<<>>}

Rewrites == INSTANCE Setup WITH
    POSLists <- {<<"noun", "symbol", "numeral">>}, ContextCounts <- {2},
    RewriteLines <- {<<<<"a">>>>, <<<<"a", "b">>>>, <<<<"a">>, <<"b">>>>, <<<<"a">>, <<"c">>>>,
                     <<<<"a", "b">>, <<"c">>>>, <<<<"a">>, <<"b">>, <<"c">>>>},
    UnkLines <- {OneLine}, MaxLines <- 3, stage <- sStage, n <- sN

-----------------------------------------------------------------------------
(* Files of lines about eight code points, four of them in the first plane. *)

RangeLines == [kind : {"range"}, lo : {-1, 0, 1, 3}, hi : {-1, 1, 3, 6, 7}, cats : {{"A"}, {"A", "B"}}]
              \cup [kind : {"range"}, lo : {1}, hi : {1}, cats : {{}, {"unknown"}}]
InfoLines == [kind : {"info"}, cat : {"A", "unknown"}, length : {1, 2}]

MCDefLines == RangeLines \cup InfoLines

\* The lines are lines of such files.
ASSUME DefinitionsAssumption ==
    Setup!LinesAssumption /\ Rewrites!LinesAssumption /\ Table!LinesAssumption

-----------------------------------------------------------------------------
SetupAtRest == dict = [posList |-> <<"symbol">>, numLeft |-> 1, numRight |-> 1, open |-> FALSE]
               /\ joinNumeric = FALSE /\ joinKatakana = FALSE
CommandAtRest == inputs = <<<<>>>> /\ stdin = FALSE /\ hasOutput = FALSE

MCInit ==
    /\ part \in {"analyzer", "command", "setup", "rewrites", "table"}
    /\ part \notin {"setup", "rewrites"} => SetupAtRest
    /\ part # "table" => def = <<>>
    /\ part # "analyzer" => careful = TRUE
    /\ part # "command" => CommandAtRest
    /\ Init /\ Table!Init
    /\ IF part = "rewrites" THEN Rewrites!Init ELSE Setup!Init
    /\ CommandInit

MCNext ==
    /\ UNCHANGED part
    /\ \/ /\ part = "analyzer" /\ Next
          /\ UNCHANGED <<setupVars, tableVars, commandVars>>
       \/ /\ part = "setup" /\ Setup!Next
          /\ UNCHANGED <<vars, tableVars, commandVars>>
       \/ /\ part = "rewrites" /\ Rewrites!Next
          /\ UNCHANGED <<vars, tableVars, commandVars>>
       \/ /\ part = "table" /\ Table!Next
          /\ UNCHANGED <<vars, setupVars, commandVars>>
       \/ /\ part = "command" /\ CommandNext
          /\ UNCHANGED <<vars, setupVars, tableVars>>

mcVars == <<part, vars, commandVars, setupVars, tableVars>>
MCSpec == MCInit /\ [][MCNext]_mcVars /\ \A g \in Goroutines : WF_vars(Continue(g))
=============================================================================
