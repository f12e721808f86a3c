----------------------------- MODULE MCTokenize -----------------------------
(***************************************************************************)
(* Tokenize: the way to the best path (Tokenizer) and the way from any path *)
(* to the morphemes (Morphemes). part tells which of the two a behaviour is *)
(* about; the other stays in one initial state.                            *)
(***************************************************************************)
EXTENDS MCTokenizer, Morphemes

VARIABLE part     \* "lattice" or "morphemes"

-----------------------------------------------------------------------------
(* A dictionary with words that split well, words whose units are too long  *)
(* or too short or unknown, and one of an unknown part of speech.            *)

Thin == [width |-> 1, cats |-> {"KANJI"}]
Wide == [width |-> 2, cats |-> {"KANJI"}]
TextsOfPaths == {<<Wide, Thin>>, <<Thin, Thin, Thin>>}
AllTexts == MCTexts \cup TextsOfPaths

Word(head, a, b, p) == [head |-> head, unitsA |-> a, unitsB |-> b, pos |-> p]
WordIds == 1 .. 6
MCLexicon == <<Word(1, <<>>, <<>>, 1), Word(2, <<1, 1>>, <<2>>, 1),
               Word(3, <<2, 1>>, <<1, 1, 1>>, 2), Word(3, <<2, 2, 1>>, <<1, 6>>, 1),
               Word(1, <<>>, <<>>, 3)>>
MCPosses == 1 .. 2

-----------------------------------------------------------------------------
latticeVars == <<ends, config, pc, pos, loopVars, at, path>>
pathVars == <<m2o, mode, nodes, splitVars, ms, joins, phase>>

\* One state of what a behaviour is not about.
AnyConfig == /\ conn = CHOOSE m \in Matrices : TRUE
             /\ providers = CHOOSE l \in ProviderLists : TRUE

MCInit ==
    /\ Init
    /\ \/ part = "lattice" /\ chars \in MCTexts /\ NothingMade /\ mode = "C"
       \/ part = "morphemes" /\ chars \in TextsOfPaths /\ AnyConfig /\ MorphemesInit

mcVars == <<part, vars, pathVars>>

MCNext ==
    \/ part = "lattice" /\ Next /\ UNCHANGED <<part, pathVars>>
    \/ part = "morphemes" /\ MorphemesNext /\ UNCHANGED <<part, latticeVars>>
    \/ part = "morphemes" /\ phase \in {"done", "failed"} /\ UNCHANGED mcVars

\* Tokenize is one sequential call: it is never suspended for ever.
MCSpec == MCInit /\ [][MCNext]_mcVars /\ WF_vars(part = "lattice" /\ Next)

\* The search for the best path comes to its answer (tokenizer.go:84).
Answers == (part = "lattice") ~> HasAnswer
=============================================================================
