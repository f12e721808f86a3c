------------------------------- MODULE Setup --------------------------------
(***************************************************************************)
(* Open (sudachin.go): the dictionary is opened, and the parts of the       *)
(* tokenizer are made one after the other from the embedded definitions     *)
(* (resource.go) and from what the dictionary knows. The first step that    *)
(* fails ends it, and the dictionary is closed.                             *)
(***************************************************************************)
EXTENDS Integers, SequencesExt

CONSTANTS POSLists,      \* lists of parts of speech a dictionary may have
          ContextCounts, \* numbers of context ids
          RewriteLines,  \* lines rewrite.def may have: their columns
          UnkLines,      \* lines unk.def may have
          MaxLines,      \* bound: lines of a definition
          Categories,
          Bits,          \* width of an id, 16 in the program
          SimpleId       \* both context ids of the Simple provider

VARIABLES stage,         \* the step to come, "close", "ready" or "failed"
          dict,          \* the dictionary: posList, numLeft, numRight, open
          joinNumeric, joinKatakana,    \* the options
          ignore, replace,              \* RewriteDef; replace as a set of pairs
          defs,          \* unk.def, parsed
          cands,         \* candidates of each category
          n,             \* definitions that have become candidates
          simple,        \* the POS id of the Simple provider
          rewriters,     \* path rewriters: a kind and a POS id
          written        \* history: the lines read of the definition

config == <<ignore, replace, defs, cands, n, simple, rewriters>>
vars == <<stage, dict, joinNumeric, joinKatakana, config, written>>

Malformed == <<>>
NoId == -1

\* A dictionary lists parts of speech and counts its context ids; a line of
\* unk.def has numbers for ids and no category the program does not know.
LinesAssumption ==
    /\ \A list \in POSLists : list \in Seq(Range(list))
    /\ ContextCounts \subseteq Int /\ SimpleId \in Int
    /\ \A l \in UnkLines :
           l = Malformed \/ l \in [cat : Categories, left : Int, right : Int, pos : {l.pos}]
    /\ 2 ^ (Bits - 1) \in Nat /\ 2 ^ Bits = 2 * 2 ^ (Bits - 1)

Single(s) == Len(s) = 1   \* a string, a sequence here, is one character

Init ==
    /\ stage = "dictionary"
    /\ \E list \in POSLists, l, r \in ContextCounts :
           dict = [posList |-> list, numLeft |-> l, numRight |-> r, open |-> FALSE]
    /\ joinNumeric \in BOOLEAN /\ joinKatakana \in BOOLEAN
    /\ ignore = {} /\ replace = {} /\ defs = <<>> /\ cands = [c \in Categories |-> <<>>]
    /\ n = 0 /\ simple = NoId /\ rewriters = <<>> /\ written = <<>>

Goto(s) == stage' = s /\ UNCHANGED <<joinNumeric, joinKatakana>>
FailWith == Goto("close") /\ UNCHANGED <<dict, config, written>>

-----------------------------------------------------------------------------
OpenDictionary ==
    /\ stage = "dictionary"
    /\ \/ Goto("chars") /\ dict' = [dict EXCEPT !.open = TRUE]
       \/ Goto("failed") /\ UNCHANGED dict
    /\ UNCHANGED <<config, written>>

CloseDictionary ==
    /\ stage = "close"
    /\ Goto("failed") /\ dict' = [dict EXCEPT !.open = FALSE]
    /\ UNCHANGED <<config, written>>

\* DefaultCharTable: ParseCharDef is in CharTable.
ParseChars ==
    /\ stage = "chars"
    /\ \/ FailWith
       \/ Goto("rewrite") /\ UNCHANGED <<dict, config, written>>

\* ParseRewriteDef: a character not to normalise, or a replacement.
Twice(from) == \E rule \in replace : rule[1] = from

ReadRewriteLine(cols) ==
    /\ stage = "rewrite" /\ Len(written) < MaxLines
    /\ IF \/ Len(cols) \notin 1 .. 2
          \/ Len(cols) = 1 /\ ~Single(cols[1])
          \/ Len(cols) = 2 /\ Twice(cols[1])
       THEN FailWith
       ELSE /\ ignore' = IF Len(cols) = 1 THEN ignore \cup {cols[1]} ELSE ignore
            /\ replace' = IF Len(cols) = 2
                          THEN {rule \in replace : rule[1] # cols[1]} \cup {cols} ELSE replace
            /\ written' = Append(written, cols)
            /\ Goto("rewrite") /\ UNCHANGED <<dict, defs, cands, n, simple, rewriters>>

EndRewrite ==
    /\ stage = "rewrite"
    /\ Goto("unk") /\ written' = <<>> /\ UNCHANGED <<dict, config>>

-----------------------------------------------------------------------------
(* newMeCabOOV *)

\* ParseInt of Bits bits, and the conversion of what it answers.
Parses(i) == i \in -(2 ^ (Bits - 1)) .. 2 ^ (Bits - 1) - 1
Unsigned(i) == IF i < 0 THEN i + 2 ^ Bits ELSE i

\* ParseUnkDef
ReadUnkLine(line) ==
    /\ stage = "unk" /\ Len(written) < MaxLines
    /\ IF line = Malformed \/ ~Parses(line.left) \/ ~Parses(line.right) THEN FailWith
       ELSE /\ defs' = Append(defs, [line EXCEPT !.left = Unsigned(@), !.right = Unsigned(@)])
            /\ written' = Append(written, line)
            /\ Goto("unk") /\ UNCHANGED <<dict, ignore, replace, cands, n, simple, rewriters>>

EndUnk == /\ stage = "unk"
          /\ Goto("candidates") /\ UNCHANGED <<dict, config, written>>

\* POSID: of equal parts of speech the first has the id.
Known(pos) == Contains(dict.posList, pos)
POSID(pos) == SelectInSeq(dict.posList, LAMBDA p : p = pos) - 1

CheckParam_LeftOnly(left, right) == left < dict.numLeft
CheckParam(left, right) == left < dict.numLeft /\ right < dict.numRight

Candidate(def) == [left |-> def.left, right |-> def.right, pos |-> POSID(def.pos)]
AddCandidate(def) == [cands EXCEPT ![def.cat] = Append(@, Candidate(def))]

MakeCandidate ==
    /\ stage = "candidates" /\ n < Len(defs)
    /\ LET def == defs[n + 1]
       IN  IF Known(def.pos) /\ CheckParam(def.left, def.right)
           THEN /\ cands' = AddCandidate(def) /\ n' = n + 1
                /\ Goto("candidates") /\ UNCHANGED <<dict, ignore, replace, defs, simple, rewriters, written>>
           ELSE FailWith

EndCandidates == /\ stage = "candidates" /\ n = Len(defs)
                 /\ Goto("simple") /\ UNCHANGED <<dict, config, written>>

-----------------------------------------------------------------------------
MakeSimple ==
    /\ stage = "simple"
    /\ IF Known("symbol") /\ CheckParam(SimpleId, SimpleId)
       THEN /\ simple' = POSID("symbol") /\ Goto("numeric")
            /\ UNCHANGED <<dict, ignore, replace, defs, cands, n, rewriters, written>>
       ELSE FailWith

\* A path rewriter that an option asks for.
Rewriter(wanted, kind, pos, next) ==
    IF wanted /\ ~Known(pos) THEN FailWith
    ELSE /\ rewriters' = IF wanted THEN Append(rewriters, <<kind, POSID(pos)>>) ELSE rewriters
         /\ Goto(next) /\ UNCHANGED <<dict, ignore, replace, defs, cands, n, simple, written>>

MakeJoinNumeric == stage = "numeric" /\ Rewriter(joinNumeric, "numeric", "numeral", "katakana")
MakeJoinKatakana == stage = "katakana" /\ Rewriter(joinKatakana, "katakana", "noun", "ready")

Next == \/ OpenDictionary \/ CloseDictionary \/ ParseChars
        \/ \E cols \in RewriteLines : ReadRewriteLine(cols)
        \/ EndRewrite
        \/ \E line \in UnkLines : ReadUnkLine(line)
        \/ EndUnk \/ MakeCandidate \/ EndCandidates \/ MakeSimple
        \/ MakeJoinNumeric \/ MakeJoinKatakana

Spec == Init /\ [][Next]_vars

-----------------------------------------------------------------------------
(* Properties *)

Ids == 0 .. 2 ^ Bits - 1

TypeOK ==
    /\ stage \in {"dictionary", "chars", "rewrite", "unk", "candidates", "simple", "numeric",
                  "katakana", "close", "ready", "failed"}
    /\ dict.open \in BOOLEAN /\ n \in 0 .. Len(defs)
    /\ \A i \in DOMAIN defs : defs[i].left \in Ids /\ defs[i].right \in Ids
    /\ simple \in {NoId} \cup 0 .. Len(dict.posList) - 1

\* A tokenizer that is made can propose no unknown word the dictionary cannot
\* weigh: the context ids of every candidate are of its matrix, whatever
\* unk.def says (sudachin.go:200, dictionary.go:154).
CandidatesWeighed ==
    stage = "ready" =>
        /\ SimpleId < dict.numLeft /\ SimpleId < dict.numRight
        /\ \A c \in Categories : \A i \in DOMAIN cands[c] :
               cands[c][i].left < dict.numLeft /\ cands[c][i].right < dict.numRight

\* Its candidates are the lines of unk.def, those of a category in their order,
\* which decides between equal costs; a negative id, which becomes a large one
\* (resource.go:162), never gets there, unless a dictionary has more ids than a
\* positive int16 can name.
CandidatesAsWritten ==
    LET of(c, k) == {m \in 1 .. k : written[m].cat = c}
    IN  (stage = "ready" /\ dict.numLeft <= 2 ^ (Bits - 1) /\ dict.numRight <= 2 ^ (Bits - 1)) =>
            /\ \A c \in Categories : Len(cands[c]) = Cardinality(of(c, Len(written)))
            /\ \A k \in DOMAIN written :
                   LET line == written[k]
                       made == cands[line.cat][Cardinality(of(line.cat, k))]
                   IN  /\ made.left = line.left /\ made.right = line.right
                       /\ dict.posList[made.pos + 1] = line.pos

\* Path rewriters and Simple make words of the part of speech they were given,
\* although a dictionary may list it twice, and the joins that are asked for
\* come in this order: numerals, then katakana.
RewritersAsAsked ==
    LET asked == (IF joinNumeric THEN <<<<"numeric", "numeral">>>> ELSE <<>>)
                 \o (IF joinKatakana THEN <<<<"katakana", "noun">>>> ELSE <<>>)
    IN  stage = "ready" =>
            /\ dict.posList[simple + 1] = "symbol" /\ Len(rewriters) = Len(asked)
            /\ \A k \in DOMAIN asked : /\ rewriters[k][1] = asked[k][1]
                                       /\ dict.posList[rewriters[k][2] + 1] = asked[k][2]

\* What rewrite.def says is what normalisation does: no rule is lost to another
\* for the same string (resource.go:195).
RulesAsWritten ==
    stage = "rewrite" =>
        /\ {cols \in Range(written) : Len(cols) = 2} = replace
        /\ \A r1, r2 \in replace : r1[1] = r2[1] => r1 = r2

\* Whichever step fails, the dictionary is not left open (sudachin.go:88).
FailureCloses == stage = "failed" => ~dict.open

\* Open makes the tokenizer its definitions describe, one the dictionary can
\* serve, or fails and leaves nothing behind.
MadeAsWritten ==
    CandidatesWeighed /\ CandidatesAsWritten /\ RewritersAsAsked /\ RulesAsWritten /\ FailureCloses
=============================================================================
