------------------------------ MODULE Tokenizer ------------------------------
(***************************************************************************)
(* Tokenize of internal/usecase/tokenize/tokenizer.go up to the best path:  *)
(* the text is built, every position the lattice reaches is offered words   *)
(* of the dictionary and unknown words, each inserted and connected as it   *)
(* comes, and the cheapest path is read back from the end of the text.      *)
(*                                                                         *)
(* The dictionary is not modelled: the words CommonPrefix yields at a       *)
(* position are any short list in ascending order of their ends.            *)
(***************************************************************************)
EXTENDS Oov, Lattice

CONSTANTS ProviderLists, \* what Config.OOV may be: "MeCab", "Simple", in order
          Params,       \* parameters of dictionary words
          Matrices,     \* connection cost matrices
          MaxFound      \* bound: dictionary words found at one position

VARIABLES providers, \* Config.OOV
          pc,        \* where Tokenize is
          pos,       \* bestPath: the position of its loop
          found,     \* bestPath: dictionary words of the position, not inserted yet
          created,   \* bestPath: lengths of the words created at the position
          provider,  \* bestPath: index of the provider in turn
          oovs,      \* provideOOV: its nodes not inserted yet
          at,        \* BestPath: the position and the index its loop is at
          path       \* BestPath: the nodes read back so far, in text order

config == <<conn, providers>>
loopVars == <<found, created, provider, oovs>>
vars == <<textVars, ends, config, pc, pos, loopVars, at, path>>

Node == [begin : Nat, end : Nat, left : ContextIds, right : ContextIds, cost : Int,
         oov : BOOLEAN]
Entry == [node : Node, total : Int, prev : Nat]

Param == [left : ContextIds, right : ContextIds, cost : Int]

\* Config.OOV ends with Simple or does not contain it.
ASSUME TokenizerAssumption ==
    /\ ProviderLists \subseteq Seq({"MeCab", "Simple"}) \ {<<>>}
    /\ \A l \in ProviderLists : \A k \in DOMAIN l : l[k] = "Simple" => k = Len(l)
    /\ Params \subseteq Param /\ SimpleParam \in Param
    /\ FlagOrder \in Seq(Categories)
    /\ \A c \in DOMAIN CategoryInfo :
          CategoryInfo[c].group \in BOOLEAN /\ CategoryInfo[c].length \in Int
    /\ \A c \in DOMAIN Candidates : Candidates[c] \in Seq(Param)
    /\ Matrices \subseteq [ContextIds \X ContextIds -> Int]
    /\ MaxFound \in Nat

\* CreatedWords.With: bits 0 to 63 of a set.
With(c, len) == c \cup {CASE len < 1 -> 0 [] len > 64 -> 63 [] OTHER -> len - 1}

\* What CommonPrefix may yield from byte b: ends are any bytes after b, shortest
\* first, one character or less past b or at a character boundary.
Hits(b) == [end : {b + 1} \cup {ByteOffset(i) : i \in CharIndex(b) + 1 .. CharLen},
            param : Params]
Findings(b) == {f \in UNION {[1 .. n -> Hits(b)] : n \in 0 .. MaxFound} :
                    \A i, j \in DOMAIN f : i < j => f[i].end <= f[j].end}

WordNode(e) ==
    [begin |-> pos, end |-> CharIndex(e.end), left |-> e.param.left,
     right |-> e.param.right, cost |-> e.param.cost, oov |-> FALSE]

Provide(p) == IF p = "MeCab" THEN MeCab(pos, created) ELSE Simple(pos, created)

Init == /\ TextInit
        /\ conn \in Matrices /\ providers \in ProviderLists /\ ends = <<>>
        /\ pc = "build" /\ pos = 0
        /\ found = <<>> /\ created = {} /\ provider = 1 /\ oovs = <<>>
        /\ at = [pos |-> 0, idx |-> 0] /\ path = <<>>

-----------------------------------------------------------------------------
BuildText ==
    /\ pc = "build" /\ Build
    /\ UNCHANGED <<ends, config, pc, pos, loopVars, at, path>>

\* Tokenize returns no morphemes for a text without characters.
ReturnEmpty ==
    /\ pc = "build" /\ Built /\ CharLen = 0
    /\ pc' = "done"
    /\ UNCHANGED <<textVars, ends, config, pos, loopVars, at, path>>

StartBestPath ==
    /\ pc = "build" /\ Built /\ CharLen > 0
    /\ ends' = NewLattice(CharLen)
    /\ pc' = "visit" /\ pos' = 0
    /\ UNCHANGED <<textVars, config, loopVars, at, path>>

SkipPosition_Twice ==
    /\ pc = "visit" /\ pos < CharLen /\ ~HasNodeEndingAt(pos)
    /\ pos' = pos + 2
    /\ UNCHANGED <<textVars, ends, config, pc, loopVars, at, path>>
SkipPosition ==
    /\ pc = "visit" /\ pos < CharLen /\ ~HasNodeEndingAt(pos)
    /\ pos' = pos + 1
    /\ UNCHANGED <<textVars, ends, config, pc, loopVars, at, path>>

LookUp ==
    /\ pc = "visit" /\ pos < CharLen /\ HasNodeEndingAt(pos)
    /\ found' \in Findings(ByteOffset(pos))
    /\ created' = {} /\ pc' = "words"
    /\ UNCHANGED <<textVars, ends, config, pos, provider, oovs, at, path>>

\* A word after which no word may begin is not a candidate.
EndsBadly_Never(e) == FALSE
EndsBadly(e) == e.end < ByteLen /\ ~CanBOW(e.end)

DropWord ==
    /\ pc = "words" /\ found # <<>> /\ EndsBadly(Head(found))
    /\ found' = Tail(found)
    /\ UNCHANGED <<textVars, ends, config, pc, pos, created, provider, oovs, at, path>>

InsertWord ==
    /\ pc = "words" /\ found # <<>> /\ ~EndsBadly(Head(found))
    /\ LET n == WordNode(Head(found))
       IN  Insert(n) /\ created' = With(created, n.end - pos)
    /\ found' = Tail(found)
    /\ UNCHANGED <<textVars, config, pc, pos, provider, oovs, at, path>>

\* Unknown words begin nowhere inside a word.
EndWords_OovAnywhere ==
    /\ pc = "words" /\ found = <<>>
    /\ pc' = "provide" /\ provider' = 1
    /\ UNCHANGED <<textVars, ends, config, pos, found, created, oovs, at, path>>
EndWords ==
    /\ pc = "words" /\ found = <<>>
    /\ IF Has(Category(pos), {NoOOVBOW, NoOOVBOW2})
       THEN pc' = "fallback" /\ UNCHANGED provider
       ELSE pc' = "provide" /\ provider' = 1
    /\ UNCHANGED <<textVars, ends, config, pos, found, created, oovs, at, path>>

CallProvider ==
    /\ pc = "provide" /\ provider <= Len(providers)
    /\ oovs' = Provide(providers[provider]) /\ pc' = "insert"
    /\ UNCHANGED <<textVars, ends, config, pos, found, created, provider, at, path>>

InsertOov ==
    /\ pc \in {"insert", "insertLast"} /\ oovs # <<>>
    /\ Insert(Head(oovs)) /\ oovs' = Tail(oovs)
    /\ created' = With(created, Head(oovs).end - Head(oovs).begin)
    /\ UNCHANGED <<textVars, config, pc, pos, found, provider, at, path>>

NextProvider ==
    /\ pc = "insert" /\ oovs = <<>>
    /\ pc' = "provide" /\ provider' = provider + 1
    /\ UNCHANGED <<textVars, ends, config, pos, found, created, oovs, at, path>>

EndProviders ==
    /\ pc = "provide" /\ provider > Len(providers)
    /\ pc' = "fallback"
    /\ UNCHANGED <<textVars, ends, config, pos, loopVars, at, path>>

NextPosition ==
    /\ pc = "fallback" \/ (pc = "insertLast" /\ oovs = <<>>)
    /\ created # {}
    /\ pc' = "visit" /\ pos' = pos + 1
    /\ UNCHANGED <<textVars, ends, config, loopVars, at, path>>

\* Where nothing was created the last provider is tried (again).
CallLastProvider_First ==
    /\ pc = "fallback" /\ created = {}
    /\ oovs' = Provide(providers[1]) /\ pc' = "insertLast"
    /\ UNCHANGED <<textVars, ends, config, pos, found, created, provider, at, path>>
CallLastProvider ==
    /\ pc = "fallback" /\ created = {}
    /\ oovs' = Provide(providers[Len(providers)]) /\ pc' = "insertLast"
    /\ UNCHANGED <<textVars, ends, config, pos, found, created, provider, at, path>>

FailNoWord ==
    /\ pc = "insertLast" /\ oovs = <<>> /\ created = {}
    /\ pc' = "noWord"
    /\ UNCHANGED <<textVars, ends, config, pos, loopVars, at, path>>

-----------------------------------------------------------------------------
(* BestPath *)

EOS == Connect(ends[CharLen], 0, 0)

ConnectEOS ==
    /\ pc = "visit" /\ pos = CharLen /\ EOS.total # Unreachable
    /\ at' = [pos |-> CharLen, idx |-> EOS.prev]
    /\ pc' = "walk"
    /\ UNCHANGED <<textVars, ends, config, pos, loopVars, path>>

FailNoPath ==
    /\ pc = "visit" /\ pos = CharLen /\ EOS.total = Unreachable
    /\ pc' = "noPath"
    /\ UNCHANGED <<textVars, ends, config, pos, loopVars, at, path>>

Walk ==
    /\ pc = "walk" /\ at.pos > 0
    /\ LET e == ends[at.pos][at.idx]
       IN  /\ path' = <<e.node>> \o path
           /\ at' = [pos |-> e.node.begin, idx |-> e.prev]
    /\ UNCHANGED <<textVars, ends, config, pc, pos, loopVars>>

Return ==
    /\ pc = "walk" /\ at.pos = 0
    /\ pc' = "done"
    /\ UNCHANGED <<textVars, ends, config, pos, loopVars, at, path>>

Finished == pc \in {"done", "noWord", "noPath"} /\ UNCHANGED vars

Next == \/ BuildText \/ ReturnEmpty \/ StartBestPath
        \/ SkipPosition \/ LookUp \/ DropWord \/ InsertWord \/ EndWords
        \/ CallProvider \/ InsertOov \/ NextProvider \/ EndProviders
        \/ NextPosition \/ CallLastProvider \/ FailNoWord
        \/ ConnectEOS \/ FailNoPath \/ Walk \/ Return
        \/ Finished

\* Tokenize is one sequential call: it is never suspended for ever.
Spec == Init /\ [][Next]_vars /\ WF_vars(Next)

-----------------------------------------------------------------------------
(* Properties *)

TypeOK ==
    /\ TextTypeOK
    /\ conn \in Matrices /\ providers \in ProviderLists
    /\ ends = <<>> \/ ends \in [0 .. CharLen -> Seq(Entry)]
    /\ pc \in {"build", "visit", "words", "provide", "insert", "fallback", "insertLast",
               "walk", "done", "noWord", "noPath"}
    /\ pos \in 0 .. CharLen
    /\ found \in Seq([end : Nat, param : Params])
    /\ created \subseteq 0 .. 63
    /\ provider \in 1 .. Len(providers) + 1
    /\ oovs \in Seq(Node)
    /\ at \in [pos : 0 .. CharLen, idx : Nat]
    /\ path \in Seq(Node)

\* What ends at a position is complete when the loop gets there: nothing is
\* added at or before it afterwards. Nodes are connected once, on insertion, and
\* remember their predecessor by index, so a later arrival would be overlooked.
NoLateArrival ==
    [][ends # <<>> => \A p \in 0 .. pos : ends'[p] = ends[p]]_vars

\* Every entry that is reachable accounts for its cost and its place: its
\* predecessor exists, ends where it begins, is reachable itself, and the two
\* costs differ by the connection and the word.
EntriesAccountFor ==
    ends # <<>> => \A p \in 1 .. CharLen : \A i \in DOMAIN ends[p] :
        LET e == ends[p][i]
            b == ends[e.node.begin]
        IN  /\ e.node.end = p /\ e.node.begin < p
            /\ e.total # Unreachable =>
                  /\ e.prev \in DOMAIN b
                  /\ b[e.prev].node.end = e.node.begin
                  /\ b[e.prev].total # Unreachable
                  /\ e.total = Wrap(b[e.prev].total
                                    + conn[<<b[e.prev].node.right, e.node.left>>] + e.node.cost)

\* No candidate stops inside a character or just before a place where no word
\* may begin, whatever the dictionary holds; unknown words of MeCab may do the
\* latter (they follow category runs only), so the claim is about the others.
WordsEndWell ==
    \A n \in Inserted : ~n.oov =>
        n.end = CharLen \/ bow[ByteOffset(n.end) + 1]

\* Unknown words that are not of unk.def: those of Simple.
OfSimple(n) ==
    /\ n.oov
    /\ \A c \in DOMAIN Candidates : \A k \in DOMAIN Candidates[c] :
          n # OovNode(n.begin, n.end, Candidates[c][k])

\* The Simple provider is a last resort: its word stands alone at its position
\* (oov.go:66).
SimpleStandsAlone ==
    \A n, m \in Inserted :
        OfSimple(n) /\ n # m => m.begin # n.begin

\* Where no unknown word may begin, one is created only when no word is there.
NoOovInsideWords ==
    \A n, m \in Inserted :
        n.oov /\ Has(Category(n.begin), {NoOOVBOW, NoOOVBOW2}) /\ ~m.oov
            => m.begin # n.begin

\* A dictionary word is preferred to an unknown word that is in no way cheaper
\* (lattice.go:52: of equal costs the first inserted wins).
DictionaryWordPreferred ==
    pc = "done" => \A k \in DOMAIN path : path[k].oov =>
        [path[k] EXCEPT !.oov = FALSE] \notin Inserted

\* The three rules on candidates together: where a word may end, and where
\* unknown words may be.
CandidatesAllowed == WordsEndWell /\ SimpleStandsAlone /\ NoOovInsideWords

\* The answer of the call: a path when Simple is the last provider, as
\* newTokenizer configures it, whatever the text; MeCab alone may have none.
HasAnswer == pc = "done" \/ (pc \in {"noWord", "noPath"} /\ providers[Len(providers)] # "Simple")

\* Tokenize implements the abstract specification: in particular the path it
\* returns tiles the text at the least cost (lattice.go:72).
Abstract == INSTANCE BestSegmentation
    WITH length <- CharLen, cost <- conn, offered <- Inserted,
         answer <- [kind |-> CASE pc = "done" -> "path"
                               [] pc \in {"noPath", "noWord"} -> pc
                               [] OTHER -> "none",
                    path |-> IF pc = "done" THEN path ELSE <<>>]
MinimalPath == Abstract!SegSpec
=============================================================================
