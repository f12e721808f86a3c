---------------------------- MODULE InputPlugins ----------------------------
(***************************************************************************)
(* The plugins that rewrite a text before it is analysed                    *)
(* (internal/adapter/plugin/inputtext), one after the other, as newTokenizer *)
(* sets them up: the normaliser, the prolonged sound marks, the readings in *)
(* brackets. A plugin reads the text from its start and registers edits,    *)
(* a step being an iteration of its loop; Builder.Rewrite then applies them, *)
(* or fails where they are out of order (TextBuilder has the bytes of it).  *)
(*                                                                         *)
(* Offsets count characters: i is the offset the plugin has read up to, and *)
(* current[i + 1] the character there.                                      *)
(***************************************************************************)
EXTENDS Integers, Sequences, SequencesExt

CONSTANTS Texts, Characters,
          Replacement,                  \* rewrite.def: from strings to strings
          Ignored,                      \* rewrite.def: not normalised
          Lower, Nfkc,                  \* of a character: the character, the string
          Marks, Mark,                  \* the sound marks, what a run of them becomes
          Left, Right, Kanji, Reading,  \* what IgnoreYomigana tells apart
          MaxReading                    \* its maxLength

VARIABLES stage,    \* the plugin at work, or how it ended
          current,  \* Builder.current
          i,
          edits,    \* Editor.edits
          runStart, runLen  \* ProlongedSoundMark.Rewrite: the marks before i

vars == <<stage, current, i, edits, runStart, runLen>>

\* What the rules, the marks and the table of characters are: no rule is for
\* nothing, a run of marks becomes no run of marks, a kanji is no mark and no
\* bracket, and a bracket is of one kind and no letter of a reading (sudachin.go:155,
\* char.def). A character can be a kanji and a letter of a reading: a combining mark,
\* a joiner or a variation selector is (char.def:168).
RulesAssumption ==
    /\ Texts \subseteq Seq(Characters)
    /\ DOMAIN Replacement \subseteq Seq(Characters) \ {<<>>} /\ IsFiniteSet(DOMAIN Replacement)
    /\ Replacement \in [DOMAIN Replacement -> Seq(Characters)]
    /\ Lower \in [Characters -> Characters] /\ Nfkc \in [Characters -> Seq(Characters)]
    /\ Mark \in Seq(Characters)
    /\ \A k \in 1 .. Len(Mark) - 1 : ~(Mark[k] \in Marks /\ Mark[k + 1] \in Marks)
    /\ Kanji \cap (Left \cup Right \cup Marks) = {}
    /\ Left \cap (Right \cup Reading) = {} /\ Right \cap Reading = {}
    /\ MaxReading \in Int

Stages == {"normalize", "marks", "yomigana", "done", "failed"}
Edit == [begin : Nat, end : Nat, with : Seq(Characters)]

Init ==
    /\ stage = "normalize" /\ current \in Texts
    /\ i = 0 /\ edits = <<>> /\ runStart = 0 /\ runLen = 0

\* Editor.Replace.
Replaced(begin, end, with) == Append(edits, [begin |-> begin, end |-> end, with |-> with])

Reads(plugin) == stage = plugin /\ i < Len(current)

-----------------------------------------------------------------------------
(* Normalizer                                                               *)

Text(begin, end) == SubSeq(current, begin + 1, end)

KeyLens(c) == {Len(key) : key \in {k \in DOMAIN Replacement : k[1] = c}}

\* maxKeyLen, of the keys that start with a character.
MaxKeyLen_Any(c) == CHOOSE n \in KeyLens(c) : TRUE
MaxKeyLen(c) == Max(KeyLens(c))

\* longestReplacement answers the key from i to end.
IsLongest(end) ==
    LET c == current[i + 1]
        limit == Min({MaxKeyLen(c), Len(current) - i})
    IN  /\ KeyLens(c) # {} /\ end \in i + 1 .. i + limit
        /\ Text(i, end) \in DOMAIN Replacement
        /\ \A l \in end + 1 .. i + limit : Text(i, l) \notin DOMAIN Replacement

NormalizeRune(c) ==
    IF c \in Ignored \/ Nfkc[c] = <<c>> THEN <<Lower[c]>> ELSE Nfkc[Lower[c]]

After_FirstChar(end) == i + 1
After(end) == end

ReplaceKey ==
    /\ Reads("normalize")
    /\ \E end \in i + 1 .. Len(current) :
           /\ IsLongest(end)
           /\ edits' = Replaced(i, end, Replacement[Text(i, end)]) /\ i' = After(end)
    /\ UNCHANGED <<stage, current, runStart, runLen>>

NormalizeChar ==
    /\ Reads("normalize") /\ \A end \in i + 1 .. Len(current) : ~IsLongest(end)
    /\ LET c == current[i + 1]
       IN  edits' = IF NormalizeRune(c) = <<c>> THEN edits ELSE Replaced(i, i + 1, NormalizeRune(c))
    /\ i' = i + 1
    /\ UNCHANGED <<stage, current, runStart, runLen>>

-----------------------------------------------------------------------------
(* ProlongedSoundMark                                                       *)

\* flush(i)
Flushed_PairsKept == IF runLen > 2 THEN Replaced(runStart, i, Mark) ELSE edits
Flushed == IF runLen > 1 THEN Replaced(runStart, i, Mark) ELSE edits

ReadMark ==
    /\ Reads("marks") /\ current[i + 1] \in Marks
    /\ runStart' = (IF runLen = 0 THEN i ELSE runStart) /\ runLen' = runLen + 1
    /\ i' = i + 1
    /\ UNCHANGED <<stage, current, edits>>

ReadOther ==
    /\ Reads("marks") /\ current[i + 1] \notin Marks
    /\ edits' = Flushed /\ runLen' = 0 /\ i' = i + 1
    /\ UNCHANGED <<stage, current, runStart>>

-----------------------------------------------------------------------------
(* IgnoreYomigana                                                           *)

\* matchYomigana(current, begin) answers end.
IsYomigana(begin, end) ==
    /\ begin + 3 <= end /\ end <= Len(current) /\ end - begin - 2 <= MaxReading
    /\ current[begin + 1] \in Left /\ current[end] \in Right \ Reading
    /\ \A k \in begin + 2 .. end - 1 : current[k] \in Reading

DropReading ==
    /\ Reads("yomigana") /\ current[i + 1] \in Kanji
    /\ \E end \in i + 4 .. Len(current) :
           /\ IsYomigana(i + 1, end)
           /\ edits' = Replaced(i + 1, end, <<>>) /\ i' = end
    /\ UNCHANGED <<stage, current, runStart, runLen>>

ReadOn ==
    /\ Reads("yomigana")
    /\ current[i + 1] \in Kanji => \A end \in i + 4 .. Len(current) : ~IsYomigana(i + 1, end)
    /\ i' = i + 1
    /\ UNCHANGED <<stage, current, edits, runStart, runLen>>

-----------------------------------------------------------------------------
(* Builder.Rewrite, once the plugin has read the text                       *)

Registered == IF stage = "marks" THEN Flushed ELSE edits

InOrder(es) ==
    \A k \in DOMAIN es : /\ es[k].begin <= es[k].end /\ es[k].end <= Len(current)
                         /\ k > 1 => es[k - 1].end <= es[k].begin

Applied(es) ==
    FlattenSeq([k \in DOMAIN es |->
        Text(IF k = 1 THEN 0 ELSE es[k - 1].end, es[k].begin) \o es[k].with])
    \o Text(IF es = <<>> THEN 0 ELSE es[Len(es)].end, Len(current))

Rewind_KeepsOffset == edits' = <<>> /\ UNCHANGED <<i, runStart, runLen>>
Rewind == i' = 0 /\ edits' = <<>> /\ runStart' = 0 /\ runLen' = 0

Apply ==
    /\ stage \in {"normalize", "marks", "yomigana"} /\ i = Len(current)
    /\ IF InOrder(Registered)
       THEN /\ current' = Applied(Registered)
            /\ stage' = CASE stage = "normalize" -> "marks" [] stage = "marks" -> "yomigana"
                          [] OTHER -> "done"
       ELSE stage' = "failed" /\ UNCHANGED current
    /\ Rewind

Next == ReplaceKey \/ NormalizeChar \/ ReadMark \/ ReadOther \/ DropReading \/ ReadOn \/ Apply

Spec == Init /\ [][Next]_vars
-----------------------------------------------------------------------------
(* Properties *)

TypeOK ==
    /\ stage \in Stages /\ current \in Seq(Characters) /\ i \in 0 .. Len(current)
    /\ edits \in Seq(Edit) /\ runStart \in 0 .. i /\ runLen \in 0 .. i

\* No plugin makes the analysis of a text fail: Rewrite rejects edits that
\* overlap (builder.go:74), and each plugin registers them in the order of
\* the text, apart.
NeverRejected == stage # "failed"

\* Whatever the rules of rewrite.def are, an edit of the normaliser is its
\* longest rule there is at that place, or one character no rule is for, and
\* no place is left out where a rule begins (default.go:16).
RuleAt(begin, end) == Text(begin, end) \in DOMAIN Replacement
LongestRules ==
    stage = "normalize" =>
        /\ \A k \in DOMAIN edits :
               LET b == edits[k].begin e == edits[k].end
               IN  /\ RuleAt(b, e) \/ e = b + 1
                   /\ \A l \in 1 .. Len(current) : l > e \/ (l > b /\ ~RuleAt(b, e)) => ~RuleAt(b, l)
        /\ \A b \in 0 .. i - 1 :
               (\E e \in b + 1 .. Len(current) : RuleAt(b, e)) =>
                   \E k \in DOMAIN edits : edits[k].begin <= b /\ b < edits[k].end

\* Two sound marks are never left side by side, also not where another plugin
\* brought them together (prolonged.go:8).
MarksApart ==
    stage \in {"yomigana", "done"} =>
        \A k \in 1 .. Len(current) - 1 : ~(current[k] \in Marks /\ current[k + 1] \in Marks)

\* The readings that are dropped are those in brackets after a kanji, and not
\* longer than maxLength; none is passed over (yomigana.go:10).
ReadingsDropped ==
    stage = "yomigana" /\ i = Len(current) =>
        \A b, e \in 1 .. Len(current) :
            (current[b] \in Kanji /\ b < e /\ current[b + 1] \in Left /\ current[e] \in Right
             /\ e - b - 2 \in 1 .. MaxReading /\ \A k \in b + 2 .. e - 1 : current[k] \in Reading)
            <=> \E k \in DOMAIN edits : edits[k] = [begin |-> b, end |-> e, with |-> <<>>]

\* The two plugins that remove something pass over none of it.
NothingPassedOver == MarksApart /\ ReadingsDropped
=============================================================================
