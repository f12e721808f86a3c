---------------------------- MODULE AnalysisText ----------------------------
(***************************************************************************)
(* The text under analysis of internal/domain/text/text.go: Build scans    *)
(* the characters of the rewritten text once from the left, filling the    *)
(* byte <-> character indexes and the positions where a word may begin,    *)
(* and once from the right, filling the lengths of the category runs.      *)
(*                                                                         *)
(* A character is a record of its width in bytes and its categories, a set *)
(* of category names (internal/domain/chars/category.go: a bit set).       *)
(***************************************************************************)
EXTENDS Integers, Sequences

CONSTANT Texts      \* the sequences of characters Build may be given

Named == {"DEFAULT", "SPACE", "KANJI", "SYMBOL", "NUMERIC", "ALPHA", "HIRAGANA",
          "KATAKANA", "KANJINUMERIC", "GREEK", "CYRILLIC"}    \* chars.All
NonStarting == {"ALPHA", "GREEK", "CYRILLIC"}
NoOOVBOW == "NOOOVBOW"
NoOOVBOW2 == "NOOOVBOW2"
Categories == Named \cup {NoOOVBOW, NoOOVBOW2}

Character == [width : 1 .. 4, cats : SUBSET Categories]

ASSUME TextsAssumption == \A t \in Texts : t \in Seq(Character)

VARIABLES chars,     \* the decoded text
          c2b,       \* c2b[i + 1]: offset of character i; the last is the length
          b2c,       \* b2c[b + 1]: character of byte b; the last is their number
          bow,       \* bow[b + 1]: may a word begin at byte b
          prev,      \* Build: categories of the character before
          nextBOW,   \* Build: no joiner forbids the next character to begin a word
          catRun,    \* catRun of the characters the right-to-left loop has done
          common,    \* Build: categories common to the run
          stage      \* "decode", "runs" or "built"

textVars == <<chars, c2b, b2c, bow, prev, nextBOW, catRun, common, stage>>

\* Category.Has.
Has(a, b) == a \cap b # {}

TextInit ==
    /\ chars \in Texts
    /\ c2b = <<>> /\ b2c = <<>> /\ bow = <<>>
    /\ prev = {} /\ nextBOW = TRUE
    /\ catRun = <<>> /\ common = {} /\ stage = "decode"

-----------------------------------------------------------------------------
(* First loop: one character per step.                                     *)

\* The switch of Build, top to bottom.
CanStart(c) == /\ nextBOW
               /\ ~Has(c, {NoOOVBOW, NoOOVBOW2})
               /\ Has(c, NonStarting) => ~Has(c, prev)

\* A joiner takes effect only when it was not itself suppressed.
NextBOW_Sticky(c) == NoOOVBOW2 \notin c
NextBOW(c) == nextBOW => NoOOVBOW2 \notin c

\* The entries of a character of width w: only its first byte may begin a word.
BowOf(w, b) == [j \in 1 .. w |-> j = 1 /\ b]

IndexOf_Next(w, i) == [j \in 1 .. w |-> IF j = 1 THEN i ELSE i + 1]
IndexOf(w, i) == [j \in 1 .. w |-> i]

Decode ==
    /\ stage = "decode" /\ Len(c2b) < Len(chars)
    /\ LET i == Len(c2b)
           c == chars[i + 1]
       IN  /\ c2b' = Append(c2b, Len(bow))
           /\ b2c' = b2c \o IndexOf(c.width, i)
           /\ bow' = bow \o BowOf(c.width, CanStart(c.cats))
           /\ nextBOW' = NextBOW(c.cats)
           /\ prev' = c.cats
    /\ UNCHANGED <<chars, catRun, common, stage>>

\* The sentinels.
Terminate ==
    /\ stage = "decode" /\ Len(c2b) = Len(chars)
    /\ c2b' = Append(c2b, Len(bow))
    /\ b2c' = Append(b2c, Len(chars))
    /\ stage' = "runs"
    /\ UNCHANGED <<chars, bow, prev, nextBOW, catRun, common>>

-----------------------------------------------------------------------------
(* Second loop: from the last character to the first. catRun holds the     *)
(* entries done so far, so the run of the character after is its head.     *)

JoinsRun_LastOnly(c) == catRun # <<>> /\ Has(c, chars[Len(chars) - Len(catRun) + 1].cats \cap Named)
JoinsRun(c) == catRun # <<>> /\ Has(c, common \cap Named)

ScanRun ==
    /\ stage = "runs" /\ Len(catRun) < Len(chars)
    /\ LET c == chars[Len(chars) - Len(catRun)].cats
       IN  IF JoinsRun(c)
           THEN /\ common' = common \cap c
                /\ catRun' = <<Head(catRun) + 1>> \o catRun
           ELSE /\ common' = c
                /\ catRun' = <<1>> \o catRun
    /\ UNCHANGED <<chars, c2b, b2c, bow, prev, nextBOW, stage>>

FinishRuns ==
    /\ stage = "runs" /\ Len(catRun) = Len(chars)
    /\ stage' = "built"
    /\ UNCHANGED <<chars, c2b, b2c, bow, prev, nextBOW, catRun, common>>

Build == Decode \/ Terminate \/ ScanRun \/ FinishRuns

TextSpec == TextInit /\ [][Build]_textVars

-----------------------------------------------------------------------------
(* Methods of a built text. Character and byte positions count from 0.     *)

CharLen == Len(chars)
ByteLen == Len(bow)
Category(i) == chars[i + 1].cats
CategoryRun(i) == catRun[i + 1]
ByteOffset(i) == c2b[i + 1]
CharIndex(b) == b2c[b + 1]
CanBOW(b) == b < ByteLen /\ bow[b + 1]

\* Characters from i to the next position where a word may begin.
WordCandidateLength(i) ==
    CHOOSE n \in 1 .. CharLen - i :
        /\ i + n = CharLen \/ bow[ByteOffset(i + n) + 1]
        /\ \A m \in 1 .. n - 1 : ~bow[ByteOffset(i + m) + 1]

-----------------------------------------------------------------------------
(* Properties *)

TextTypeOK ==
    /\ chars \in Seq(Character)
    /\ c2b \in Seq(Nat) /\ b2c \in Seq(Nat) /\ bow \in Seq(BOOLEAN)
    /\ stage = "decode" => Len(b2c) = Len(bow) /\ Len(c2b) <= Len(chars)
    /\ prev \subseteq Categories /\ nextBOW \in BOOLEAN
    /\ catRun \in Seq(Nat) /\ common \subseteq Categories
    /\ stage \in {"decode", "runs", "built"}

Built == stage = "built"

\* The two indexes agree: a byte belongs to the character whose bytes enclose
\* it, and the sentinels are each other's (text.go:19-22). PathNode byte and
\* character ranges are converted back and forth with them.
IndexesAgree ==
    Built =>
        /\ Len(c2b) = CharLen + 1 /\ Len(b2c) = ByteLen + 1
        /\ \A i \in 0 .. CharLen : CharIndex(ByteOffset(i)) = i
        /\ \A b \in 0 .. ByteLen - 1 :
              ByteOffset(CharIndex(b)) <= b /\ b < ByteOffset(CharIndex(b) + 1)

\* The number of characters directly before i that carry NOOOVBOW2.
JoinersBefore(i) ==
    CHOOSE n \in 0 .. i :
        /\ \A m \in 1 .. n : NoOOVBOW2 \in Category(i - m)
        /\ n = i \/ NoOOVBOW2 \notin Category(i - n - 1)

\* Where a word may begin, said of the text alone: a joiner binds the next
\* character to what is before it, and a joiner that was so bound binds
\* nothing; a character that only continues a word begins none; a letter
\* begins one only after a character of no category of its own. No word begins
\* inside a character, which is what makes CanBOW(e.End) reject a dictionary
\* word that ends inside one (tokenizer.go:106).
BOWMatchesText ==
    Built => \A b \in 0 .. ByteLen - 1 :
        LET i == CharIndex(b)
        IN  CanBOW(b) <=>
                /\ ByteOffset(i) = b
                /\ JoinersBefore(i) % 2 = 0
                /\ ~Has(Category(i), {NoOOVBOW, NoOOVBOW2})
                /\ Has(Category(i), NonStarting) =>
                      i = 0 \/ ~Has(Category(i), Category(i - 1))

\* Categories common to the n characters from i.
CommonOf(i, n) == {c \in Named : \A m \in 0 .. n - 1 : c \in Category(i + m)}

\* A run stays in the text, one category is common to all of it, and no run
\* could have started one character earlier than it does: the candidate words
\* MeCab groups are of one category.
CatRunSound ==
    Built => \A i \in 0 .. CharLen - 1 :
        /\ CategoryRun(i) >= 1 /\ i + CategoryRun(i) <= CharLen
        /\ CategoryRun(i) > 1 => CommonOf(i, CategoryRun(i)) # {}
        /\ i > 0 /\ CategoryRun(i - 1) = 1 =>
              CommonOf(i - 1, CategoryRun(i) + 1) = {}

\* What the comments of text.go say (lines 17 and 112): the number of
\* characters from i for which a common category continues. It does not hold:
\* the loop from the right may have spent the character after i on the run of
\* another category.
CatRunAsDocumented ==
    Built => \A i \in 0 .. CharLen - 1 :
        i + CategoryRun(i) < CharLen => CommonOf(i, CategoryRun(i) + 1) = {}
=============================================================================
