----------------------------- MODULE Dictionary -----------------------------
(***************************************************************************)
(* The dictionary file (internal/infrastructure/dicfile): Parse, which finds *)
(* its sections with a reader that remembers its first failure, and the     *)
(* lookups, which read them. Nothing is assumed of the file: every number   *)
(* read from it is any number of its width that the instance has. An int is *)
(* 64 bits wide, so that no size computed in one overflows; the two places  *)
(* computed in a uint32, in rawInfo and unit, wrap.                         *)
(***************************************************************************)
EXTENDS Integers, Sequences

CONSTANTS Lengths,           \* of the file
          U8s, U16s, U32s,   \* what a byte, a uint16, a uint32 may be
          TwoTo32,           \* what a uint32 wraps at
          StringLengths      \* what varLen may answer

ASSUME NumbersAssumption ==
    /\ Lengths \subseteq Nat /\ U8s \subseteq Nat /\ U16s \subseteq Nat
    /\ TwoTo32 \in Nat \ {0} /\ U32s \subseteq 0 .. TwoTo32 - 1 /\ StringLengths \subseteq Nat

VARIABLES size,              \* len(data)
          stage,             \* what Parse reads next, "open" or "failed"
          r,                 \* the reader of Parse
          names,             \* names of parts of speech left to read
          sections,          \* the slices Parse has taken
          numLeft, numRight, numWords, hasSynonymID,
          info,              \* Info: the word it reads, "" when there is none
          access             \* history: the bytes the last step read, and where they belong

parsed == <<size, stage, r, names, sections, numLeft, numRight, numWords, hasSynonymID>>
vars == <<parsed, info, access>>

descriptionSize == 256
POSDepth == 6

Sections == {"matrix", "trie", "table", "params", "offsets"}
Slice == [at : Nat, len : Nat]
Nil == [at |-> 0, len |-> 0]
NoAccess == [of |-> "file", at |-> 0, len |-> 0]
NoWord == [num |-> 0, field |-> 0, pos |-> 0, err |-> FALSE, base |-> FALSE, form |-> -1]

Init ==
    /\ size \in Lengths /\ stage = "header" /\ r = [pos |-> 0, err |-> FALSE] /\ names = 0
    /\ sections = [s \in Sections |-> Nil]
    /\ numLeft = 0 /\ numRight = 0 /\ numWords = 0 /\ hasSynonymID = FALSE
    /\ info = NoWord /\ access = NoAccess

-----------------------------------------------------------------------------
(* reader: pos and err, and after a failure nothing is read any more        *)

Take_Unchecked(rd, n) == [rd EXCEPT !.pos = rd.pos + n]
Take(rd, n) ==
    IF rd.err \/ rd.pos + n > size THEN [rd EXCEPT !.err = TRUE] ELSE [rd EXCEPT !.pos = rd.pos + n]

\* The slice a take returns, and the number one returns: nil and zero where it fails.
Taken(rd, n) == IF Take(rd, n).err THEN Nil ELSE [at |-> rd.pos, len |-> n]
Number(rd, n, v) == IF Take(rd, n).err THEN 0 ELSE v

\* utf16String: its length in one byte or two, then its units.
TakeString(rd, bytes, n) == Take(Take(rd, bytes), 2 * Number(rd, bytes, n))
\* u32Array
TakeArray(rd, n) == Take(Take(rd, 1), 4 * Number(rd, 1, n))

-----------------------------------------------------------------------------
(* Parse *)

ReadHeader ==
    /\ stage = "header"
    /\ r' = Take(Take(Take(r, 8), 8), descriptionSize)
    /\ \E version \in {"V1", "V2", "other"} :
           /\ stage' = IF r'.err \/ version = "other" THEN "failed" ELSE "grammar"
           /\ hasSynonymID' = (version = "V2")
    /\ UNCHANGED <<size, names, sections, numLeft, numRight, numWords, info, access>>

CountPOS ==
    /\ stage = "grammar"
    /\ \E n \in U16s : names' = POSDepth * Number(r, 2, n)
    /\ r' = Take(r, 2) /\ stage' = "names"
    /\ UNCHANGED <<size, sections, numLeft, numRight, numWords, hasSynonymID, info, access>>

ReadPOSName ==
    /\ stage = "names" /\ names > 0
    /\ \E bytes \in 1 .. 2, n \in StringLengths : r' = TakeString(r, bytes, n)
    /\ names' = names - 1
    /\ UNCHANGED <<size, stage, sections, numLeft, numRight, numWords, hasSynonymID, info, access>>

ReadMatrix ==
    /\ stage = "names" /\ names = 0
    /\ LET rd == Take(Take(r, 2), 2)
       IN  /\ \E n, m \in U16s : /\ numLeft' = Number(r, 2, n)
                                 /\ numRight' = Number(Take(r, 2), 2, m)
           /\ sections' = [sections EXCEPT !["matrix"] = Taken(rd, 2 * numLeft' * numRight')]
           /\ r' = Take(rd, 2 * numLeft' * numRight')
    /\ stage' = IF r'.err THEN "failed" ELSE "trie"
    /\ UNCHANGED <<size, names, numWords, hasSynonymID, info, access>>

\* A count, then as many units.
ReadUnits(section, unit, n) ==
    LET rd == Take(r, 4)
        len == unit * Number(r, 4, n)
    IN  /\ sections' = [sections EXCEPT ![section] = Taken(rd, len)]
        /\ r' = Take(rd, len)

ReadTrie ==
    /\ stage = "trie"
    /\ \E n \in U32s : ReadUnits("trie", 4, n)
    /\ stage' = "table"
    /\ UNCHANGED <<size, names, numLeft, numRight, numWords, hasSynonymID, info, access>>

ReadTable ==
    /\ stage = "table"
    /\ \E n \in U32s : ReadUnits("table", 1, n)
    /\ stage' = "words"
    /\ UNCHANGED <<size, names, numLeft, numRight, numWords, hasSynonymID, info, access>>

\* The last error of the lexicon is looked at only here.
Accepted_AnyTrie == ~r'.err
Accepted_Unread == sections["trie"].len # 0
Accepted == ~r'.err /\ sections["trie"].len # 0

ReadWords ==
    /\ stage = "words"
    /\ \E n \in U32s : numWords' = Number(r, 4, n)
    /\ LET rd == Take(r, 4)
       IN  /\ sections' = [sections EXCEPT !["params"] = Taken(rd, 6 * numWords'),
                                           !["offsets"] = Taken(Take(rd, 6 * numWords'), 4 * numWords')]
           /\ r' = Take(Take(rd, 6 * numWords'), 4 * numWords')
    /\ stage' = IF Accepted THEN "open" ELSE "failed"
    /\ UNCHANGED <<size, names, numLeft, numRight, hasSynonymID, info, access>>

-----------------------------------------------------------------------------
(* The lookups *)

Idle == stage = "open" /\ info.field = 0 /\ UNCHANGED <<parsed, info>>
Access(section, at, len) == access' = [of |-> section, at |-> at, len |-> len]

\* CheckParam and ConnectCost.
CheckParam(p) == p.left < numLeft /\ p.right < numRight
Cell(left, right) == 2 * (right * numLeft + left)
InMatrix(i) == i + 2 <= sections["matrix"].len

\* 4*num of a uint32.
At(num) == (4 * num) % TwoTo32

ConnectCost ==
    /\ Idle
    /\ \E left, right \in U16s : IF InMatrix(Cell(left, right))
                                 THEN Access("matrix", Cell(left, right), 2) ELSE access' = NoAccess

Param ==
    /\ Idle
    /\ \E num \in U32s : IF 6 * num + 6 <= sections["params"].len
                         THEN Access("params", 6 * num, 6) ELSE access' = NoAccess

\* unit, which CommonPrefix walks the trie by.
Unit ==
    /\ Idle
    /\ \E i \in U32s : IF i < sections["trie"].len \div 4
                       THEN Access("trie", At(i), 4) ELSE access' = NoAccess

\* wordIDs, of any value a unit may have.
WordIDs ==
    /\ Idle
    /\ \E i \in U32s, n \in U8s :
           LET rest == (sections["table"].len - i - 1) \div 4
           IN  IF i < sections["table"].len
               THEN Access("table", i, 1 + 4 * (IF n < rest THEN n ELSE rest))
               ELSE access' = NoAccess

\* rawInfo, of the word itself or of its dictionary form.
StartInfo(num, base) ==
    IF num < numWords
    THEN /\ Access("offsets", At(num), 4)
         /\ \E off \in U32s :
                info' = [NoWord EXCEPT !.num = num, !.field = 1, !.pos = off, !.base = base]
    ELSE access' = NoAccess /\ info' = NoWord

Info ==
    /\ stage = "open" /\ info.field = 0
    /\ \E num \in U32s : StartInfo(num, FALSE)
    /\ UNCHANGED parsed

\* Its fields, in order; the synonyms are of version 2 only.
Fields == <<"string", "length", "u16", "string", "form", "string", "array", "array", "array", "array">>
LastField == IF hasSynonymID THEN 10 ELSE 9
Reading == stage = "open" /\ info.field > 0

ReadField ==
    /\ Reading /\ info.field <= LastField
    /\ LET kind == Fields[info.field]
           at == [pos |-> info.pos, err |-> info.err]
       IN  \E bytes \in 1 .. 2, n \in StringLengths, k \in U8s, form \in U32s \cup {-1} :
               LET rd == CASE kind = "string" -> TakeString(at, bytes, n)
                           [] kind = "length" -> Take(at, bytes)
                           [] kind = "u16"    -> Take(at, 2)
                           [] kind = "form"   -> Take(at, 4)
                           [] OTHER           -> TakeArray(at, k)
               IN  /\ info' = [info EXCEPT !.field = @ + 1, !.pos = rd.pos, !.err = rd.err,
                                           !.form = IF kind = "form" THEN form ELSE @]
                   /\ IF rd.err THEN access' = NoAccess ELSE Access("file", at.pos, rd.pos - at.pos)
    /\ UNCHANGED parsed

\* Info reads the dictionary form of the word, too, but not that one's own.
EndInfo ==
    /\ Reading /\ info.field > LastField
    /\ IF ~info.err /\ ~info.base /\ info.form >= 0 /\ info.form # info.num
       THEN StartInfo(info.form, TRUE)
       ELSE info' = NoWord /\ access' = NoAccess
    /\ UNCHANGED parsed

Next == \/ ReadHeader \/ CountPOS \/ ReadPOSName \/ ReadMatrix \/ ReadTrie \/ ReadTable \/ ReadWords
        \/ ConnectCost \/ Param \/ Unit \/ WordIDs \/ Info \/ ReadField \/ EndInfo

Spec == Init /\ [][Next]_vars
-----------------------------------------------------------------------------
(* Properties *)

Stages == {"header", "grammar", "names", "trie", "table", "words", "open", "failed"}

TypeOK ==
    /\ size \in Nat /\ stage \in Stages /\ r \in [pos : 0 .. size, err : BOOLEAN] /\ names \in Nat
    /\ sections \in [Sections -> Slice]
    /\ numLeft \in Nat /\ numRight \in Nat /\ numWords \in Nat /\ hasSynonymID \in BOOLEAN
    /\ info \in [num : Nat, field : 0 .. 11, pos : Nat, err : BOOLEAN, base : BOOLEAN, form : Int]
    /\ access \in [of : Sections \cup {"file"}, at : Nat, len : Nat]

\* A dictionary that opens has its sections in the file, one after the other
\* and whole: the matrix a cost for every pair, the word tables an entry for
\* every word, the trie a root (dictionary.go:127-149).
Ends(s) == sections[s].at + sections[s].len
LaidOut ==
    stage = "open" =>
        /\ Ends("matrix") <= sections["trie"].at /\ Ends("trie") <= sections["table"].at
        /\ Ends("table") <= sections["params"].at /\ Ends("params") <= sections["offsets"].at
        /\ Ends("offsets") <= size
        /\ sections["matrix"].len = 2 * numLeft * numRight /\ sections["trie"].len > 0
        /\ sections["params"].len = 6 * numWords /\ sections["offsets"].len = 4 * numWords

\* Whatever the file holds and whatever is asked for, a lookup reads inside
\* the section it is about: rawInfo compares the word with the count of the
\* words, not with the table it indexes (dictionary.go:216).
AccessInside == access.at + access.len <= IF access.of = "file" THEN size ELSE sections[access.of].len

\* CheckParam lets in a parameter only if its ids are in the matrix
\* (dictionary.go:153); left of another word its right id is the column, right
\* of another its left id the row (lattice.go:64).
Params == [left : U16s, right : U16s]
CheckedInMatrix ==
    stage = "open" =>
        \A p, q \in Params : CheckParam(p) /\ CheckParam(q) => InMatrix(Cell(p.right, q.left))
=============================================================================
