--------------------------- MODULE DictionaryFile ---------------------------
(***************************************************************************)
(* A dictionary file: Parse and the lookups of one of any content           *)
(* (Dictionary), and the walk of the trie of one whose trie a builder has   *)
(* made (Trie). They share no state: of the sections of a file Dictionary   *)
(* keeps only where they are.                                               *)
(***************************************************************************)
EXTENDS Dictionary

CONSTANTS Lexicons,  \* sets of keys
          Units,     \* units of the trie
          Bytes, MaxRead, MaxUint32, BitXor(_, _)
VARIABLES keys, trie, read, node, tPc, tK, out

trieVars == <<keys, trie, read, node, tPc, tK, out>>

Lookup == INSTANCE Trie WITH Size <- Units, pc <- tPc, k <- tK

\* A lookup yields the words that begin the text, all of them, the shorter
\* first (Trie; trie.go:23, dictionary.go:248).
FoundInOrder == Lookup!FoundInOrder

\* In both the variables have their types: the reader stays in the file, and a
\* lookup starts each leaf at its first word.
TypesOK == TypeOK /\ Lookup!TypeOK
=============================================================================
