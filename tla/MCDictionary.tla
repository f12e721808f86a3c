---------------------------- MODULE MCDictionary ----------------------------
(***************************************************************************)
(* A dictionary file of any content, its lookups, and the walk of the trie *)
(* in a dictionary whose trie is well-formed. part tells which of the two  *)
(* a behaviour is about.                                                   *)
(***************************************************************************)
EXTENDS DictionaryFile, Bitwise

VARIABLE part     \* "file" or "trie"

\* Three lexicons, two of them with keys that are prefixes or ends of others.
MCLexicons == {{<<1>>, <<1, 2>>, <<2>>}, {<<2, 1, 2>>, <<2>>}, {<<1, 1>>}}
MCBytes == 0 .. 3
MCBitXor(a, b) == a ^^ b

ASSUME TrieAssumption == Lookup!LexiconsAssumption

-----------------------------------------------------------------------------
NoLookup == keys = {} /\ trie = <<>> /\ read = <<>> /\ node = 0 /\ tPc = "end" /\ tK = 0 /\ out = <<>>

MCInit ==
    /\ Init
    /\ \/ part = "file" /\ NoLookup
       \/ part = "trie" /\ size = 0 /\ Lookup!Init

MCNext ==
    \/ part = "file" /\ Next /\ UNCHANGED <<part, trieVars>>
    \/ part = "trie" /\ Lookup!Next /\ UNCHANGED <<part, vars>>

mcVars == <<part, vars, trieVars>>
MCSpec == MCInit /\ [][MCNext]_mcVars
=============================================================================
