-------------------------------- MODULE Trie --------------------------------
(***************************************************************************)
(* CommonPrefix (internal/infrastructure/dicfile): the walk of the double   *)
(* array, byte by byte, that yields every word of the dictionary that       *)
(* begins here. b[offset:] is given as it is read, and may end anywhere.    *)
(*                                                                         *)
(* A unit is what the four accessors of trie.go make of its bits; the top   *)
(* bit of a unit that holds a value makes its label no byte.                *)
(***************************************************************************)
EXTENDS Integers, SequencesExt

CONSTANTS Lexicons,  \* dictionaries: sets of keys, without byte 0
          Size,      \* units of a double array
          Bytes,     \* bytes of a text
          MaxRead,   \* bound: bytes of a text
          MaxUint32, \* the largest number of an index of a unit
          BitXor(_, _)  \* a ^ b of two such numbers

VARIABLES keys,   \* the words of the dictionary
          trie,   \* the units
          read,   \* b[offset:i]
          node,   \* the unit the walk has reached
          pc,     \* "root", "byte", "words", or how it ended: "stopped", "end"
          k,      \* words yielded of that leaf
          out     \* history: what was yielded

vars == <<keys, trie, read, node, pc, k, out>>

Uint32 == 0 .. MaxUint32

\* A dictionary has keys, of bytes, and there is a first unit; exclusive or
\* takes no number out of its width and is its own inverse.
LexiconsAssumption ==
    /\ MaxUint32 \in Nat /\ Size \in 1 .. MaxUint32 + 1 /\ Bytes \subseteq Uint32
    /\ \A ks \in Lexicons : ks # {} /\ IsFiniteSet(ks) /\ ks \subseteq Seq(Bytes)
    /\ \A a, b \in Uint32 : /\ BitXor(a, b) \in Uint32 /\ BitXor(a, b) = BitXor(b, a)
                            /\ BitXor(a, BitXor(a, b)) = b
    /\ \A a \in Uint32 : BitXor(0, a) = a

NoByte == -1

\* The words of a key are numbered: one that ends in the first byte has a
\* homograph.
Homographs(key) == IF Last(key) = Head(key) THEN 2 ELSE 1

(* What a builder of double arrays (darts-clone) promises: the state of a   *)
(* prefix has a base of its own; its child by c is the unit at base XOR c,  *)
(* labelled c, and the value of a key is at the base itself. A unit nothing *)
(* uses is labelled as the child of a base no prefix has.                   *)
States(ks) == UNION {Prefixes(key) : key \in ks}
Places == 0 .. Size - 1

UnitAt(p, base) == IF p = <<>> THEN 0 ELSE BitXor(base[Front(p)], Last(p))

Used(ks, base) == {UnitAt(p, base) : p \in States(ks)} \cup {base[key] : key \in ks}

Arranged(ks, base) ==
    /\ IsInjective(base) /\ Used(ks, base) \subseteq Places
    /\ Cardinality(Used(ks, base)) = Cardinality(States(ks)) + Cardinality(ks)

UnitOf(ks, base, free, i) ==
    LET states == {p \in States(ks) : UnitAt(p, base) = i}
        values == {key \in ks : base[key] = i}
        unit == [label |-> NoByte, offset |-> 0, leaf |-> FALSE, value |-> <<>>]
    IN  IF values # {} THEN [unit EXCEPT !.value = CHOOSE key \in values : TRUE]
        ELSE IF states = {} THEN [unit EXCEPT !.label = BitXor(i, free)]
        ELSE LET p == CHOOSE p \in states : TRUE
             IN  [unit EXCEPT !.label = IF p = <<>> THEN NoByte ELSE Last(p),
                              !.offset = BitXor(i, base[p]), !.leaf = p \in ks]

Init ==
    /\ keys \in Lexicons
    /\ \E base \in [States(keys) -> Places] :
           /\ Arranged(keys, base)
           /\ \E free \in Places \ Range(base) : trie = [i \in Places |-> UnitOf(keys, base, free, i)]
    /\ read = <<>> /\ node = 0 /\ pc = "root" /\ k = 0 /\ out = <<>>

-----------------------------------------------------------------------------
HasUnit(i) == i \in Places

Root ==
    /\ pc = "root"
    /\ node' = trie[0].offset /\ pc' = "byte"
    /\ UNCHANGED <<keys, trie, read, k, out>>

\* The unit a byte leads to, from there the base of its children, and a leaf
\* on it.
Matches_Unlabelled(i, c) == HasUnit(i)
Matches(i, c) == HasUnit(i) /\ trie[i].label = c

AfterMatch(i) == IF ~trie[i].leaf THEN "byte" ELSE IF HasUnit(node') THEN "words" ELSE "stopped"

ReadByte(c) ==
    /\ pc = "byte" /\ Len(read) < MaxRead
    /\ read' = Append(read, c)
    /\ LET child == BitXor(node, c)
       IN  IF Matches(child, c)
           THEN node' = BitXor(child, trie[child].offset) /\ pc' = AfterMatch(child)
           ELSE node' = child /\ pc' = "stopped"
    /\ UNCHANGED <<keys, trie, k, out>>

TextEnds == pc = "byte" /\ pc' = "end" /\ UNCHANGED <<keys, trie, read, node, k, out>>

\* wordIDs of the leaf's value, one word at a time.
YieldWord ==
    /\ pc = "words" /\ k < Homographs(trie[node].value)
    /\ out' = Append(out, [end |-> Len(read), word |-> <<trie[node].value, k + 1>>])
    /\ k' = k + 1
    /\ UNCHANGED <<keys, trie, read, node, pc>>

EndWords == /\ pc = "words" /\ k = Homographs(trie[node].value)
            /\ pc' = "byte" /\ k' = 0 /\ UNCHANGED <<keys, trie, read, node, out>>

Next == Root \/ (\E c \in Bytes : ReadByte(c)) \/ TextEnds \/ YieldWord \/ EndWords

Spec == Init /\ [][Next]_vars

-----------------------------------------------------------------------------
(* Properties *)

TypeOK == /\ read \in Seq(Bytes) /\ node \in Nat /\ pc \in {"root", "byte", "words", "stopped", "end"}
          /\ k \in 0 .. 2 /\ pc # "words" => k = 0

\* What a lookup should yield of the text read: the words that are its
\* prefixes, the shorter before the longer (dictionary.go:247).
Wanted(s) ==
    LET wordsTo(n) == LET key == SubSeq(s, 1, n)
                      IN  IF key \notin keys THEN <<>>
                          ELSE [j \in 1 .. Homographs(key) |-> [end |-> n, word |-> <<key, j>>]]
    IN  FlattenSeq([n \in 1 .. Len(s) |-> wordsTo(n)])

\* Between two bytes a lookup has yielded exactly the words that begin the text
\* read so far, shortest first, however units of other words lie between; where
\* it gives up before the end of the text, no word begins with what it read.
FoundInOrder ==
    /\ pc \in {"byte", "stopped", "end"} => out = Wanted(read)
    /\ pc = "stopped" => \A key \in keys : ~IsPrefix(read, key)
=============================================================================
